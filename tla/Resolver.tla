------------------------------- MODULE Resolver -------------------------------
(***************************************************************************)
(* From a beacon to a journey: the gateway (resolveEntryContext of          *)
(* internal/journey/service.go) asks the mobility service over HTTP         *)
(* (client.go, service.go), whose Resolver (resolver.go) looks in a copy of *)
(* its process, in Redis, asks the provider of the metro (provider.go), and *)
(* falls back to a fixture (fixtures.go).                                   *)
(*                                                                          *)
(* Two clocks race: the gateway gives a call up after ClientTimeout, the    *)
(* resolver gives the provider up after ProviderTimeout.  A tick is a share *)
(* of such a timeout.  A read of Redis and the provider may take any number *)
(* of ticks, until the gateway or the timer ends them; the SET of store has *)
(* no such end (context.Background()) and takes up to SetDelay ticks, the   *)
(* timeouts and retries of the Redis client, whether or not anybody still   *)
(* waits for the answer.  The other steps take less than a tick.            *)
(***************************************************************************)
EXTENDS Integers, FiniteSets

CONSTANTS
    Calls,           \* requests in flight at the same time
    Requests,        \* CreateEntryEvent requests: an observation [uuid, major, minor]
                     \* and the station_id claimed, if any
    Canonical,       \* a uuid without spaces and in lower case
    Blank,           \* an empty text
    Mappings,        \* station of a pair of provider ids
    Responses,       \* what the provider may know of a beacon
    Known,           \* what it knows at first
    Fixtures,        \* station of the beacons with a fixture
    None,
    TTL,             \* life of the Redis copy, in ticks
    ProviderTimeout, ClientTimeout,
    SetDelay,        \* bound: ticks a SET may take
    MaxEntries,      \* bound: calls
    MaxChanges,      \* bound: changes of the provider's data or health
    MaxFaults        \* bound: restarts and failed Redis commands

(* The beacon an observation is of.                                         *)
Beacon(o) == <<Canonical[o.uuid], o.major, o.minor>>

(* Fault: the key leaves out the minor.                                     *)
observationKeyNoMinor(o) == <<Canonical[o.uuid], o.major>>

(* The key of the caches and fixtures: the uuid trimmed and in lower case,  *)
(* major and minor in decimal (formatInt).                                  *)
observationKey(o) == <<Canonical[o.uuid], o.major, o.minor>>

Valid(o) == Canonical[o.uuid] # Blank /\ o.major >= 0 /\ o.minor >= 0
Sound == {o \in {r.observation : r \in Requests} : Valid(o)}
Keys == {observationKey(o) : o \in Sound}
Beacons == {Beacon(o) : o \in Sound}
Stations == ({Mappings[k] : k \in DOMAIN Mappings} \cup {Fixtures[k] : k \in DOMAIN Fixtures}
               \cup {r.sid : r \in Responses}) \ {Blank}

(* How a call may end at the gateway.                                       *)
Endings == {"entered", "conflict", "unavailable", "timeout", "broken"}

ASSUME ResolverAssumption ==
    /\ TTL \in Nat \ {0} /\ ProviderTimeout \in Nat /\ ClientTimeout \in Nat
    /\ SetDelay \in Nat
    /\ MaxEntries \in Nat /\ MaxChanges \in Nat /\ MaxFaults \in Nat
    /\ \A r \in Responses : DOMAIN r = {"sid", "lid", "name"}
    /\ Known \in [Beacons -> Responses]
    /\ None \notin Requests /\ None \notin Stations \cup Endings /\ None # Blank

VARIABLES
    truth,      \* what the provider knows of each beacon
    health,     \* whether the provider answers, refuses or stays silent
    local,      \* the copies of the process, by key
    redis,      \* the Redis copies: a station and its life
    pc,         \* what the resolver does next for each call
    call,       \* the observation and the station_id of the request
    got,        \* the station the call holds, and how long ago the provider named it
    waited,     \* ticks the gateway has waited for the call
    asked,      \* ticks the provider has been asked for
    outcome,    \* how the call ended at the gateway: None while it runs
    given,      \* ghost: the stations the provider gave for a beacon
    answered,   \* ghost: the beacons it answered for since the service started
    entries, changes, faults

copies == <<local, redis, given, answered>>
calls == <<pc, call, got, waited, asked, outcome>>
bounds == <<entries, changes, faults>>
vars == <<truth, health, copies, calls, bounds>>

Key(c) == observationKey(call[c].observation)
Seen(c) == Beacon(call[c].observation)
Goto(c, step) == pc' = [pc EXCEPT ![c] = step]
Fault == faults < MaxFaults /\ faults' = faults + 1

(* The gateway has given up: the context of the request is cancelled.       *)
Cancelled(c) == outcome[c] = "timeout"

-----------------------------------------------------------------------------
(* normalize: the mapped station if it has an id, or else the provider's    *)
(* own id when the answer is complete, or else nothing.                     *)
normalize(r) ==
    LET k == <<r.sid, r.lid>> IN
    IF k \in DOMAIN Mappings THEN IF Mappings[k] = Blank THEN None ELSE Mappings[k]
    ELSE IF Blank \in {r.sid, r.lid, r.name} THEN None
    ELSE r.sid

(* The gateway's end of a call: HTTPClient.Resolve and resolveEntryContext. *)
(* A station_id that contradicts the beacon is refused.                     *)
Conclude(c, station) ==
    /\ outcome' = [outcome EXCEPT ![c] =
          IF Cancelled(c) THEN @
          ELSE IF station = None THEN "unavailable"
          ELSE IF call[c].claim \notin {None, station} THEN "conflict"
          ELSE "entered"]
    /\ got' = [got EXCEPT ![c] = IF station = None THEN None ELSE [station |-> station, age |-> 0]]
    /\ Goto(c, "done")

(* CreateEntryEvent with a beacon.                                          *)
Enter(c, r) ==
    /\ pc[c] = "idle" /\ entries < MaxEntries
    /\ entries' = entries + 1
    /\ call' = [call EXCEPT ![c] = r]
    /\ Goto(c, "local")
    /\ UNCHANGED <<truth, health, copies, got, waited, asked, outcome, changes, faults>>

(* The copy of the process, which has no age, under the mutex.              *)
ReadLocal(c) ==
    /\ pc[c] = "local"
    /\ \/ ~Valid(call[c].observation) /\ Conclude(c, None)
       \/ /\ Valid(call[c].observation) /\ local[Key(c)] # None
          /\ Conclude(c, local[Key(c)])
       \/ /\ Valid(call[c].observation) /\ local[Key(c)] = None
          /\ Goto(c, "redis") /\ UNCHANGED <<got, outcome>>
    /\ UNCHANGED <<truth, health, copies, call, waited, asked, bounds>>

(* loadRedis; an error or a cancelled context is a miss.                    *)
ReadRedis(c) ==
    /\ pc[c] = "redis"
    /\ \/ /\ ~Cancelled(c) /\ redis[Key(c)] # None
          /\ got' = [got EXCEPT ![c] = [station |-> redis[Key(c)].station, age |-> redis[Key(c)].age]]
          /\ Goto(c, "keep") /\ UNCHANGED <<asked, faults>>
       \/ /\ Cancelled(c) \/ redis[Key(c)] = None
          /\ Goto(c, "provider") /\ asked' = [asked EXCEPT ![c] = 0] /\ UNCHANGED <<got, faults>>
       \/ /\ redis[Key(c)] # None /\ Fault
          /\ Goto(c, "provider") /\ asked' = [asked EXCEPT ![c] = 0] /\ UNCHANGED got
    /\ UNCHANGED <<truth, health, copies, call, waited, outcome, entries, changes>>

(* Fault: what came from Redis is stored there again.                       *)
KeepAndStore(c) ==
    /\ pc[c] = "keep"
    /\ local' = [local EXCEPT ![Key(c)] = got[c].station]
    /\ redis' = [redis EXCEPT ![Key(c)] = [station |-> got[c].station, age |-> got[c].age, left |-> TTL]]
    /\ Conclude(c, got[c].station)
    /\ UNCHANGED <<truth, health, given, answered, call, waited, asked, bounds>>

(* storeLocal of a Redis copy, and the answer.                              *)
Keep(c) ==
    /\ pc[c] = "keep"
    /\ local' = [local EXCEPT ![Key(c)] = got[c].station]
    /\ Conclude(c, got[c].station)
    /\ UNCHANGED <<truth, health, redis, given, answered, call, waited, asked, bounds>>

(* HTTPProvider.Resolve answers with something normalize can use.           *)
ProviderAnswers(c) ==
    /\ pc[c] = "provider" /\ health = "up" /\ ~Cancelled(c)
    /\ normalize(truth[Seen(c)]) # None
    /\ got' = [got EXCEPT ![c] = [station |-> normalize(truth[Seen(c)]), age |-> 0]]
    /\ given' = [given EXCEPT ![Seen(c)] = @ \cup {normalize(truth[Seen(c)])}]
    /\ answered' = answered \cup {Seen(c)}
    /\ Goto(c, "store")
    /\ UNCHANGED <<truth, health, local, redis, call, waited, asked, outcome, bounds>>

(* Fault: nothing ends a silent call.                                       *)
ProviderOverAloud(c) == health = "down" \/ (health = "up" /\ normalize(truth[Seen(c)]) = None)

(* It refuses, tells nothing usable, or the timer or the gateway ends it.   *)
ProviderOver(c) ==
    \/ health = "down"
    \/ health = "up" /\ normalize(truth[Seen(c)]) = None
    \/ asked[c] = ProviderTimeout
    \/ Cancelled(c)

ProviderFails(c) ==
    /\ pc[c] = "provider" /\ ProviderOver(c)
    /\ Goto(c, "fixture")
    /\ UNCHANGED <<truth, health, copies, call, got, waited, asked, outcome, bounds>>

(* Fault: store keeps nothing once the request is cancelled.                *)
StoreLocalIfAwaited(c) ==
    /\ pc[c] = "store"
    /\ local' = IF Cancelled(c) THEN local ELSE [local EXCEPT ![Key(c)] = got[c].station]
    /\ Goto(c, "set")
    /\ UNCHANGED <<truth, health, redis, given, answered, call, got, waited, asked, outcome, bounds>>

(* store: the copy of the process, then Redis as far as it goes, both also  *)
(* when the gateway has given up.                                           *)
StoreLocal(c) ==
    /\ pc[c] = "store"
    /\ local' = [local EXCEPT ![Key(c)] = got[c].station]
    /\ Goto(c, "set")
    /\ UNCHANGED <<truth, health, redis, given, answered, call, got, waited, asked, outcome, bounds>>

StoreRedis(c) ==
    /\ pc[c] = "set"
    /\ \/ /\ redis' = [redis EXCEPT ![Key(c)] = [station |-> got[c].station, age |-> got[c].age, left |-> TTL]]
          /\ UNCHANGED faults
       \/ UNCHANGED redis /\ Fault
    /\ Conclude(c, got[c].station)
    /\ UNCHANGED <<truth, health, local, given, answered, call, waited, asked, entries, changes>>

(* The fixture of the beacon; DefaultResolver has no station for the others.*)
AnswerFixture(c) ==
    /\ pc[c] = "fixture"
    /\ Conclude(c, IF Key(c) \in DOMAIN Fixtures THEN Fixtures[Key(c)] ELSE None)
    /\ UNCHANGED <<truth, health, copies, call, waited, asked, bounds>>

(* The gateway goes on; the slot is free.                                   *)
Finish(c) ==
    /\ pc[c] = "done"
    /\ Goto(c, "idle")
    /\ call' = [call EXCEPT ![c] = None]
    /\ got' = [got EXCEPT ![c] = None]
    /\ waited' = [waited EXCEPT ![c] = 0]
    /\ asked' = [asked EXCEPT ![c] = 0]
    /\ outcome' = [outcome EXCEPT ![c] = None]
    /\ UNCHANGED <<truth, health, copies, bounds>>

(* The gateway's client gives up.                                           *)
GiveUp(c) ==
    /\ pc[c] \notin {"idle", "done"} /\ ~Cancelled(c)
    /\ waited[c] = ClientTimeout
    /\ outcome' = [outcome EXCEPT ![c] = "timeout"]
    /\ UNCHANGED <<truth, health, copies, pc, call, got, waited, asked, bounds>>

-----------------------------------------------------------------------------
(* A tick, once nobody has anything left to do in this one.                 *)
Tick ==
    /\ \A c \in Calls :
          /\ pc[c] \in {"idle", "redis", "provider", "set"}
          /\ pc[c] = "provider" => ~ProviderOver(c)
          /\ pc[c] = "set" => got[c].age < SetDelay
          /\ pc[c] # "idle" => waited[c] < ClientTimeout \/ Cancelled(c)
    /\ waited' = [c \in Calls |-> IF pc[c] = "idle" \/ Cancelled(c) THEN waited[c] ELSE waited[c] + 1]
    /\ asked' = [c \in Calls |-> IF pc[c] # "provider" \/ Cancelled(c) THEN asked[c] ELSE asked[c] + 1]
    /\ got' = [c \in Calls |-> IF pc[c] = "set" THEN [got[c] EXCEPT !.age = @ + 1] ELSE got[c]]
    /\ redis' = [k \in Keys |->
                    IF redis[k] = None \/ redis[k].left = 1 THEN None
                    ELSE [station |-> redis[k].station, age |-> redis[k].age + 1,
                          left |-> redis[k].left - 1]]
    /\ UNCHANGED <<truth, health, local, given, answered, pc, call, outcome, bounds>>

(* The metro moves a beacon, or its service comes and goes.                 *)
Change ==
    /\ changes < MaxChanges /\ changes' = changes + 1
    /\ \/ /\ \E b \in Beacons, r \in Responses : truth' = [truth EXCEPT ![b] = r]
          /\ UNCHANGED health
       \/ /\ health' \in {"up", "down", "silent"} \ {health}
          /\ UNCHANGED truth
    /\ UNCHANGED <<copies, calls, entries, faults>>

(* The mobility service restarts: its copies go, and so do its requests.    *)
Restart ==
    /\ Fault
    /\ local' = [k \in Keys |-> None]
    /\ answered' = {}
    /\ pc' = [c \in Calls |-> IF pc[c] = "idle" THEN "idle" ELSE "done"]
    /\ outcome' = [c \in Calls |-> IF pc[c] = "idle" THEN None
                                   ELSE IF pc[c] = "done" \/ Cancelled(c) THEN outcome[c]
                                   ELSE "broken"]
    /\ got' = [c \in Calls |-> IF pc[c] = "done" THEN got[c] ELSE None]
    /\ UNCHANGED <<truth, health, redis, given, call, waited, asked, entries, changes>>

Init ==
    /\ truth = Known
    /\ health = "up"
    /\ local = [k \in Keys |-> None]
    /\ redis = [k \in Keys |-> None]
    /\ given = [b \in Beacons |-> {}] /\ answered = {}
    /\ pc = [c \in Calls |-> "idle"]
    /\ call = [c \in Calls |-> None]
    /\ got = [c \in Calls |-> None]
    /\ waited = [c \in Calls |-> 0] /\ asked = [c \in Calls |-> 0]
    /\ outcome = [c \in Calls |-> None]
    /\ entries = 0 /\ changes = 0 /\ faults = 0

Step(c) ==
    \/ ReadLocal(c) \/ ReadRedis(c) \/ Keep(c) \/ ProviderAnswers(c) \/ ProviderFails(c)
    \/ StoreLocal(c) \/ StoreRedis(c) \/ AnswerFixture(c) \/ Finish(c)

Next ==
    \/ \E c \in Calls :
          \/ Step(c) \/ GiveUp(c)
          \/ \E r \in Requests : Enter(c, r)
    \/ Tick \/ Change \/ Restart

Spec == Init /\ [][Next]_vars

(* A request in progress goes on, and the timers run.                       *)
FairSpec ==
    /\ Spec
    /\ WF_vars(Tick)
    /\ \A c \in Calls : WF_vars(Step(c)) /\ WF_vars(GiveUp(c))

-----------------------------------------------------------------------------
(* A call holds what its next step needs, and no timer runs past its end    *)
(* (Resolver.Resolve, HTTPProvider, HTTPClient).                            *)
TypeOK ==
    /\ \A k \in Keys : local[k] \in Stations \cup {None}
    /\ \A k \in Keys : redis[k] # None => redis[k].left \in 1 .. TTL
    /\ \A c \in Calls :
          /\ pc[c] \in {"idle", "local", "redis", "keep", "provider", "store", "set", "fixture", "done"}
          /\ (pc[c] = "idle") <=> (call[c] = None)
          /\ pc[c] \in {"keep", "store", "set"} => got[c].station \in Stations
          /\ waited[c] \in 0 .. ClientTimeout /\ asked[c] \in 0 .. ProviderTimeout
          /\ outcome[c] \in Endings \cup {None}

(* Only what the provider said of this very beacon is ever remembered, in   *)
(* the process or in Redis: a fixture served during an outage does not mask *)
(* the provider when it is back, and no beacon takes the place of another.  *)
(* However often a beacon is asked for, the station in Redis is one the     *)
(* provider gave no longer ago than the 15 minutes of its life and the time *)
(* its SET took: a hit does not prolong it, and the copies of the           *)
(* processes, which have no age, never go back to it.                       *)
OnlyProviderRemembered ==
    /\ TypeOK
    /\ \A o \in Sound :
          LET k == observationKey(o) IN
          /\ local[k] # None => local[k] \in given[Beacon(o)]
          /\ redis[k] # None =>
                redis[k].station \in given[Beacon(o)] /\ redis[k].age + redis[k].left <= TTL + SetDelay

(* A journey starts at a station the provider or the fixture names for the  *)
(* observed beacon, and never against the station_id of the request.        *)
EntersWhereObserved ==
    \A c \in Calls :
        outcome[c] = "entered" =>
            /\ call[c].claim \in {None, got[c].station}
            /\ \/ got[c].station \in given[Seen(c)]
               \/ Key(c) \in DOMAIN Fixtures /\ got[c].station = Fixtures[Key(c)]

(* What bridges an outage of the provider, at any setting of the timeouts   *)
(* (the repository ships with equal ones).  An answer of the provider is    *)
(* never wasted: also when the gateway gave up while it was on its way or   *)
(* being stored, it is in the process when its rider tries again, who is    *)
(* then served without provider and Redis.  A beacon with a fixture is      *)
(* never answered as unavailable.                                           *)
OutageIsBridged ==
    /\ \A o \in Sound : Beacon(o) \in answered =>
          \/ local[observationKey(o)] # None
          \/ \E c \in Calls : pc[c] = "store" /\ Seen(c) = Beacon(o)
    /\ \A c \in Calls : outcome[c] = "unavailable" =>
          ~Valid(call[c].observation) \/ Key(c) \notin DOMAIN Fixtures

(* Every request of the mobility service comes to an end, also when the     *)
(* provider never answers and the gateway has gone.                         *)
RequestsEnd == \A c \in Calls : pc[c] # "idle" ~> pc[c] = "idle"
=============================================================================

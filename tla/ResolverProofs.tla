---------------------------- MODULE ResolverProofs ----------------------------
(***************************************************************************)
(* For any beacons, provider data, timeouts and number of calls: what is    *)
(* remembered of a beacon is what the provider said of it, a journey starts *)
(* where the beacon was observed, and the copies and fixtures bridge an     *)
(* outage.                                                                  *)
(*                                                                          *)
(* The invariant adds to the copies what each call has in hand on its way   *)
(* to them, with the time it has been there, and what its end at the        *)
(* gateway rests on.                                                        *)
(***************************************************************************)
EXTENDS Resolver, TLAPS

PCs == {"idle", "local", "redis", "keep", "provider", "store", "set", "fixture", "done"}
Copies == [station : Stations, age : Nat, left : 1 .. TTL]

Shapes ==
    /\ truth \in [Beacons -> Responses]
    /\ health \in {"up", "down", "silent"}
    /\ local \in [Keys -> Stations \cup {None}]
    /\ redis \in [Keys -> Copies \cup {None}]
    /\ given \in [Beacons -> SUBSET Stations] /\ answered \in SUBSET Beacons
    /\ pc \in [Calls -> PCs]
    /\ call \in [Calls -> Requests \cup {None}]
    /\ DOMAIN got = Calls
    /\ waited \in [Calls -> 0 .. ClientTimeout]
    /\ asked \in [Calls -> 0 .. ProviderTimeout]
    /\ outcome \in [Calls -> Endings \cup {None}]

(* A beacon is its own key, so that nothing is remembered of another.       *)
Remembered ==
    \A k \in Keys :
        /\ local[k] # None => local[k] \in given[k]
        /\ redis[k] # None =>
              redis[k].station \in given[k] /\ redis[k].age + redis[k].left <= TTL + SetDelay

(* What the provider has answered is in the process, or about to be.        *)
Kept ==
    \A b \in Beacons : b \in answered =>
        local[b] # None \/ \E c \in Calls : pc[c] = "store" /\ Seen(c) = b

(* What a call holds came from the provider, and no longer ago than a SET   *)
(* takes if it is being stored; only a sound observation gets as far as a   *)
(* key.                                                                     *)
InHand(c) ==
    /\ pc[c] = "idle" <=> call[c] = None
    /\ pc[c] \in {"keep", "store", "set"} => got[c].station \in given[Seen(c)]
    /\ pc[c] \in {"store", "set"} => got[c] \in [station : Stations, age : 0 .. SetDelay]
    /\ pc[c] \notin {"idle", "local", "done"} => Valid(call[c].observation)

(* What the end of a call at the gateway rests on.                          *)
Ended(c) ==
    /\ outcome[c] \notin {None, "timeout"} => pc[c] = "done"
    /\ pc[c] = "idle" => outcome[c] = None
    /\ outcome[c] = "timeout" => waited[c] = ClientTimeout
    /\ outcome[c] = "entered" =>
          /\ Valid(call[c].observation)
          /\ call[c].claim \in {None, got[c].station}
          /\ \/ got[c].station \in given[Seen(c)]
             \/ Key(c) \in DOMAIN Fixtures /\ got[c].station = Fixtures[Key(c)]
    /\ outcome[c] = "unavailable" =>
          ~Valid(call[c].observation) \/ Key(c) \notin DOMAIN Fixtures

Inv == /\ Shapes
       /\ Remembered /\ Kept
       /\ \A c \in Calls : InHand(c) /\ Ended(c)

-----------------------------------------------------------------------------
LEMMA KeysAreBeacons == Keys = Beacons
  BY DEF Keys, Beacons, observationKey, Beacon

(* A call on its way has a key.                                             *)
LEMMA HasKey ==
    ASSUME Shapes, NEW c \in Calls, call[c] # None, Valid(call[c].observation)
    PROVE  Key(c) \in Keys /\ Seen(c) \in Beacons /\ Key(c) = Seen(c)
  <1>1. call[c] \in Requests
    BY DEF Shapes
  <1>2. call[c].observation \in Sound
    BY <1>1 DEF Sound
  <1> QED BY <1>2 DEF Keys, Beacons, Key, Seen, observationKey, Beacon

(* normalize gives a station or nothing.                                    *)
LEMMA NormalizeIsStation ==
    ASSUME NEW r \in Responses PROVE normalize(r) \in Stations \cup {None}
  <1> DEFINE k == <<r.sid, r.lid>>
  <1>1. CASE k \in DOMAIN Mappings
    BY <1>1 DEF normalize, Stations
  <1>2. CASE k \notin DOMAIN Mappings
    BY <1>2 DEF normalize, Stations
  <1> QED BY <1>1, <1>2

(* A call is left as it is by a step of another, which can only add to what *)
(* the provider has given.                                                  *)
LEMMA Untouched ==
    ASSUME Shapes, NEW d \in Calls, InHand(d), Ended(d),
           pc'[d] = pc[d], call'[d] = call[d], got'[d] = got[d],
           waited'[d] = waited[d] \/ outcome[d] # "timeout", outcome'[d] = outcome[d],
           \A b \in Beacons : given[b] \subseteq given'[b]
    PROVE  InHand(d)' /\ Ended(d)'
  <1>1. Seen(d)' = Seen(d) /\ Key(d)' = Key(d)
    BY DEF Seen, Key
  <1>2. ASSUME call[d] # None, Valid(call[d].observation)
        PROVE  given[Seen(d)] \subseteq given'[Seen(d)]
    BY <1>2, HasKey
  <1>3. InHand(d)'
    BY <1>1, <1>2 DEF InHand
  <1>4. Ended(d)'
    BY <1>1, <1>2, ResolverAssumption DEF Ended, InHand, Endings
  <1> QED BY <1>3, <1>4

-----------------------------------------------------------------------------
(* The answer of a call: what it may be made of.                            *)
LEMMA Concluded ==
    ASSUME Shapes, NEW c \in Calls, NEW station, Conclude(c, station),
           InHand(c), Ended(c), pc[c] \notin {"idle", "done"},
           UNCHANGED <<call, waited, given>>,
           station = None => ~Valid(call[c].observation) \/ Key(c) \notin DOMAIN Fixtures,
           station # None =>
               /\ Valid(call[c].observation)
               /\ \/ station \in given[Seen(c)]
                  \/ Key(c) \in DOMAIN Fixtures /\ station = Fixtures[Key(c)]
    PROVE  /\ InHand(c)' /\ Ended(c)'
           /\ pc' \in [Calls -> PCs] /\ DOMAIN got' = Calls
           /\ outcome' \in [Calls -> Endings \cup {None}]
           /\ \A d \in Calls \ {c} : pc'[d] = pc[d] /\ got'[d] = got[d] /\ outcome'[d] = outcome[d]
  <1>1. pc' = [pc EXCEPT ![c] = "done"]
    BY DEF Conclude, Goto
  <1>2. PICK a : /\ a = IF station = None THEN None ELSE [station |-> station, age |-> 0]
                 /\ got' = [got EXCEPT ![c] = a]
    BY DEF Conclude
  <1>3. PICK z : /\ z = IF Cancelled(c) THEN outcome[c]
                        ELSE IF station = None THEN "unavailable"
                        ELSE IF call[c].claim \notin {None, station} THEN "conflict"
                        ELSE "entered"
                 /\ outcome' = [outcome EXCEPT ![c] = z]
    BY DEF Conclude
  <1>4. z \in Endings
    BY <1>3 DEF Endings, Cancelled
  <1>5. /\ pc' \in [Calls -> PCs] /\ DOMAIN got' = Calls
        /\ outcome' \in [Calls -> Endings \cup {None}]
        /\ \A d \in Calls \ {c} : pc'[d] = pc[d] /\ got'[d] = got[d] /\ outcome'[d] = outcome[d]
        /\ pc'[c] = "done" /\ got'[c] = a /\ outcome'[c] = z
    BY <1>1, <1>2, <1>3, <1>4 DEF Shapes, PCs
  <1>6. Seen(c)' = Seen(c) /\ Key(c)' = Key(c)
    BY DEF Seen, Key
  <1>7. InHand(c)'
    BY <1>5 DEF InHand
  <1>8. Ended(c)'
    <2>1. z = "timeout" => waited[c] = ClientTimeout
      BY <1>3 DEF Ended, Cancelled
    <2>2. z = "entered" => station # None /\ a.station = station /\ call[c].claim \in {None, station}
      BY <1>2, <1>3 DEF Cancelled
    <2>3. z = "unavailable" => station = None
      BY <1>3 DEF Cancelled
    <2> QED BY <1>5, <1>6, <2>1, <2>2, <2>3 DEF Ended
  <1> QED BY <1>5, <1>7, <1>8

(* A step that leaves the copies alone leaves what they say.                *)
LEMMA CopiesAlone ==
    ASSUME Remembered, UNCHANGED copies PROVE Remembered'
  BY DEF Remembered, copies

(* The answers stay where they are while no call leaves its store step and  *)
(* no copy of the process goes.                                             *)
LEMMA KeptAlone ==
    ASSUME Kept, UNCHANGED answered,
           \A k \in Keys : local[k] # None => local'[k] # None,
           \A c \in Calls : pc[c] = "store" => pc'[c] = "store" /\ call'[c] = call[c]
    PROVE  Kept'
  <1>1. \A c \in Calls : pc[c] = "store" => Seen(c)' = Seen(c)
    BY DEF Seen
  <1> QED BY <1>1, KeysAreBeacons DEF Kept

LEMMA InitInv == Init => Inv
  <1> SUFFICES ASSUME Init PROVE Inv
    OBVIOUS
  <1>1. Shapes
    BY ResolverAssumption DEF Init, Shapes, PCs
  <1>2. Remembered /\ Kept
    BY DEF Init, Remembered, Kept
  <1>3. \A c \in Calls : InHand(c) /\ Ended(c)
    BY ResolverAssumption DEF Init, InHand, Ended, Endings
  <1> QED BY <1>1, <1>2, <1>3 DEF Inv

LEMMA EnterInv == ASSUME Inv, NEW c \in Calls, NEW r \in Requests, Enter(c, r) PROVE Inv'
  <1>1. /\ pc[c] = "idle" /\ call' = [call EXCEPT ![c] = r] /\ pc' = [pc EXCEPT ![c] = "local"]
        /\ UNCHANGED <<truth, health, local, redis, given, answered, got, waited, asked, outcome>>
        /\ UNCHANGED copies
    BY DEF Enter, Goto, copies
  <1>2. Shapes'
    BY <1>1 DEF Inv, Shapes, PCs
  <1>3. /\ pc'[c] = "local" /\ call'[c] = r
        /\ \A d \in Calls \ {c} : pc'[d] = pc[d] /\ call'[d] = call[d]
    BY <1>1 DEF Inv, Shapes
  <1>4. InHand(c)' /\ Ended(c)'
    BY <1>1, <1>3, ResolverAssumption DEF Inv, InHand, Ended, Endings
  <1>5. ASSUME NEW d \in Calls \ {c} PROVE InHand(d)' /\ Ended(d)'
    BY <1>1, <1>3, Untouched DEF Inv
  <1>6. Kept'
    BY <1>1, <1>3, KeptAlone DEF Inv
  <1> QED BY <1>1, <1>2, <1>4, <1>5, <1>6, CopiesAlone DEF Inv

(* A call that answers without writing a copy.                              *)
LEMMA AnswerInv ==
    ASSUME Inv, NEW c \in Calls, NEW station, Conclude(c, station),
           pc[c] \notin {"idle", "store", "done"},
           UNCHANGED <<truth, health, copies, call, waited, asked>>,
           station = None => ~Valid(call[c].observation) \/ Key(c) \notin DOMAIN Fixtures,
           station # None =>
               /\ Valid(call[c].observation)
               /\ \/ station \in given[Seen(c)]
                  \/ Key(c) \in DOMAIN Fixtures /\ station = Fixtures[Key(c)]
    PROVE  Inv'
  <1>1. UNCHANGED <<local, redis, given, answered>>
    BY DEF copies
  <1>2. /\ InHand(c)' /\ Ended(c)'
        /\ pc' \in [Calls -> PCs] /\ DOMAIN got' = Calls
        /\ outcome' \in [Calls -> Endings \cup {None}]
        /\ \A d \in Calls \ {c} : pc'[d] = pc[d] /\ got'[d] = got[d] /\ outcome'[d] = outcome[d]
    BY <1>1, Concluded DEF Inv
  <1>3. Shapes'
    BY <1>1, <1>2 DEF Inv, Shapes
  <1>4. ASSUME NEW d \in Calls \ {c} PROVE InHand(d)' /\ Ended(d)'
    BY <1>1, <1>2, Untouched DEF Inv
  <1>5. Kept'
    BY <1>1, <1>2, KeptAlone DEF Inv
  <1> QED BY <1>2, <1>3, <1>4, <1>5, CopiesAlone DEF Inv

(* A call that goes to another step with nothing to store.                  *)
LEMMA GoInv ==
    ASSUME Inv, NEW c \in Calls, NEW step \in {"redis", "provider", "fixture"}, Goto(c, step),
           pc[c] \notin {"idle", "store", "done"}, Valid(call[c].observation),
           UNCHANGED <<truth, health, copies, call, got, waited, outcome>>,
           asked' \in [Calls -> 0 .. ProviderTimeout]
    PROVE  Inv'
  <1>1. UNCHANGED <<local, redis, given, answered>>
    BY DEF copies
  <1>2. /\ pc' \in [Calls -> PCs] /\ pc'[c] = step
        /\ \A d \in Calls \ {c} : pc'[d] = pc[d]
    BY DEF Goto, Inv, Shapes, PCs
  <1>3. Shapes'
    BY <1>1, <1>2 DEF Inv, Shapes
  <1>4. InHand(c)' /\ Ended(c)'
    <2>1. InHand(c)'
      BY <1>2 DEF Inv, InHand
    <2>2. Ended(c)'
      BY <1>2, ResolverAssumption DEF Inv, Ended, Endings
    <2> QED BY <2>1, <2>2
  <1>5. ASSUME NEW d \in Calls \ {c} PROVE InHand(d)' /\ Ended(d)'
    BY <1>1, <1>2, Untouched DEF Inv
  <1>6. Kept'
    BY <1>1, <1>2, KeptAlone DEF Inv
  <1> QED BY <1>3, <1>4, <1>5, <1>6, CopiesAlone DEF Inv

LEMMA ReadLocalInv == ASSUME Inv, NEW c \in Calls, ReadLocal(c) PROVE Inv'
  <1>1. pc[c] = "local" /\ call[c] # None /\ UNCHANGED <<truth, health, copies, call, waited, asked>>
    BY DEF ReadLocal, Inv, InHand
  <1>2. CASE ~Valid(call[c].observation) /\ Conclude(c, None)
    BY <1>1, <1>2, AnswerInv
  <1>3. CASE /\ Valid(call[c].observation) /\ local[Key(c)] # None
             /\ Conclude(c, local[Key(c)])
    <2>1. local[Key(c)] \in given[Seen(c)]
      BY <1>1, <1>3, HasKey DEF Inv, Remembered
    <2> QED BY <1>1, <1>3, <2>1, AnswerInv
  <1>4. CASE /\ Valid(call[c].observation) /\ local[Key(c)] = None
             /\ Goto(c, "redis") /\ UNCHANGED <<got, outcome>>
    <2>1. asked' \in [Calls -> 0 .. ProviderTimeout]
      BY <1>1 DEF Inv, Shapes
    <2> QED BY <1>1, <1>4, <2>1, GoInv
  <1> QED BY <1>2, <1>3, <1>4 DEF ReadLocal

LEMMA ReadRedisInv == ASSUME Inv, NEW c \in Calls, ReadRedis(c) PROVE Inv'
  <1>1. /\ pc[c] = "redis" /\ call[c] # None /\ Valid(call[c].observation)
        /\ UNCHANGED <<truth, health, copies, call, waited, outcome>>
        /\ UNCHANGED <<local, redis, given, answered>>
    BY DEF ReadRedis, Inv, InHand, copies
  <1>2. CASE Goto(c, "provider") /\ asked' = [asked EXCEPT ![c] = 0] /\ UNCHANGED got
    <2>1. 0 \in 0 .. ProviderTimeout
      BY ResolverAssumption
    <2>2. asked' \in [Calls -> 0 .. ProviderTimeout]
      BY <1>2, <2>1 DEF Inv, Shapes
    <2> QED BY <1>1, <1>2, <2>2, GoInv
  <1>3. CASE /\ redis[Key(c)] # None
             /\ got' = [got EXCEPT ![c] = [station |-> redis[Key(c)].station, age |-> redis[Key(c)].age]]
             /\ Goto(c, "keep") /\ UNCHANGED asked
    <2>1. /\ pc' \in [Calls -> PCs] /\ pc'[c] = "keep" /\ DOMAIN got' = Calls
          /\ got'[c].station = redis[Key(c)].station
          /\ \A d \in Calls \ {c} : pc'[d] = pc[d] /\ got'[d] = got[d]
      BY <1>3 DEF Goto, Inv, Shapes, PCs
    <2>2. Shapes'
      BY <1>1, <1>3, <2>1 DEF Inv, Shapes
    <2>3. redis[Key(c)].station \in given[Seen(c)]
      BY <1>1, <1>3, HasKey DEF Inv, Remembered
    <2>4. InHand(c)'
      <3>1. Seen(c)' = Seen(c)
        BY <1>1 DEF Seen
      <3> QED BY <1>1, <2>1, <2>3, <3>1 DEF Inv, InHand
    <2>5. Ended(c)'
      BY <1>1, <2>1, ResolverAssumption DEF Inv, Ended, Endings
    <2>6. ASSUME NEW d \in Calls \ {c} PROVE InHand(d)' /\ Ended(d)'
      BY <1>1, <2>1, Untouched DEF Inv
    <2>7. Kept'
      BY <1>1, <2>1, KeptAlone DEF Inv
    <2> QED BY <1>1, <2>2, <2>4, <2>5, <2>6, <2>7, CopiesAlone DEF Inv
  <1> QED BY <1>2, <1>3 DEF ReadRedis

LEMMA ProviderAnswersInv == ASSUME Inv, NEW c \in Calls, ProviderAnswers(c) PROVE Inv'
  <1>1. /\ pc[c] = "provider" /\ call[c] # None /\ Valid(call[c].observation)
        /\ UNCHANGED <<truth, health, local, redis, call, waited, asked, outcome>>
        /\ pc' = [pc EXCEPT ![c] = "store"]
    BY DEF ProviderAnswers, Goto, Inv, InHand
  <1>2. Seen(c) \in Beacons
    BY <1>1, HasKey DEF Inv
  <1>3. PICK s \in Stations :
           /\ got' = [got EXCEPT ![c] = [station |-> s, age |-> 0]]
           /\ given' = [given EXCEPT ![Seen(c)] = @ \cup {s}]
    <2>1. truth[Seen(c)] \in Responses
      BY <1>2 DEF Inv, Shapes
    <2>2. normalize(truth[Seen(c)]) \in Stations
      BY <2>1, NormalizeIsStation DEF ProviderAnswers
    <2> QED BY <2>2 DEF ProviderAnswers
  <1>4. /\ given' \in [Beacons -> SUBSET Stations]
        /\ answered' = answered \cup {Seen(c)} /\ answered' \in SUBSET Beacons
        /\ \A b \in Beacons : given[b] \subseteq given'[b]
        /\ s \in given'[Seen(c)]
    BY <1>2, <1>3 DEF ProviderAnswers, Inv, Shapes
  <1>5. /\ pc' \in [Calls -> PCs] /\ pc'[c] = "store" /\ DOMAIN got' = Calls
        /\ got'[c] = [station |-> s, age |-> 0]
        /\ \A d \in Calls \ {c} : pc'[d] = pc[d] /\ got'[d] = got[d]
    BY <1>1, <1>3 DEF Inv, Shapes, PCs
  <1>6. Shapes'
    BY <1>1, <1>4, <1>5 DEF Inv, Shapes
  <1>7. Remembered'
    BY <1>1, <1>4, KeysAreBeacons DEF Inv, Remembered
  <1>8. InHand(c)' /\ Ended(c)'
    <2>1. Seen(c)' = Seen(c)
      BY <1>1 DEF Seen
    <2>2. InHand(c)'
      <3>1. got'[c].station = s /\ 0 \in 0 .. SetDelay
        BY <1>5, ResolverAssumption
      <3>2. got'[c] \in [station : Stations, age : 0 .. SetDelay]
        BY <1>5, <3>1
      <3> QED BY <1>1, <1>4, <1>5, <2>1, <3>1, <3>2 DEF Inv, InHand
    <2>3. Ended(c)'
      BY <1>1, <1>5, ResolverAssumption DEF Inv, Ended, Endings
    <2> QED BY <2>2, <2>3
  <1>9. ASSUME NEW d \in Calls \ {c} PROVE InHand(d)' /\ Ended(d)'
    BY <1>1, <1>4, <1>5, Untouched DEF Inv
  <1>10. Kept'
    <2>1. Seen(c)' = Seen(c) /\ \A d \in Calls : pc[d] = "store" => pc'[d] = "store" /\ Seen(d)' = Seen(d)
      BY <1>1, <1>5 DEF Seen
    <2> QED BY <1>1, <1>4, <1>5, <2>1 DEF Inv, Kept
  <1> QED BY <1>6, <1>7, <1>8, <1>9, <1>10 DEF Inv

LEMMA ProviderFailsInv == ASSUME Inv, NEW c \in Calls, ProviderFails(c) PROVE Inv'
  <1>1. /\ pc[c] = "provider" /\ Goto(c, "fixture") /\ Valid(call[c].observation)
        /\ UNCHANGED <<truth, health, copies, call, got, waited, asked, outcome>>
    BY DEF ProviderFails, Inv, InHand
  <1>2. asked' \in [Calls -> 0 .. ProviderTimeout]
    BY <1>1 DEF Inv, Shapes
  <1> QED BY <1>1, <1>2, GoInv

LEMMA AnswerFixtureInv == ASSUME Inv, NEW c \in Calls, AnswerFixture(c) PROVE Inv'
  <1>1. /\ pc[c] = "fixture" /\ Valid(call[c].observation)
        /\ UNCHANGED <<truth, health, copies, call, waited, asked>>
    BY DEF AnswerFixture, Inv, InHand
  <1>2. CASE Key(c) \in DOMAIN Fixtures
    <2>1. Conclude(c, Fixtures[Key(c)])
      BY <1>2 DEF AnswerFixture
    <2>2. Fixtures[Key(c)] # None
      BY <1>2, ResolverAssumption DEF Stations
    <2> QED BY <1>1, <1>2, <2>1, <2>2, AnswerInv
  <1>3. CASE Key(c) \notin DOMAIN Fixtures
    <2>1. Conclude(c, None)
      BY <1>3 DEF AnswerFixture
    <2> QED BY <1>1, <1>3, <2>1, AnswerInv
  <1> QED BY <1>2, <1>3

(* What a call keeps or stores is the provider's word on its beacon.        *)
LEMMA KeepInv == ASSUME Inv, NEW c \in Calls, Keep(c) PROVE Inv'
  <1>1. /\ pc[c] = "keep" /\ call[c] # None /\ Valid(call[c].observation)
        /\ got[c].station \in given[Seen(c)]
        /\ UNCHANGED <<truth, health, redis, given, answered, call, waited, asked>>
        /\ local' = [local EXCEPT ![Key(c)] = got[c].station]
        /\ Conclude(c, got[c].station)
    BY DEF Keep, Inv, InHand
  <1>2. Key(c) \in Keys /\ Seen(c) \in Beacons /\ Key(c) = Seen(c)
    BY <1>1, HasKey DEF Inv
  <1>3. got[c].station \in Stations /\ got[c].station # None
    BY <1>1, <1>2, ResolverAssumption DEF Inv, Shapes
  <1>4. /\ InHand(c)' /\ Ended(c)'
        /\ pc' \in [Calls -> PCs] /\ DOMAIN got' = Calls
        /\ outcome' \in [Calls -> Endings \cup {None}]
        /\ \A d \in Calls \ {c} : pc'[d] = pc[d] /\ got'[d] = got[d] /\ outcome'[d] = outcome[d]
    BY <1>1, <1>3, Concluded DEF Inv
  <1>5. local' \in [Keys -> Stations \cup {None}]
    BY <1>1, <1>3 DEF Inv, Shapes
  <1>6. Shapes'
    BY <1>1, <1>4, <1>5 DEF Inv, Shapes
  <1>7. Remembered'
    BY <1>1, <1>2 DEF Inv, Shapes, Remembered
  <1>8. ASSUME NEW d \in Calls \ {c} PROVE InHand(d)' /\ Ended(d)'
    BY <1>1, <1>4, Untouched DEF Inv
  <1>9. Kept'
    <2>1. \A k \in Keys : local[k] # None => local'[k] # None
      BY <1>1, <1>3 DEF Inv, Shapes
    <2> QED BY <1>1, <1>4, <2>1, KeptAlone DEF Inv
  <1> QED BY <1>4, <1>6, <1>7, <1>8, <1>9 DEF Inv

LEMMA StoreLocalInv == ASSUME Inv, NEW c \in Calls, StoreLocal(c) PROVE Inv'
  <1>1. /\ pc[c] = "store" /\ call[c] # None /\ Valid(call[c].observation)
        /\ got[c].station \in given[Seen(c)]
        /\ UNCHANGED <<truth, health, redis, given, answered, call, got, waited, asked, outcome>>
        /\ local' = [local EXCEPT ![Key(c)] = got[c].station]
        /\ pc' = [pc EXCEPT ![c] = "set"]
    BY DEF StoreLocal, Goto, Inv, InHand
  <1>2. Key(c) \in Keys /\ Seen(c) \in Beacons /\ Key(c) = Seen(c)
    BY <1>1, HasKey DEF Inv
  <1>3. got[c].station \in Stations
    BY <1>1, <1>2 DEF Inv, Shapes
  <1>4. local' \in [Keys -> Stations \cup {None}]
    BY <1>1, <1>3 DEF Inv, Shapes
  <1>5. pc' \in [Calls -> PCs] /\ pc'[c] = "set" /\ \A d \in Calls \ {c} : pc'[d] = pc[d]
    BY <1>1 DEF Inv, Shapes, PCs
  <1>6. Shapes'
    BY <1>1, <1>4, <1>5 DEF Inv, Shapes
  <1>7. Remembered'
    BY <1>1, <1>2 DEF Inv, Shapes, Remembered
  <1>8. InHand(c)' /\ Ended(c)'
    <2>1. Seen(c)' = Seen(c)
      BY <1>1 DEF Seen
    <2>2. InHand(c)'
      BY <1>1, <1>5, <2>1 DEF Inv, InHand
    <2>3. Ended(c)'
      BY <1>1, <1>5, ResolverAssumption DEF Inv, Ended, Endings
    <2> QED BY <2>2, <2>3
  <1>9. ASSUME NEW d \in Calls \ {c} PROVE InHand(d)' /\ Ended(d)'
    BY <1>1, <1>5, Untouched DEF Inv
  <1>10. Kept'
    <2>1. /\ local'[Seen(c)] # None
          /\ \A k \in Keys : local[k] # None => local'[k] # None
      BY <1>1, <1>2, <1>3, ResolverAssumption DEF Inv, Shapes
    <2>2. \A d \in Calls \ {c} : pc[d] = "store" => pc'[d] = "store" /\ Seen(d)' = Seen(d)
      BY <1>1, <1>5 DEF Seen
    <2>3. ASSUME NEW b \in Beacons, b \in answered
          PROVE  local'[b] # None \/ \E d \in Calls : pc'[d] = "store" /\ Seen(d)' = b
      <3>1. CASE local[b] # None
        BY <2>1, <3>1, KeysAreBeacons
      <3>2. ASSUME NEW d \in Calls, pc[d] = "store", Seen(d) = b
            PROVE  local'[b] # None \/ \E e \in Calls : pc'[e] = "store" /\ Seen(e)' = b
        BY <2>1, <2>2, <3>2
      <3> QED BY <2>3, <3>1, <3>2 DEF Inv, Kept
    <2> QED BY <1>1, <2>3 DEF Kept
  <1> QED BY <1>6, <1>7, <1>8, <1>9, <1>10 DEF Inv

(* A copy in Redis begins its life no later than a SET takes after the      *)
(* provider has spoken.                                                     *)
LEMMA StoreRedisInv == ASSUME Inv, NEW c \in Calls, StoreRedis(c) PROVE Inv'
  <1>1. /\ pc[c] = "set" /\ call[c] # None /\ Valid(call[c].observation)
        /\ got[c].station \in given[Seen(c)] /\ got[c].age \in 0 .. SetDelay
        /\ UNCHANGED <<truth, health, local, given, answered, call, waited, asked>>
        /\ Conclude(c, got[c].station)
    BY DEF StoreRedis, Inv, InHand
  <1>2. Key(c) \in Keys /\ Seen(c) \in Beacons /\ Key(c) = Seen(c)
    BY <1>1, HasKey DEF Inv
  <1>3. got[c].station \in Stations /\ got[c].station # None
    BY <1>1, <1>2, ResolverAssumption DEF Inv, Shapes
  <1>4. CASE UNCHANGED redis
    <2>1. UNCHANGED copies
      BY <1>1, <1>4 DEF copies
    <2> QED BY <1>1, <1>3, <2>1, AnswerInv
  <1>5. CASE redis' = [redis EXCEPT ![Key(c)] =
                          [station |-> got[c].station, age |-> got[c].age, left |-> TTL]]
    <2>1. PICK r \in Copies : /\ r.station = got[c].station /\ r.age \in 0 .. SetDelay /\ r.left = TTL
                              /\ redis' = [redis EXCEPT ![Key(c)] = r]
      <3>1. TTL \in 1 .. TTL
        BY ResolverAssumption
      <3>2. [station |-> got[c].station, age |-> got[c].age, left |-> TTL] \in Copies
        BY <1>1, <1>3, <3>1, ResolverAssumption DEF Copies
      <3> QED BY <1>1, <1>5, <3>2
    <2>2. /\ InHand(c)' /\ Ended(c)'
          /\ pc' \in [Calls -> PCs] /\ DOMAIN got' = Calls
          /\ outcome' \in [Calls -> Endings \cup {None}]
          /\ \A d \in Calls \ {c} : pc'[d] = pc[d] /\ got'[d] = got[d] /\ outcome'[d] = outcome[d]
      BY <1>1, <1>3, Concluded DEF Inv
    <2>3. redis' \in [Keys -> Copies \cup {None}]
      BY <2>1 DEF Inv, Shapes
    <2>4. Shapes'
      BY <1>1, <2>2, <2>3 DEF Inv, Shapes
    <2>5. ASSUME NEW k \in Keys
          PROVE  /\ local'[k] # None => local'[k] \in given'[k]
                 /\ redis'[k] # None => /\ redis'[k].station \in given'[k]
                                        /\ redis'[k].age + redis'[k].left <= TTL + SetDelay
      <3>1. CASE k = Key(c)
        <4>1. redis'[k] = r
          BY <2>1, <3>1 DEF Inv, Shapes
        <4>2. r.age + r.left <= TTL + SetDelay
          BY <2>1, ResolverAssumption
        <4> QED BY <1>1, <1>2, <2>1, <3>1, <4>1, <4>2 DEF Inv, Remembered
      <3>2. CASE k # Key(c)
        <4>1. redis'[k] = redis[k]
          BY <2>1, <3>2 DEF Inv, Shapes
        <4> QED BY <1>1, <4>1 DEF Inv, Remembered
      <3> QED BY <3>1, <3>2
    <2>6. Remembered'
      BY <2>5 DEF Remembered
    <2>7. ASSUME NEW d \in Calls \ {c} PROVE InHand(d)' /\ Ended(d)'
      BY <1>1, <2>2, Untouched DEF Inv
    <2>8. Kept'
      BY <1>1, <2>2, KeptAlone DEF Inv
    <2> QED BY <2>2, <2>4, <2>6, <2>7, <2>8 DEF Inv
  <1> QED BY <1>4, <1>5 DEF StoreRedis

LEMMA FinishInv == ASSUME Inv, NEW c \in Calls, Finish(c) PROVE Inv'
  <1>1. /\ pc' = [pc EXCEPT ![c] = "idle"] /\ call' = [call EXCEPT ![c] = None]
        /\ got' = [got EXCEPT ![c] = None]
        /\ waited' = [waited EXCEPT ![c] = 0] /\ asked' = [asked EXCEPT ![c] = 0]
        /\ outcome' = [outcome EXCEPT ![c] = None]
        /\ pc[c] = "done" /\ UNCHANGED <<truth, health, local, redis, given, answered>>
        /\ UNCHANGED copies
    BY DEF Finish, Goto, copies
  <1>2. 0 \in 0 .. ClientTimeout /\ 0 \in 0 .. ProviderTimeout
    BY ResolverAssumption
  <1>3. Shapes'
    BY <1>1, <1>2 DEF Inv, Shapes, PCs
  <1>4. /\ pc'[c] = "idle" /\ call'[c] = None /\ outcome'[c] = None
        /\ \A d \in Calls \ {c} : /\ pc'[d] = pc[d] /\ call'[d] = call[d] /\ got'[d] = got[d]
                                  /\ waited'[d] = waited[d] /\ outcome'[d] = outcome[d]
    BY <1>1 DEF Inv, Shapes
  <1>5. InHand(c)' /\ Ended(c)'
    BY <1>4, ResolverAssumption DEF InHand, Ended, Endings
  <1>6. ASSUME NEW d \in Calls \ {c} PROVE InHand(d)' /\ Ended(d)'
    BY <1>1, <1>4, Untouched DEF Inv
  <1>7. Kept'
    BY <1>1, <1>4, KeptAlone DEF Inv
  <1> QED BY <1>1, <1>3, <1>5, <1>6, <1>7, CopiesAlone DEF Inv

LEMMA GiveUpInv == ASSUME Inv, NEW c \in Calls, GiveUp(c) PROVE Inv'
  <1>1. /\ pc[c] \notin {"idle", "done"} /\ waited[c] = ClientTimeout
        /\ outcome' = [outcome EXCEPT ![c] = "timeout"]
        /\ UNCHANGED <<truth, health, local, redis, given, answered, pc, call, got, waited, asked>>
        /\ UNCHANGED copies
    BY DEF GiveUp, copies
  <1>2. /\ outcome' \in [Calls -> Endings \cup {None}] /\ outcome'[c] = "timeout"
        /\ \A d \in Calls \ {c} : outcome'[d] = outcome[d]
    BY <1>1 DEF Inv, Shapes, Endings
  <1>3. Shapes'
    BY <1>1, <1>2 DEF Inv, Shapes
  <1>4. InHand(c)' /\ Ended(c)'
    <2>1. Seen(c)' = Seen(c)
      BY <1>1 DEF Seen
    <2>2. InHand(c)'
      BY <1>1, <2>1 DEF Inv, InHand
    <2>3. Ended(c)'
      BY <1>1, <1>2 DEF Ended
    <2> QED BY <2>2, <2>3
  <1>5. ASSUME NEW d \in Calls \ {c} PROVE InHand(d)' /\ Ended(d)'
    BY <1>1, <1>2, Untouched DEF Inv
  <1>6. Kept'
    BY <1>1, KeptAlone DEF Inv
  <1> QED BY <1>1, <1>3, <1>4, <1>5, <1>6, CopiesAlone DEF Inv

(* As a copy ages its life ends; no timer runs past its end.                *)
LEMMA TickInv == ASSUME Inv, Tick PROVE Inv'
  <1>1. UNCHANGED <<truth, health, local, given, answered, pc, call, outcome>>
    BY DEF Tick
  <1>2. waited' \in [Calls -> 0 .. ClientTimeout]
    <2>1. ASSUME NEW c \in Calls
          PROVE  (IF pc[c] = "idle" \/ Cancelled(c) THEN waited[c] ELSE waited[c] + 1)
                     \in 0 .. ClientTimeout
      <3>1. waited[c] \in 0 .. ClientTimeout
        BY DEF Inv, Shapes
      <3>2. pc[c] # "idle" => waited[c] < ClientTimeout \/ Cancelled(c)
        BY DEF Tick
      <3> QED BY <3>1, <3>2, ResolverAssumption
    <2>2. waited' = [c \in Calls |-> IF pc[c] = "idle" \/ Cancelled(c) THEN waited[c] ELSE waited[c] + 1]
      BY DEF Tick
    <2> QED BY <2>1, <2>2
  <1>3. asked' \in [Calls -> 0 .. ProviderTimeout]
    <2>1. ASSUME NEW c \in Calls
          PROVE  (IF pc[c] # "provider" \/ Cancelled(c) THEN asked[c] ELSE asked[c] + 1)
                     \in 0 .. ProviderTimeout
      <3>1. asked[c] \in 0 .. ProviderTimeout
        BY DEF Inv, Shapes
      <3>2. pc[c] = "provider" => asked[c] # ProviderTimeout
        BY DEF Tick, ProviderOver
      <3> QED BY <3>1, <3>2, ResolverAssumption
    <2>2. asked' = [c \in Calls |-> IF pc[c] # "provider" \/ Cancelled(c) THEN asked[c] ELSE asked[c] + 1]
      BY DEF Tick
    <2> QED BY <2>1, <2>2
  <1>4. ASSUME NEW k \in Keys
        PROVE  /\ redis'[k] \in Copies \cup {None}
               /\ redis'[k] # None => /\ redis'[k].station \in given[k]
                                      /\ redis'[k].age + redis'[k].left <= TTL + SetDelay
    <2>1. redis'[k] = IF redis[k] = None \/ redis[k].left = 1 THEN None
                      ELSE [station |-> redis[k].station, age |-> redis[k].age + 1,
                            left |-> redis[k].left - 1]
      BY DEF Tick
    <2>2. CASE redis[k] = None \/ redis[k].left = 1
      BY <2>1, <2>2
    <2>3. CASE ~(redis[k] = None \/ redis[k].left = 1)
      <3>1. PICK r \in Copies : r = redis[k]
        BY <2>3 DEF Inv, Shapes
      <3>2. r.left \in 1 .. TTL /\ r.left # 1 /\ r.age \in Nat /\ r.station \in Stations
        BY <2>3, <3>1 DEF Copies
      <3>4. r.left - 1 \in 1 .. TTL /\ r.age + 1 \in Nat /\ (r.age + 1) + (r.left - 1) = r.age + r.left
        BY <3>2, ResolverAssumption
      <3>5. redis'[k] = [station |-> r.station, age |-> r.age + 1, left |-> r.left - 1]
        BY <2>1, <2>3, <3>1
      <3>6. r.station \in given[k] /\ r.age + r.left <= TTL + SetDelay
        BY <2>3, <3>1 DEF Inv, Remembered
      <3>7. redis'[k] \in Copies
        BY <3>2, <3>4, <3>5 DEF Copies
      <3> QED BY <3>4, <3>5, <3>6, <3>7
    <2> QED BY <2>2, <2>3
  <1>5. redis' \in [Keys -> Copies \cup {None}]
    BY <1>4 DEF Tick
  <1>6. Shapes'
    <2>1. DOMAIN got' = Calls
      BY DEF Tick
    <2> QED BY <1>1, <1>2, <1>3, <1>5, <2>1 DEF Inv, Shapes
  <1>7. Remembered'
    BY <1>1, <1>4 DEF Inv, Remembered
  <1>8. ASSUME NEW d \in Calls PROVE InHand(d)' /\ Ended(d)'
    <2>1. waited'[d] = waited[d] \/ outcome[d] # "timeout"
      BY DEF Tick, Cancelled
    <2>2. CASE pc[d] # "set"
      <3>1. got'[d] = got[d]
        BY <2>2 DEF Tick
      <3> QED BY <1>1, <2>1, <3>1, Untouched DEF Inv
    <2>3. CASE pc[d] = "set"
      <3>1. PICK g \in [station : Stations, age : 0 .. SetDelay] : g = got[d] /\ g.age < SetDelay
        BY <2>3 DEF Tick, Inv, InHand
      <3>2. got'[d] = [g EXCEPT !.age = @ + 1]
        BY <2>3, <3>1 DEF Tick
      <3>3. g.age + 1 \in 0 .. SetDelay
        BY <3>1, ResolverAssumption
      <3>4. got'[d] \in [station : Stations, age : 0 .. SetDelay] /\ got'[d].station = got[d].station
        BY <3>1, <3>2, <3>3
      <3>5. Seen(d)' = Seen(d)
        BY <1>1 DEF Seen
      <3>6. InHand(d)'
        BY <1>1, <2>3, <3>4, <3>5 DEF Inv, InHand
      <3>7. Ended(d)'
        BY <1>1, <2>1, <2>3, ResolverAssumption DEF Inv, Shapes, Ended, Endings
      <3> QED BY <3>6, <3>7
    <2> QED BY <2>2, <2>3
  <1>9. Kept'
    BY <1>1, KeptAlone DEF Inv
  <1> QED BY <1>6, <1>7, <1>8, <1>9 DEF Inv

LEMMA ChangeInv == ASSUME Inv, Change PROVE Inv'
  <1>1. /\ UNCHANGED <<local, redis, given, answered, pc, call, got, waited, asked, outcome>>
        /\ UNCHANGED copies
    BY DEF Change, copies, calls
  <1>2. truth' \in [Beacons -> Responses] /\ health' \in {"up", "down", "silent"}
    BY DEF Change, Inv, Shapes
  <1>3. Shapes'
    BY <1>1, <1>2 DEF Inv, Shapes
  <1>4. ASSUME NEW d \in Calls PROVE InHand(d)' /\ Ended(d)'
    BY <1>1, Untouched DEF Inv
  <1>5. Kept'
    BY <1>1, KeptAlone DEF Inv
  <1> QED BY <1>1, <1>3, <1>4, <1>5, CopiesAlone DEF Inv

LEMMA RestartInv == ASSUME Inv, Restart PROVE Inv'
  <1>1. /\ local' = [k \in Keys |-> None] /\ answered' = {}
        /\ UNCHANGED <<truth, health, redis, given, call, waited, asked>>
        /\ DOMAIN got' = Calls
    BY DEF Restart
  <1>2. \A d \in Calls :
           /\ pc'[d] = IF pc[d] = "idle" THEN "idle" ELSE "done"
           /\ outcome'[d] = IF pc[d] = "idle" THEN None
                            ELSE IF pc[d] = "done" \/ Cancelled(d) THEN outcome[d] ELSE "broken"
           /\ got'[d] = IF pc[d] = "done" THEN got[d] ELSE None
    BY DEF Restart
  <1>3. pc' \in [Calls -> PCs]
    BY <1>2 DEF Restart, PCs
  <1>4. outcome' \in [Calls -> Endings \cup {None}]
    <2>1. \A d \in Calls : outcome'[d] \in Endings \cup {None}
      BY <1>2 DEF Inv, Shapes, Endings
    <2> QED BY <2>1 DEF Restart
  <1>5. Shapes'
    BY <1>1, <1>3, <1>4 DEF Inv, Shapes
  <1>6. Remembered' /\ Kept'
    BY <1>1 DEF Inv, Remembered, Kept
  <1>7. ASSUME NEW d \in Calls PROVE InHand(d)' /\ Ended(d)'
    <2>1. CASE pc[d] \in {"idle", "done"}
      <3>1. pc'[d] = pc[d] /\ outcome'[d] = outcome[d]
        BY <1>2, <2>1 DEF Inv, Ended
      <3>2. InHand(d)'
        BY <1>1, <2>1, <3>1 DEF Inv, InHand
      <3>3. Ended(d)'
        <4>1. CASE pc[d] = "done"
          <5>1. got'[d] = got[d]
            BY <1>2, <4>1
          <5> QED BY <1>1, <3>1, <5>1, Untouched DEF Inv
        <4>2. CASE pc[d] = "idle"
          BY <1>2, <3>1, <4>2, ResolverAssumption DEF Ended, Endings
        <4> QED BY <2>1, <4>1, <4>2
      <3> QED BY <3>2, <3>3
    <2>2. CASE pc[d] \notin {"idle", "done"}
      <3>1. pc'[d] = "done" /\ outcome'[d] \in {"timeout", "broken"}
            /\ (outcome'[d] = "timeout" => outcome[d] = "timeout")
        BY <1>2, <2>2 DEF Cancelled
      <3>2. InHand(d)'
        BY <1>1, <2>2, <3>1 DEF Inv, InHand
      <3>3. Ended(d)'
        BY <1>1, <3>1 DEF Inv, Ended
      <3> QED BY <3>2, <3>3
    <2> QED BY <2>1, <2>2
  <1> QED BY <1>5, <1>6, <1>7 DEF Inv

LEMMA NextInv == Inv /\ [Next]_vars => Inv'
  <1> SUFFICES ASSUME Inv, [Next]_vars PROVE Inv'
    OBVIOUS
  <1>1. ASSUME NEW c \in Calls, Step(c) \/ GiveUp(c) \/ \E r \in Requests : Enter(c, r)
        PROVE  Inv'
    <2>1. CASE ReadLocal(c)
      BY <2>1, ReadLocalInv
    <2>2. CASE ReadRedis(c)
      BY <2>2, ReadRedisInv
    <2>3. CASE Keep(c)
      BY <2>3, KeepInv
    <2>4. CASE ProviderAnswers(c)
      BY <2>4, ProviderAnswersInv
    <2>5. CASE ProviderFails(c)
      BY <2>5, ProviderFailsInv
    <2>6. CASE StoreLocal(c)
      BY <2>6, StoreLocalInv
    <2>7. CASE StoreRedis(c)
      BY <2>7, StoreRedisInv
    <2>8. CASE AnswerFixture(c)
      BY <2>8, AnswerFixtureInv
    <2>9. CASE Finish(c)
      BY <2>9, FinishInv
    <2>10. CASE GiveUp(c)
      BY <2>10, GiveUpInv
    <2>11. CASE \E r \in Requests : Enter(c, r)
      BY <2>11, EnterInv
    <2> QED BY <1>1, <2>1, <2>2, <2>3, <2>4, <2>5, <2>6, <2>7, <2>8, <2>9, <2>10, <2>11 DEF Step
  <1>2. CASE Tick
    BY <1>2, TickInv
  <1>3. CASE Change
    BY <1>3, ChangeInv
  <1>4. CASE Restart
    BY <1>4, RestartInv
  <1>5. CASE UNCHANGED vars
    <2>1. /\ UNCHANGED <<truth, health, local, redis, given, answered, pc, call, got, waited, asked, outcome>>
          /\ UNCHANGED copies
      BY <1>5 DEF vars, copies, calls
    <2>2. Shapes'
      BY <2>1 DEF Inv, Shapes
    <2>3. ASSUME NEW d \in Calls PROVE InHand(d)' /\ Ended(d)'
      BY <2>1, Untouched DEF Inv
    <2>4. Kept'
      BY <2>1, KeptAlone DEF Inv
    <2> QED BY <2>1, <2>2, <2>3, <2>4, CopiesAlone DEF Inv
  <1> QED BY <1>1, <1>2, <1>3, <1>4, <1>5 DEF Next

-----------------------------------------------------------------------------
(* The process and Redis remember of a beacon only what the provider said   *)
(* of it, Redis for no longer than the TTL and the time a SET takes:        *)
(* fixtures are never stored and a hit renews nothing (Resolver.Resolve).   *)
THEOREM CopiesAreTheProviders == Spec => []OnlyProviderRemembered
  <1>1. Inv => OnlyProviderRemembered
    <2> SUFFICES ASSUME Inv PROVE OnlyProviderRemembered
      OBVIOUS
    <2>1. TypeOK
      <3>1. /\ \A k \in Keys : local[k] \in Stations \cup {None}
            /\ \A k \in Keys : redis[k] # None => redis[k].left \in 1 .. TTL
        BY DEF Inv, Shapes, Copies
      <3>2. ASSUME NEW c \in Calls, pc[c] \in {"keep", "store", "set"}
            PROVE  got[c].station \in Stations
        <4>1. call[c] # None /\ Valid(call[c].observation) /\ got[c].station \in given[Seen(c)]
          BY <3>2 DEF Inv, InHand
        <4>2. Seen(c) \in Beacons
          BY <4>1, HasKey DEF Inv
        <4> QED BY <4>1, <4>2 DEF Inv, Shapes
      <3>3. \A c \in Calls :
              /\ pc[c] \in PCs
              /\ (pc[c] = "idle") <=> (call[c] = None)
              /\ waited[c] \in 0 .. ClientTimeout /\ asked[c] \in 0 .. ProviderTimeout
              /\ outcome[c] \in Endings \cup {None}
        BY DEF Inv, Shapes, InHand
      <3> QED BY <3>1, <3>2, <3>3 DEF TypeOK, PCs
    <2>2. ASSUME NEW o \in Sound
          PROVE  observationKey(o) \in Keys /\ observationKey(o) = Beacon(o)
      BY DEF Keys, observationKey, Beacon
    <2> QED BY <2>1, <2>2 DEF Inv, Remembered, OnlyProviderRemembered
  <1> QED BY <1>1, InitInv, NextInv, PTL DEF Spec

(* A journey that a beacon opens (resolveEntryContext) is at a station the  *)
(* provider or the fixture names for that beacon, and never against the     *)
(* station_id of the request.                                               *)
THEOREM EntryIsWhereObserved == Spec => []EntersWhereObserved
  <1>1. Inv => EntersWhereObserved
    BY DEF Inv, Ended, EntersWhereObserved
  <1> QED BY <1>1, InitInv, NextInv, PTL DEF Spec

(* Whatever the two timeouts are: what the provider has answered since the  *)
(* service started is in the process, or on the way there with a call that  *)
(* goes on when the gateway has left, and a beacon with a fixture is never  *)
(* answered as unavailable (Resolver.Resolve, store).                       *)
THEOREM OutagesAreBridged == Spec => []OutageIsBridged
  <1>1. Inv => OutageIsBridged
    <2> SUFFICES ASSUME Inv PROVE OutageIsBridged
      OBVIOUS
    <2>1. ASSUME NEW o \in Sound PROVE Beacon(o) \in Beacons /\ observationKey(o) = Beacon(o)
      BY DEF Beacons, observationKey, Beacon
    <2> QED BY <2>1 DEF Inv, Kept, Ended, OutageIsBridged
  <1> QED BY <1>1, InitInv, NextInv, PTL DEF Spec

(* What the settings decide: the gateway gives up only after Redis took the *)
(* time by which its timeout exceeds the provider's.  With equal timeouts,  *)
(* as the repository ships them, that is no time at all: a silent provider  *)
(* alone makes it give up (HTTPProvider, HTTPClient).                       *)
THEOREM RedisTakesTheDifference ==
    Spec => [](\A c \in Calls : outcome[c] = "timeout" =>
                  waited[c] - asked[c] >= ClientTimeout - ProviderTimeout)
  <1>1. ASSUME Inv, NEW c \in Calls, outcome[c] = "timeout"
        PROVE  waited[c] - asked[c] >= ClientTimeout - ProviderTimeout
    <2>1. asked[c] \in 0 .. ProviderTimeout
      BY <1>1 DEF Inv, Shapes
    <2>2. waited[c] = ClientTimeout
      BY <1>1 DEF Inv, Ended
    <2> QED BY <2>1, <2>2, ResolverAssumption
  <1>2. Inv => \A c \in Calls : outcome[c] = "timeout" =>
                   waited[c] - asked[c] >= ClientTimeout - ProviderTimeout
    BY <1>1
  <1> QED BY <1>2, InitInv, NextInv, PTL DEF Spec
=============================================================================

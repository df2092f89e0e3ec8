# A TLA+ verification of spacetime-node

spacetime-node recommends nearby offers to metro riders. A rider enters a
station, gets a ranked recommendation and a push notification, looks at, clicks
or dismisses the offers, and spends points on one; a merchant then verifies the
redemption. The services share one PostgreSQL database and talk through Kafka.

This directory models the parts of it where a test hardly reaches: transactions
that interleave at READ COMMITTED, row locks taken in different orders, at-least-once
delivery, a push that cannot be rolled back, a database commit and a Kafka
offset that fail separately, caches that nobody invalidates, timeouts that race.

Check a model with `tlc -config OneRider.cfg MCRedemption`, and the proofs with
`tlapm RedemptionProofs.tla`, and so on for the other `...Proofs` modules.

## 1. Inventory

| component | state | operations | hard behaviour | what makes it correct |
|---|---|---|---|---|
| redemption service (`internal/redemption`) | `users.point_balance`, `points_ledger`, `inventory`, `redemptions`, `outbox_events` | `Create`, `Verify`, `Get` | eleven statements in one READ COMMITTED transaction; retried requests; lost answers; last unit of stock | no lost update, no oversell, one charge and one event per redemption, one redemption per key |
| transactional outbox (`internal/platform/outbox`) | `outbox_events`, `processed_events`, the Kafka topics | `Enqueue`, `PublishPending`, `RunPublisher`, `Process` | three services publish from one table; Kafka and PostgreSQL fail separately; `SKIP LOCKED`; writes that nobody acknowledges | nothing marked that was not written, nothing sent that was not committed, order per rider, everything eventually sent |
| notification worker (`internal/notification/worker.go`, `provider.go`) | consumer offset, `processed_events`, `notification_deliveries`, what the push service holds | `RunWithProvider`, `deliver` | a push inside a transaction; duplicates in several partitions; crash between push, commit and offset | no message skipped, repeats only after a fault, tables that tell the truth |
| notification subscriptions (`internal/notification/service.go`) | `notification_subscriptions` | `Register`, `Revoke`, settings and time window | a device registers again while it is pushed to | a fresh registration is not deactivated by an old failure |
| entry consumer (`internal/recommendation/consumer.go`) | consumer offset | `RunEntryConsumer` | replays, failures that the loop passes over, no claim | one recommendation per journey, none skipped |
| recommendation engine (`recommendation.go`) | `recommendations` | `Recommend`, `GetLatest` | candidates from a vector index are filtered against current rows | an ineligible offer is never chosen; ranking is total and stable |
| journey service (`internal/journey`) | `journeys`, `processed_events`, `recommendation_dismissals` | `CreateEntryEvent`, `RecordRecommendationEvent`, `GetLatestRecommendation` | double clicks and retries at the same time | each event counts once; what is dismissed is not shown |
| preference feedback (`feedback.go`) | `user_preference_weights` | `ApplyPreferenceFeedback` | the upsert is the last lock of a redemption and the first of a feedback event | signals equal the committed events; no wait for ever |
| user service (`internal/user`) | `users`: points, preferences, notification settings | `EnsureDemoUser`, `GetUserProfile`, `UpdateUserPreferences` | provisioning on first contact, concurrently; two statements per update | one gift of points per rider; what is accepted can be used |
| preference cache (`preference.go`) | Redis copy of preferences | `PreferenceStore.Get` | a value stored while an update commits; a fallback stored while the database is away | no answer is staler than the life of a copy; the copy becomes fresh |
| embedding indexer (`indexer.go`, `qdrant_index.go`) | Qdrant points, offset | `Bootstrap`, `HandleOfferChanged` | replays over what the bootstrap wrote; events without a text or a category; rows that are gone; a rejected event | no committed event is undone; the index becomes what the table says |
| recommendation copy (`copy.go`) | none | `TemplateCopy`, `GenerateCopy`, validation | a language model that invents; texts cut in the middle of a number | a stored text tells facts only |
| mobility resolver (`internal/mobility`) | Redis copy, in-process copy | `Resolve` through HTTP | provider refuses or is silent, two equal timeouts, copies without age | an answer of the right beacon; no answer is wasted; Redis is recent |
| analytics (`internal/analytics`) | ClickHouse rows, an offset per topic | `Run`, `consumeTopic`, `Insert` | duplicates from both sides of Kafka; one error ends all topics | every event counts once |
| embedding and search clients (`embedder.go`, `qdrant.go`) | none | HTTP requests | time-outs | an error or a well-formed answer |
| service platform (`internal/platform/app`, `config`, `observability`, `cmd`) | none | start-up, health, logging | a goroutine that ends in a healthy process | (appears in the models as `Crash`, `Restart`, `Die` and `Error`) |

The components interact through rows and topics: `CreateEntryEvent` writes a
journey and `journey.entered` into the outbox; a publisher moves it to Kafka;
the entry consumer makes a recommendation and `recommendation.created`; a
publisher moves that; the notification worker pushes; analytics counts all of
them. Before an entry the gateway may ask the mobility service which station a
beacon belongs to. Feedback and redemptions change the preference weights that
the next recommendation reads, through the cache. The indexer keeps the vectors
that it searches.

`PROJECT.json` lists the hazards with the line where each bites and the
properties that would notice it going wrong.

## 2. Modules

| module | what it is |
|---|---|
| `Redemption` | `Create`, `Verify`, user provisioning and `CreateEntryEvent`, statement by statement |
| `AtomicRedemption` | the abstract service: every request alone, in one step |
| `Outbox` | producers, publishers and the Kafka log |
| `Notification` | the worker, `outbox.Process`, subscriptions and the push service |
| `EntryConsumer` | the consumer of `journey.entered` and the transaction of `Recommend` |
| `Feedback` | feedback events beside redemptions: deduplication, weights, dismissals, lock orders |
| `Analytics` | the analytics consumer over the Kafka log |
| `Pipeline` | `Outbox` composed with `Analytics` |
| `FunnelLedger` | the abstract specification of the pipeline: every committed event is counted once |
| `Recommendation` | `QueryVector`, `Recommend` and `GetLatest`, beside redemptions and changes of offers |
| `Copy` | operators of the template, the generator's answers and the validation; used by `Recommendation` |
| `Preferences` | the user service, the preference cache and the notification window |
| `Resolver` | from a beacon to a station: gateway, mobility service, Redis, provider |
| `Indexer` | the embedding indexer and Qdrant |
| `RedemptionProofs`, `PipelineProofs` (which has those of `Outbox` too), `NotificationProofs`, `RecommendationProofs` (which has those of `EntryConsumer` too), `FeedbackProofs`, `ResolverProofs`, `PreferencesProofs`, `IndexerProofs` | theorems about the modules they are named after |
| `MC...` | values of the constants and symmetries for TLC |

Definitions whose comment starts with *Fault* are alternative bodies of an
action with a plausible mistake in it (a missing lock, a missing rollback, an
off-by-one). No specification uses them; with one of them in the place of the
action, TLC refutes the property that guards against it (`PROJECT.json`,
"mutants").

### Redemption

A request handler is a process with a program counter. It takes one step per SQL
statement that another transaction can disturb; what happens after the last
lock is taken touches only rows this transaction has locked or inserted, so it
is one step (`WriteRows`), and `Commit` publishes all of it.

| action | code |
|---|---|
| `LockUser` | `SELECT ... FROM users ... FOR UPDATE`: waits, reads the balance into `seen` |
| `CheckExisting` | `existingRedemption`: same key, same request is answered; same key, other request is a conflict |
| `CheckJourney`, `CheckRedeemed`, `CheckOffer` | the journey is the rider's, the offer is new to the rider, active and in its window |
| `LockInventory` | `FOR UPDATE OF inventory`, then stock and balance are compared |
| `WriteRows`, `Collide` | the inserts and updates, or the refusal by a unique index or CHECK |
| `Commit` | everything becomes visible; the acknowledgement may be lost (`Acknowledged`) |
| `LockRedemption`, `CommitVerify` | `Verify` |
| `Abort` | connection, context or process fails before the commit: `tx.Rollback` |
| `GetUserProfile`, `CreateEntryEvent` | short transactions of the other services on the same rows, one step each; the second waits for the users row, which its foreign key shares |
| `ChangeOffer` | an offer is activated or ends (no code under `src/` does it; the checks read it) |

Data: weights are in quarters of a point (the deltas are 0.5, -0.75 and 1.5),
the verification code and the merchant are one Boolean, titles and payloads are
left out, an outbox row is counted by what it tells of.

### Outbox

`BeginProducer` takes `occurred_at` (PostgreSQL's `now()` is the start of the
transaction), `CommitProducer` makes the row visible later, so stamps and
visibility are in different orders, as in the database. `Select` is the batch
query (oldest unlocked rows, up to `Limit`), `Write` a Kafka write with its
mark, `Drop` the same write when Kafka never gets the message (the
`kafka.Writer` of `NewKafkaPublisher` leaves `RequiredAcks` at `RequireNone`, so
a nil error is no acknowledgement; `dropped` is a history of these),
`WriteFails` an error, with the message in the log or not, after which the marks
made so far are committed, `CommitBatch` the end of a batch, `Crash` a loss of
process or transaction: Kafka keeps what it has. Kafka is a single log, which is
the most favourable case for order. A message on its way to a broker counts as
in the log.

### Notification

A worker reads its partition: `Fetch` decodes, `Claim` inserts into
`processed_events` and waits for another worker's uncommitted claim of the same
event, `Send` pushes to one device and records the outcome, `CommitProcess`
writes deliveries, deactivations and events together, `Ack` commits the offset.
`Error` is the first error returned, which ends the goroutine for good; `Crash`
is a death with a restart. `Accepted` says what the push service may have after
each outcome: a timed-out push is recorded as failed and may have arrived.
`ChangeSettings` flips whether preferences and time window allow a push.

### EntryConsumer

`Fetch`, `CallGetLatest` (or `GetLatestFails`: every error counts as "none
yet"), `CallRecommend` (row and event in one transaction) or `RecommendFails`
(the loop continues without a commit, and the transaction may have been
committed), `Ack`, and `Crash`, after which the reader begins at the committed
offset. `position` is the reader's place, `committed` the group's offset. What
happens inside `Recommend` is module `Recommendation`.

### Feedback

`RecordRecommendationEvent` and `Create` of one rider, as the row locks they
hold together. An event claims its id (`Claim`), locks the preference row
(`Weights`), shares the users row through a foreign key if it inserts a row that
refers to it (`Share`) and commits. A redemption locks the users row
(`LockUser`) and then the preference row. `Detect` is PostgreSQL's deadlock
detector. `Shown` is what `GetLatestRecommendation` returns: eligible candidates
not dismissed, cut at the limit. The checks of `Create` that do not matter here
are those of module `Redemption`.

### Pipeline

`Pipeline` extends `Outbox` and instantiates `Analytics` over the same `log`: a
step of one side leaves the other alone. The consumer has a goroutine per topic
(`Fetch`, `Insert`, `Commit`); `InsertFails` may have inserted the row, `Exit` is
`Run` returning the first error while the other goroutines may have gone on,
`Crash` and `Start` are the container runtime's restart. Rows are counted by
event id (`Counted`), as the `ReplacingMergeTree` read with `FINAL` does. The
refinement mapping to `FunnelLedger` is `recorded <- Committed`, `counted <-
A!Counted`, `missing <- Missing`: the ledger counts every recorded event once
and for good, except that it writes off an event which a broker has dropped and
which the outbox has marked for good.

### Recommendation and Copy

One call of `Recommend` is `QueryVector`, `Search`, `ReadUser`, `ReadOffers`,
`Decide`, with every refusal; `Redeem` and `Deactivate` fall between any two. A
read of the offers that fails before its last row goes unnoticed (the loop is
not followed by `rows.Err()`): `Recommend` ranks the rows it has and fails at
the next statement (`"broken"`), or answers that no offer is eligible.
`Redeemable` is when `Create` succeeds, a free offer excluded, whose ledger row
a CHECK refuses. `Lower` is the trimmed lower-case form of a category: preferred
categories are compared in it, and a learned weight, which is stored under the
category as it is, is looked up under it. A search names an offer once, because
Qdrant has one point for each id. Scores are integers, in eightieths.
`Evaluate`, `Bonuses`, `SliceStable` and `ChosenIndex` are the ranking loop and
its stable sort; `BestOfferChosen` compares them with the rules stated without a
loop (`RuleScore`, `IsEligible`). The sort is stated by what it returns: at
place *k* is the element that *k* - 1 others precede, where an equal element
precedes those after it. The lists of offers (`Listed`, `GetLatest`) are the
sets of their places among the evaluations, whose order they have. In `Copy` a
text is its length and the number in it with its place, which is what
truncation, `factToken` and `numericTokens` distinguish. A number has at most 19
digits and no leading zeros; `Prefix` are its first digits, `DigitsContain` is
`strings.Contains`, by which the cost is looked for, so that a cost of 2 is
found in 25. The generator may fail or return a text that is right or wrong in
one respect.

### Preferences

`Get` is `ReadCache`, then `ReloadWeights` and `ReturnHit`, or `ReadRow`,
`LoadPreferenceWeights` and `Store`; each statement may fail. `Receive`,
`EnsureDemoUser` and `UpdateRow` are the user service; `Tick` is time, which
takes the Redis copy away. `held` is a ghost: how long ago PostgreSQL last gave
a value. The window of `WithinNotificationWindow` is arithmetic on the minutes of
a short day, compared in `SwitchedOnIsReachable` with arithmetic modulo the day.

### Resolver

A call goes through `ReadLocal`, `ReadRedis`, `Keep`, the provider
(`ProviderAnswers`, `ProviderFails`), `StoreLocal` and `StoreRedis`, and
`AnswerFixture`; `Conclude` is what the gateway makes of the answer and of a
`station_id` in the same request. `asked` and `waited` are the two timers;
`GiveUp` cancels the context of the call, which goes on in the mobility service.
A SET takes up to `SetDelay` ticks, since it runs under `context.Background()`;
`got` keeps how long ago the provider named the station. `answered` is a ghost:
the beacons the provider has answered for since the service started. `Change`
moves a beacon or makes the provider refuse or fall silent; `Restart` loses the
in-process copies.

### Indexer

A start ensures the collection (`Ensure`), selects the active rows
(`SelectActive`) and writes them (`Reindex`); then `Fetch`, `LoadOffer` for an
event without a text, `Handle`, `Commit`. `Die` is any fatal error or crash,
`HandleUnanswered` a write that arrived while its answer was lost. The version
of an offer stands for its title, description and station; whether a document
has the category too is a field of its own. An event is *full*, *bare* (it lacks
only the category, and is indexed as it is) or *thin* (it lacks another text, and
is completed from the row; if the row is gone, `sql.ErrNoRows` ends the process).
Who changes offers is outside the repository: the model commits a row with the
next version, or removes it, and publishes the changes in that order, at least
once.

## 3. Runs

| run | instance | checks |
|---|---|---|
| `one_rider` | 1 rider, 2 journeys, 2 offers of one unit, 2 keys, 2 handlers | `KnowledgeIsStable`, `LedgerChain`, `PaidOnce`, `EventsMatchRows`, `ConstraintsNeverFire`, `SameAnswerPerKey`, `RetryIsAnswered` |
| `two_riders` | 2 riders, 2 journeys, 1 offer of one unit, 2 handlers, with fairness | `TypeOK`, `StockConserved`, `SignalsMatchRows`, `Serializable`, `RequestEnds` |
| `pipeline` | 2 events of a topic, one that analytics rejects, a second topic, 2 publishers, batches of 2, 2 faults on each side of Kafka, with fairness | `MarkedOnlyIfSent`, `DuplicatesNeedFaults`, `RowsPaidFor`, `EventuallyPublished`, `CountsOnce` |
| `key_order` | 2 events, 2 publishers, no fault | `CausalOrder` is violated |
| `replays` | 2 workers, 1 device, a valid and an undecodable event, 2 messages per partition, 1 crash, 1 error, with fairness | `OffsetsCovered`, `RepeatsNeedFaults`, `RowsBackedByPushes`, `EveryEventProcessed` |
| `two_consumers` | 2 consumers, 2 messages each, 1 crash, 2 failures, 1 failed read | `SkipsNeedFailures`, `RepeatsBounded` |
| `skipped_entry` | 1 consumer, 1 failure of `Recommend` | `OffsetsHandled` is violated |
| `signals` | 2 candidates of two categories, one near the bound of its weight, 2 handlers, with fairness | `SignalsCounted`, `DismissedNotShown`, `DeadlocksAreMixed`, `RequestEnds` |
| `ranking` | 2 offers of 9 kinds, one free, 2 preferences, 3 categories, 2 vector scores, every answer of the search, 2 redemptions or changes | `BestOfferChosen`, `RecommendedIsRedeemable`, `ReadBackAgrees`, `CopyTellsFacts` |
| `caching` | 2 calls of `Get`, 1 update of 13 kinds, 1 change of weights, 1 failure, with fairness | `StaleOnlyForTTL`, `SwitchedOnIsReachable`, `EventuallyFresh` |
| `beacons` | 2 calls, 2 beacons, one with a fixture, 3 answers of the provider, equal timeouts, 1 change, 1 fault, with fairness | `OnlyProviderRemembered`, `EntersWhereObserved`, `OutageIsBridged`, `RequestsEnd` |
| `index` | 2 offers, 2 changes or removals, events of 3 forms, 1 repeated and 1 rejected event, 2 faults, with fairness | `CommittedIsIndexed`, `IndexCatchesUp` |

Where no run lists `TypeOK`, the first property of the run includes it; those of
`Redemption` and `Outbox` are theorems of their own.

**Bounds.** Two handlers, publishers or workers suffice for every pairwise
interference. In `Redemption` there is an id for each handler and for each unit
of stock, so nothing is prevented by want of one; the points of `one_rider`
suffice for either offer but not for both, so that `insufficient_points` occurs
beside the other refusals; those of `two_riders` suffice for what there is.
`MaxFaults`, `MaxCrashes`, `MaxErrors`, `MaxFailures` and `MaxReadErrors` bound
how often something fails, and the properties that count repeats do so against
the number of failures, so they would show a repeat that no failure explains.
`MaxLog` bounds a partition: two messages hold a duplicate or an undecodable
neighbour. `ShowLimit` is smaller than the number of candidates, so the list is
cut. In `signals` one category starts a click and two redemptions from earlier,
so that the next signals meet the limit of its weight. In `pipeline` two faults
on each side let an event be repeated before and after Kafka, or be lost by a
broker after it was written once. In `caching` a life of two ticks and calls of
up to one let a copy outlive an update and a slow call store after it; a day of
four minutes holds windows within it, across midnight and of no length. In
`beacons` the two timeouts are equal, as every configuration of the repository
has them, a SET takes up to as long, and Redis outlives neither by much. In
`index` two changes to one offer give an older event to replay, or a thin event
whose row is gone. The rows of `ranking` cover every rejection and every bonus
alone, a free offer, titles and descriptions that are empty or cut in a number,
and a cost that is a digit of the title's number; the balance suffices for all
but the dearest, and for the free one alone after a redemption. Two candidates give every
pair that the sort compares; `SortSorts` is about any number. The candidates of `signals` have titles; the theorems about
`Feedback` are not restricted to that.

**Deadlock.** `one_rider`, `two_riders`, `signals`, `caching` and `beacons` are
checked for deadlock: a handler can always begin or abort, and time passes. The
other models may come to rest, when every event is published and every message
handled, and say `CHECK_DEADLOCK FALSE`.

**Fairness.** `two_riders` and `signals`: strong fairness of each handler's
step, because PostgreSQL grants a row lock in the order of the waiters, so a
waiter whose lock is free again and again gets it; no fairness of `Abort`; weak
fairness of `Detect`, which PostgreSQL runs for a wait longer than
`deadlock_timeout`. `pipeline`: weak fairness of each publisher, whose ticker
calls `PublishPending` again whatever it returned, of each of the consumer's
goroutines, of its exit after an error and of its restart (`restart:
unless-stopped` in deploy/compose/compose.yaml); producers need not go on. `replays`: weak
fairness of a worker's loop. `caching`: time passes, and a call of `Get`
that has begun goes on, because every statement returns or fails within its
context. `beacons`: the same, and the two timers fire. `index`: the process is
restarted and goes on, and the administration publishes what it has changed.
Nowhere is a failure, a rider or a caller assumed to come.

**What they found.** Two disagreements between the code and what the repository
says about it have a run of their own:

1. `key_order`: with more than one publisher `SKIP LOCKED` lets a rider's later
   event overtake an earlier one; docs/architecture.md promises the order within
   a partition. (`OrderWithOnePublisher` proves it for a single publisher.)
2. `skipped_entry`: an entry whose recommendation fails is passed over by the
   next message's commit; docs/delivery.md says offsets are committed after
   successful handling. (`SkipsNeedFailures` says what holds instead.)

Others came up in modelling; the models have the behaviour, and the properties
say what holds instead:

- The schema allows an offer with `points_cost = 0`, but its ledger entry has
  `delta = 0`, which a CHECK refuses: `Create` fails with an internal error
  after all its checks. (`ChecksSuffice` proves that nothing else is refused.)
  `Recommend` lists such an offer, so a rider may be recommended what nobody can
  redeem: the exception of `RecommendedIsRedeemable`.
- .github/ARCHITECTURE.md says "a Kafka publisher marks it sent only after Kafka
  accepts it", and docs/architecture.md 8.1 that an event stays in the database
  while Kafka is away. `NewKafkaPublisher` (outbox.go:49) leaves `RequiredAcks` at
  `RequireNone`: nobody waits for Kafka, and a message that a stopping broker
  loses is marked all the same (`Drop`). `MarkedOnlyIfSent`, `CausalOrder` and
  `CountsOnce` hold but for such events.
- The first transient error ends the goroutine of the notification worker while
  its process stays healthy; docs/architecture.md says such errors are retried
  with backoff. `EveryEventProcessed` holds up to such a worker (`stopped`).
- `offer.changed` events that `HandleOfferChanged` rejects end the indexer again
  at every restart; docs/architecture.md sends them to a dead-letter topic.
  `IndexCatchesUp` holds up to the first of them. The same goes for an UPSERT
  without a text whose row is gone (indexer.go:208).
- api/events/v1/README.md says of the four optional texts of `offer.changed` that
  "when omitted, the indexer loads the current offer"; indexer.go:173 does not
  look at the category, so an event that lacks only that is indexed with an empty
  one until a restart or a later event (the exceptions of `VersionTellsText` and
  `IndexCatchesUp`).
- `TemplateCopy` can fail its own validation, when the cut falls inside a number
  of the discount or the station's name has one; then no recommendation is made
  (`Refuse("copy")`), although docs/architecture.md 9 has the template as the
  text that is always usable.
- `ValidateCopyOutput` looks for the cost with `strings.Contains`, so a generated
  copy that never states a cost of 2 passes if the offer's title has a 25
  (copy.go:115); `CopyTellsFacts` says what is left.
- A learned weight is stored under the category as the offer has it (feedback.go:38)
  and looked up under its lower-case form (recommendation.go:347): the weight of a
  category written with capitals is never used.
- `Recommend` does not look at `rows.Err()` (recommendation.go:299), so a
  connection lost in the middle of the offers may be answered as "no eligible
  offer" (`BestOfferChosen` speaks of the rows it read).
- An update with an empty list is marshalled to `null`, which a CHECK of the
  column refuses: it fails after it was validated (`UpdateRow`).
- A failed read of PostgreSQL stores the fallback under the rider's key, so the
  saved preferences are hidden for the life of a copy (`StaleOnlyForTTL` counts
  from that failure).
- docs/architecture.md 4 (133, 156) has a cache or a fixture bridge a provider
  that times out. The gateway's and the provider's timeouts are both 800 ms in
  every configuration (runtime.go:90 and 92, compose.yaml:45 and 76,
  .env.example), so the gateway may give up on a silent provider before the
  fixture is reached. `OutageIsBridged` says what holds at any timeouts: no
  beacon with a fixture is answered as unavailable, and what the provider did
  answer serves the next try.
- The SET of a Redis copy runs without a deadline, and the life of the copy begins
  when it is done: the station may be older than 15 minutes by that time
  (`OnlyProviderRemembered`).
- The in-process copy of a beacon has no age: a beacon that is moved is
  answered with its old station until the mobility service restarts.

Two weaker promises are stated as what the code does keep. A crash between a push and
the commit of its transaction repeats the push, once for each fault
(`RepeatsNeedFaults`). An entry event that two consumers hold at once, or whose
lookup fails, makes a further recommendation, once for each (`RepeatsBounded`).

## 4. Proofs

All theorems hold for every value of the constants that satisfies the `ASSUME`
of the module: any number of riders, handlers, messages, offers, any limits,
timeouts and bounds on faults. The assumptions are of these kinds: functions of
the right type and natural bounds; finiteness of a set that is counted (ids,
consumers, topics, offers: each is a table's or a group's content); a `None`
outside the sets it stands beside; in `Notification`, that subscriptions have
different creation times, which is the order the worker reads them in; in
`Feedback`, that a recommendation has an eligible candidate (`Recommend` stores
no other) and that the rows of earlier journeys were made by the same upsert
(`SumsSignals`: the weight is the sum of its signals until it can have met a
bound). Every run evaluates the assumptions on its instance.

No property below is inductive as it stands. Each proof module has an invariant
that is, made of named parts, with a lemma for every action and the facts about
the model's operators that several of them need.

**Redemption.** The invariant is

    Inv == TypeOK /\ KnowledgeIsStable

Type correctness alone is not inductive: that a balance or a stock stays a
natural number depends on a comparison several statements before the write.
`KnowledgeIsStable` says, for each program counter, which locks the handler has
and what it has found out under them (the balance it read is still the balance,
its key and offer are still free, there is stock, the id is its own alone); it
follows that the comparison is still true at `Commit`. The proof has a lemma per
action. Most actions leave the tables alone and are instances of `QuietInv`; the
interesting ones are `Commit` and `CommitVerify`, where what the *others* know
must survive, because they hold other locks.

- `TypeCorrect`: `Spec => []TypeOK`.
- `Stability`: `Spec => []KnowledgeIsStable`.
- `Serializability`: `Spec => Serializable`, the refinement to
  `AtomicRedemption`. The mapping is the identity on the tables; `Commit`
  is `Redeem`, `CommitVerify` is `Consume`, everything else but the two short
  transactions is a stutter. `KnowledgeIsStable` supplies the guards of `Redeem`, which
  the code has checked earlier. (`prefs` is not a variable of the abstract
  service.)
- `LedgerAddsUp`: `Spec => []LedgerChain`. Proved on the atomic steps, not on
  the statements, and carried over by the refinement of each step.
- `ChargedOnce`, `ToldOnce`, `NothingOversold`: `Spec => []PaidOnce`,
  `[]EventsMatchRows`, `[]StockConserved`, the same way, from `Books`: the three
  of them, that a key of a rider has one redemption, and that only registered
  riders have redemptions. A new redemption takes an id that no ledger entry and
  no event names.
- `NoSignalLost`: `Spec => []SignalsMatchRows`: the upsert of a weight is under
  the lock of the users row, so no increment is lost.
- `OneKeyOneAnswer`: `Spec => []SameAnswerPerKey`. A successful answer names a
  redemption that matches its request, rows are never taken back, and a key has
  one row. `RetriesAreAnswered`: `Spec => RetryIsAnswered`, an action property:
  every refusal of `Create` after its lookup is at a place where the key is
  known to be free, and the lookup itself refuses only another request.
- `ChecksSuffice`: if every offer costs something, `Spec =>
  []ConstraintsNeverFire`; a free offer shows that the premise is needed.

**Outbox** (in `PipelineProofs`). `Inv == TypeOK /\ BatchesHold /\
MarkedOnlyIfSent`: that a marked row was sent, or lost by a broker, needs that
the marks of an open batch were written and that nobody else holds its rows.

- `TypeCorrect`, `BatchesAreHeld` (`Spec => []BatchesHold`) and
  `NothingLostOrInvented` (`Spec => []MarkedOnlyIfSent`), for any number of
  events, publishers and faults.
- `RepeatsArePaidFor`: `Spec => []DuplicatesNeedFaults`. The property says
  nothing of an event that is in Kafka and not marked, which the next batch
  writes again. `CopiesPaid` allows the copy beyond the faults only to an event
  that is published or marked by an open batch.
- `OrderWithOnePublisher`: with one publisher, `Spec => []CausalOrder`, which
  leaves out only events that were lost on the way. The
  invariant is strengthened by `InOrder`: stamps grow along the causal past,
  only rows of the batch are locked, and the past of an event in the batch is in
  the log, lost, or in the same batch, where its earlier stamp puts it ahead. The
  step that needs one publisher is `Select`: no row is locked, so none is
  skipped.

**Pipeline.** `PipelineInv` adds to the invariant of the outbox where the
goroutines stand and what they hold.

- `OutboxInPipeline`: the guarantees of the outbox hold in the composition.
- `RepeatedRowsArePaidFor`: `PipelineSpec => []RowsPaidFor`. One error stops all
  goroutines, and any of them may leave a row inserted and not committed, so a
  single stop pays once *for each topic*. The invariant (`RowsSettled`) counts
  rows against the committed offset, holds a row of a goroutine before its
  commit or after its failure unsettled, and does not spend the stop of a
  process that has failed and not yet ended.
- `PipelineImplementsLedger`: `PipelineSpec => Ledger!Spec`: the safety part of
  `CountsOnce`. A commit of a producer is `Record`, an insertion of an event
  that was not counted is `Count`, a lost write is `Drop`, the end of a batch
  that makes it final is `Forget`, and every repetition is a stutter.

**Notification.** The invariant says what an open transaction may hold: its
event is unclaimed, no other transaction has it, and each outcome it has
recorded is of a push that was made; a message at `ack` is dealt with.

- `NoMessageSkipped`: `Spec => []OffsetsCovered`. `RowsTellOfPushes`: `Spec =>
  []RowsBackedByPushes`.
- `RepeatedPushesArePaidFor`: `Spec => []RepeatsNeedFaults`. Without a fault
  the first push is still known, to the transaction that made it or by the
  claim it committed; the invariant counts the pushes nobody knows of any more,
  one for each crash or error.

**Recommendation.** The properties are about recommendations that are stored;
the invariant adds what `Recommend` has in hand before. `Snapshot` says that
what it has read is what the tables hold, as long as nothing was redeemed or
changed since its transaction began, and that nothing redeemed before is among
the offers found; `Answered` that a call which has not ended has no outcome.
`Tables` and `Locals` are the types. Only `Decide` stores, so the rest of the
argument is about one row (`RowBest`, `RowRedeemable`, `RowReadBack`,
`RowTellsFacts`).

- `SortSorts`: what `SliceStable` returns has every evaluation, and none before
  a better one. The elements ahead of one are a proper part of those ahead of
  any later one, so the places differ, and *n* different places below *n* are
  all taken. No induction over the sequence is needed.
- `BestIsChosen`: `Spec => []BestOfferChosen`. The first eligible evaluation is
  that of an eligible candidate (`EvaluateRule`: the loop's rejections and
  bonuses are `IsEligible` and `RuleScore`), and any other eligible candidate
  comes later in the sort; a tie is decided by the id because the answer of the
  search names each offer once.
- `OffersCanBeRedeemed`: `Spec => []RecommendedIsRedeemable`, from `Snapshot`. The
  rejections of `Recommend` are the refusals of `Create`; what is left over is an
  offer with no cost.
- `ReadBackIsSame`: `Spec => []ReadBackAgrees`. No list is cut, since the search
  answers at most `CandidateLimit` candidates (`NothingCut`), and the chosen
  offer has a title, or `ValidateCopyFacts` would have refused its copy.
- `CopyTellsOnlyFacts`: `Spec => []CopyTellsFacts`, for texts of any length and
  numbers. Whatever is stored has passed `ValidateCopyOutput`; that the template
  states the cost, and that only the texts of `NoTemplate` make it fail, is
  arithmetic on its cuts (at most 20 + 1 + 80 + 4 + 19 of 140 runes are before
  the end of the cost). `FactsKept` carries the facts of the last refusal through
  later steps.
- `TemplateFailsByNumbers`: with valid facts the template is refused only for a
  number, one of the station's name or part of one that a cut has left; its
  cuts never lose a fact that the validation looks for. (`UncutIsUsable`:
  offers with short texts are never refused where the station's name has no
  number.)

**EntryConsumer** (in `RecommendationProofs`). Its specification is `EntrySpec`,
beside the `Spec` of the service it calls.

- `OnlyFailuresSkip`: `EntrySpec => []SkipsNeedFailures`. Messages are passed over
  while the reader moves, long before a commit passes them; the invariant counts
  them below the reader's position.
- `FewRecommendations`: `EntrySpec => []RepeatsBounded`. The invariant also counts
  what the consumers that have looked, and found none, are about to store.

**Feedback.** `Inv == Order /\ Claims /\ Counted`: which handler has which locks
at which statement; that no other handler has its event or its redemption, which
is not yet committed; the counts.

- `FeedbackCountedOnce`: `Spec => []SignalsCounted`, with the arithmetic of the
  clamped weights (the sum of the signals holds until the number of signals
  suffices to have met a bound). `DismissedStaysAway`: `Spec =>
  []DismissedNotShown`. `OnlyMixedDeadlocks`: `Spec => []DeadlocksAreMixed`.

**Resolver.** `CopiesAreTheProviders`, `EntryIsWhereObserved`,
`OutagesAreBridged`: `Spec => []OnlyProviderRemembered`,
`[]EntersWhereObserved`, `[]OutageIsBridged`, for any timeouts and any
`SetDelay`. `RedisTakesTheDifference` adds that a gateway which waits longer
than the provider's timeout gives up before an answer only if Redis took the
difference. The invariant adds to the copies what each call has in hand on its
way to them (`InHand`), and what its answer at the gateway rests on (`Ended`),
which the call in the mobility service may outlive.

**Preferences.** `StaleForTTLOnly`: `Spec => []StaleOnlyForTTL`, from the age of
what a call holds (at most the time the call has taken) and of the copy (the
time of the call that stored it, and the part of its life that is over).
`WindowOpens`: `Spec => []SwitchedOnIsReachable`; `RoundTheClock` is the
arithmetic of the day.

**Indexer.** `CommittedEventsAreIndexed`: `Spec => []CommittedIsIndexed`. The
argument is about order: the log tells the versions of an offer in order, none
ahead of the row, and one as new as the row says what the row says (`Ordered`).
So the rows a start writes over the index are at least as new as any committed
event and newer than any committed DELETE, and so is an event read again. That a
document without a category goes back to an event without one (`Honest`) is kept
because the log only grows. The restriction to a reading process, which the
property once had, turned out to be unnecessary.

**Model-checked only.** Every invariant of a passing run is proved. What is not:

- The liveness properties (`RequestEnds`, `EventuallyPublished`,
  `EveryEventProcessed`, `EventuallyFresh`, `RequestsEnd`, `IndexCatchesUp` and
  the fairness of `CountsOnce`): they need fairness and `ENABLED`, which are out
  of the prover's reach.
- The two violations.

## 5. Not modelled

- Encodings: JSON and protobuf payloads, Web Push encryption, the wording of
  recommendations. An event is its kind and what it is about; an event that
  cannot be decoded is one of a set.
- Embeddings and vector search: their answer is any answer of the right form.
- A beacon's position in the station and the confidence of an answer; the
  fields of a row in ClickHouse; the demonstration data.
- Start-up, configuration, CORS, tracing, generated API code.
- Isolation below PostgreSQL's own guarantees, and Kafka's replication: both
  are taken to keep what they have. (What Kafka never got is `Drop`.)
- A vector search that names one offer twice, and numbers with leading zeros or
  more than 19 digits.

## 6. Plan

What is left, in this order:

1. In `Notification`: versions of a subscription's keys, to state when a fresh
   registration survives an old 410.
2. `Pipeline` with `EntryConsumer` and `Notification` as further consumers.

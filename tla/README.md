# Formal models of LOJINEXT v2

LOJINEXT v2 is a back office for a haulage company: Python 3.12 services (FastAPI, SQLAlchemy,
PostgreSQL) that exchange events through Kafka and calls through HTTP. This directory holds TLA+
models of the parts whose correctness depends on interleavings, crashes, timeouts and retries,
configurations that check them with TLC, and proofs that TLAPS checks.

Paths are relative to the repository. `trip_service/` stands for `services/trip-service/src/trip_service/`,
`platform_common/` for `packages/platform-common/src/platform_common/`, and so on.

## How to run

    tlc -workers 2 -config TripBooking.cfg MCTripBooking
    tlapm OutboxRelayProofs.tla

Each `.cfg` belongs to the `MC` module of its component; its first line says what it asks. The
eight `...Proofs` modules are checked one by one. `PROJECT.json` lists the runs, the mutants (a
plausible bug for every property, which TLC must find), the map from definitions to source lines,
the theorems, the finding and the hazards.

## Inventory

| Component | State | Operations | What is hard |
|---|---|---|---|
| Outbox relay (`platform_common/outbox_relay.py`, used by six services) | the outbox table: status, claim token, lease, attempt count, next attempt | claim, publish, finalise, dead-letter | two relays, leases that end, crash after publish, late delivery reports, order within a partition |
| Kafka consumer base (`platform_common/consumer.py`) | position, committed offset | poll, process, commit | exceptions, rebalances, lost commits |
| Identity (`identity_service/`, `auth_service/`) | profiles, credentials, outbox | registration, its event, its consumer, administration | duplicates, unique names, skipped events |
| Circuit breaker (`platform_common/circuit_breaker.py`) | state, two counters, a lock; a copy in Redis | call, success, failure | a lock taken twice |
| Service clients (`fleet_service/clients/`) and platform auth (`platform_auth/service_tokens.py`) | a breaker per client, one cache of service tokens with a lock | call, mint, probe of readiness | late answers, many tasks renewing at once, outages of the identity service |
| Trip booking (`trip_service/service.py`, `routers/trips.py`) | trips with versions, audit rows; row and advisory locks | create, import, empty return, approve, reject, cancel, edit, hard delete | overlap checks, If-Match, lock order, unlocked reads |
| Trip enrichment (`trip_service/workers/enrichment_worker.py`) | the trip and its enrichment row with claim, attempts, retry time | claim, resolve, save; approve, edit, retry endpoint | partial updates of unlocked reads, leases, outages |
| Trip idempotency (`trip_service/trip_helpers.py`, `routers/trips.py`) | one record per key, unique columns of trips | claim of a key, replay, storing, clean-up | repetitions of a request that is running, late or dead |
| Telegram bot (`telegram_service/handlers/`) | state and data of each chat, in Redis | photo, correction, confirmation, statement | handlers that overtake each other, timeouts, restarts |
| Location processing (`location_service/processing/`) | runs with claims, route pairs with drafts and pointers | queue, claim, process, approve, discard, bulk refresh | late workers, stale approvals, forced failures, stuck runs |
| Location points and pairs (`location_service/routers/`) | points, pairs, versions | create, deactivate, approve, delete; resolve, trip context | checks before writes, reads statement by statement |
| Driver lifecycle (`driver_service/routers/`) | drivers, audit, events | create, patch, (in)activate, delete, merge, hard delete | unlocked reads, two schemas, tombstones |
| Driver import (`driver_service/workers/import_worker.py`) | jobs and their rows | claim, process rows, mark | a crash leaves RUNNING; one bad row poisons the session |
| Fleet (`fleet_service/services/`) | vehicles, trailers, spec versions, events, idempotency records | create, edit, lifecycle, spec versions, hard delete in stages | references counted in other services between two transactions |
| Auth tokens (`auth_service/token_service.py`, `platform_auth/key_provider.py`) | refresh token families, signing keys, key caches of verifiers | issue, rotate, reuse detection, logout, purge | unlocked rotation, first key |
| Trip saga, driver commands | step and status | start, compensate, complete | nothing starts a saga in this commit |
| Driver statement, HTTP, tracing, deployment | none of their own | reports, headers | nothing |

Interactions: every service writes business rows and outbox rows in one transaction; the relay
publishes the latter; consumers derived from `KafkaConsumerBase` receive them. The trip service
asks the fleet, driver and location services over HTTP, through breakers and retries, before a
transaction writes; the enrichment worker asks the location service between two transactions.
Before a hard delete the driver and fleet services ask the trip service whether a row is in use.
The bot sends slips to the trip service; every service verifies the tokens of the auth service.

What makes each component correct: the relay loses no event, leaves finished rows alone and keeps partition
order; the consumer commits only what it handled; the breakers count right and heal, and one token serves
all tasks; no driver or vehicle is booked twice, no update is lost; every enrichment row is worked off by
one worker at a time; a repeated request has one effect and a driver is told the truth about his slip; a
pair's pointers name versions that belong to it and live pairs stand on active points; a lookup finds one
driver; an import reports what it did; the events of an asset tell its life and end with its tombstone; a
refresh token has one heir and a token handed out can be verified.

## The modules

    OutboxDelivery     <- OutboxRelay (implements)   <- MCOutboxRelay, OutboxRelayProofs
    KafkaConsumer      <- IdentityRegistration       <- MCIdentityRegistration, IdentityProofs
    AuthTokens         <- MCAuthTokens, IdentityProofs
    CircuitBreaker     <- MCCircuitBreaker
    ServiceCalls       <- MCServiceCalls, FleetProofs
    FleetAssets        <- MCFleetAssets, FleetProofs
    TripEnrichment     <- MCTripEnrichment, TripRouteProofs
    LocationNetwork    <- MCLocationNetwork, TripRouteProofs
    TripBooking        <- MCTripBooking, TripBookingProofs
    TripIntake         <- SlipConversation           <- MCSlipConversation, SlipConversationProofs
    LocationProcessing <- MCLocationProcessing, LocationProcessingProofs
    Drivers            <- DriverImport               <- MCDriverImport, DriverProofs

A module of proofs may extend two models that have to do with each other. That is why the
specifications of `ServiceCalls`, `AuthTokens` and `LocationNetwork` are called `CallsSpec`,
`AuthSpec` and `NetworkSpec`, and their parts likewise.

`IdentityRegistration` composes the auth service, the partition and the consumers of the identity
service; `SlipConversation` the bot with the trip service; `DriverImport` the worker with the
requests of the driver service; `FleetAssets` the fleet service with the trips that use assets;
`ServiceCalls` breakers and token cache; `AuthTokens` the auth service with the caches of those who
verify; `LocationNetwork` the location service with the two ways the trip service asks it.

### OutboxRelay

`Claim` is `_claim_batch`, one transaction: candidates by status, retry time and lease, blocked by
an earlier row of the partition that is PENDING, PUBLISHING or FAILED (`HolStatuses`), the oldest
`BatchSize` of them. `Fetch`, `PublishOk`, `PublishError`, `Refetch`, `MarkPublished` and
`MarkFailed` are the awaits of one `_publish_single` task, `Running` the semaphore. `TaskFault` is
an exception that `_safe_publish` swallows, `Crash` a dead process, `LateDelivery` the producer
getting a message through after the five-second wait was given up.

The claim's UPDATE names the primary key of the alias `m1` instead of the updated table
(`outbox_relay.py:175-186`). The statement therefore joins the table with the alias and, once one id
matches, stamps every row: `Claim` writes all that is `Committed`, while the worker goes on with the
ids it has selected.

`Enqueue` stands for any producer's commit, and rows of a partition commit in any order. Time stamps
are taken before the commit, and not every producer holds a lock in between: `public.py:130` and
`lifecycle.py:118` of the driver service load the row unlocked. Nor does every row have a partition
key: those of a hard delete or an import of drivers (`maintenance.py:82`, `import_worker.py:189`) have
none, here `NoPartition`, and the relay does not order them.

Time is relative: leases and retry delays are ticks that are left, and `Tick` counts them down. A
publish waits 5 s at most and the lease is 60 s, but nothing makes a task end before its lease: a tick
under a task that is about to lose its lease is one of the bounded faults, and `overrun` remembers the
row. A claim token is the worker whose current batch it names.

`OutboxDelivery` is what consumers can rely on: an event is delivered for the first time, or given up,
only when everything that stood before it when it was committed is delivered or given up.
`DeliversInOrder` is the refinement; `ahead` is the history it needs.

### KafkaConsumer and IdentityRegistration

One partition, one group. `Poll`, `Process` and `Commit` are the turns of `_consume_loop`;
`ProcessError` is its `except` branch; `CommitLost`, `Rebalance` and `Crash` come from the outside.
A message that is no JSON is logged and committed. The broker refuses the commit of an instance
that has lost the partition.

`IdentityRegistration` is that consumer with the `process()` of `registration_consumer.py` in it:
`LookUp` finds or does not find the profile, `Create` inserts it or meets a profile, a name or a mail
that is taken, `DatabaseError` is any other error. In front of it stand `register_user` with its outbox
row and a relay that may publish a row twice; beside it administrators who create users after checking
name and mail. `wrapped` says whether the payload carries the event type that `process()` looks for.
The relays publish the payload alone (`registration_consumer.py:38` says otherwise), so
`wrapped = FALSE` is this commit: every registration is skipped and none creates a profile, which is how
TLC refutes `SyncedProfiles`. The properties that remain are about offsets and repetitions, and hold for either
value; nothing is claimed of profiles.

### CircuitBreaker and ServiceCalls

`CircuitBreaker` is the breaker of platform_common in one process with several asyncio tasks, split
at its awaits. `_record_failure` and `_record_success` hold `self._lock` when they call
`_set_state`, which acquires it again; `asyncio.Lock` is not re-entrant. `Reentrant = FALSE` is the
program. The Redis copy of the state is written by a call that never returns, and is not modelled.
The enrichment worker goes through this breaker, hence `Hang` in `TripEnrichment`.

`ServiceCalls` is what the fleet service uses instead: breakers of its own in `driver_client.py` and
`trip_client.py`, whose lock is never waited for, and the `ServiceTokenCache` they share with the
readiness probe. A task is interrupted while it queues for the cache's lock (a FIFO queue), while it
mints and while it calls. Services fail and come back at any time. An expired token is handed out
when a renewal fails, so an outage of the identity service can open a breaker; the back-off is
looked at before the lock only, so tasks that queue already each retry.

### TripEnrichment

The two rows that workers, administrators and the retry endpoint write. `Claim` to `EndOfBatch` are
the steps of `_claim_and_process_batch`. `Resolve` and `FetchContext` are the two calls of the
location service, outside any transaction. The first turns every exception into FAILED; the second goes
through the breaker of `resiliency.py`, and a worker whose failure is the one that trips it waits for
ever (`Hang`, see `CircuitBreakerHangs`): any failed call may be that one. `SaveRead` and `SaveWrite` are
one transaction split where others can come in. `AdminRead` and `AdminWrite` are approve, reject, delete
and edit, `AdminAbort` one that fails, `RequeueRead` and `RequeueWrite` the retry endpoint. Approve and
edit set the enrichment row by whether the trip has a route (`Synchronized`): an edit that leaves it
without one makes the row PENDING again and clears claim and retry, whichever worker has it. A commit
writes only the columns that differ from what its transaction read (`Flush`): that is what the ORM does,
and several hazards come from it. The settings make a claim outlast three timeouts of a dependency;
`InTime` states that rule, and `MaxLates` bounds the ticks that break it, since nothing enforces it.

### TripBooking

Requests as transactions at READ COMMITTED, taken apart at row locks, advisory locks, the overlap
query and the commit. `AskUpdate` includes the GET that told the client the version. A trip is its
status, crew (the advisory keys of driver, vehicle, trailer), start, route pair, planned duration,
version and base trip. `LockTimeout` stands for `lock_timeout` and the deadlock detector, `Die` for
a dead process or `idle_in_transaction_session_timeout`. `Replan` is the location service activating
a route version of another duration. `edit` are the edits that check for overlaps, `retime` the one that
does not: `trip_timezone` alone plans the end anew and is not among the fields that ask for the check
(`service.py:452-455, 470`). `replanned` remembers the trips whose end it has set.

The enrichment worker can write a duration too, but not to a trip that another one may overlap: it does
so only where `route_status` is PENDING and the evidence has the names of the places, which only slips
store (`routers/trips.py:375`), and the row of a slip is READY from its creation on, also after every
edit. `TripEnrichment` has the worker's write, `TripBooking` leaves it out.

### LocationProcessing

The rows of one route pair: its pointers to the active and the pending version, the versions of its
two routes, and its processing runs. The forward and reverse versions are written, promoted and
discarded together in one transaction each, so one draft stands for both. `Claim` is
`claim_next_processing_run`; `Load` to `SaveCommit` are `_process_route_pair`, split where its
transactions let others in: the unlocked read of the pair, the counters (`counterLock`), the flush
of the pair with the last look for the claim (`pairLock`), the commit. `Raise`, `MarkRead` and
`MarkFailed` are the error path. `Trigger` queues a run for calculate, refresh and bulk refresh.
`Ask` is a handler loading the pair, `Decide` everything from its first lock on the pair to the
commit. One fact about the ORM matters: `session.get(..., with_for_update=True)` locks the row but
does not refresh an object that the session already holds, and `routers/approval.py` has loaded the
pair before it calls `_get_locked_pair`. Approve and discard therefore decide on what was read
before the lock (`request[q].read`), and write the columns that differ from it (`Flush`).
Not in the model: several pairs (nothing but the workers is shared between them), segments,
validation and distributions, which are data of a version.

### LocationNetwork

Points and pairs of the location service as their routers change them. Requests run at READ
COMMITTED and take no lock before they write, so `AskCreatePair`, `CheckDestination`, `CheckUnique`
and `InsertPair` are four steps of one creation, `AskDeactivate`, `CheckUse` and `Deactivate` three
of a deactivation. Approve and discard act on the row they loaded, as in `LocationProcessing`, where
the drafts are modelled in detail; here a draft is saved at once. The readers are those the trip
service has: `AskRoute` to `LookUpCandidate` resolve a pair by names, `AskContext`, `ReadForward`
and `ReadReverse` are the SELECTs of the trip context; `slip` and `enrich` are the two callers. A
point is its name in one language; codes and coordinates are left out. `raced` remembers the pairs
whose creation or approval went on while one of their points was deactivated.

### TripIntake and SlipConversation

`TripIntake` is every endpoint that stores a trip it is sent: slips, their fallback, Excel rows,
manual trips and empty returns. `ClaimKey` is `_check_idempotency_key` with its advisory lock, which
the transaction holds to its end; `Recall` the second look at the record; `FindEarlier` and `Reread`
the replay by slip number and source reference; `Insert` the flush with its three unique indexes,
the record and the commit. A request is an actor of its own: whoever sent it may have gone. `Expire`
is the clean-up of records, `HardDelete` takes a trip away. A payload is its endpoint, its driver, its
number and its content, and `Hash`, `Fingerprint`, `TripNo`, `SlipNo` and `Reference` say what
the code makes of it.

`SlipConversation` puts the bot in front. aiogram runs the updates of a chat as concurrent tasks
without isolation, and in production the state of a chat and its data are two keys in Redis:
`set_state` is a write, `update_data` a read and a later write of all data, `clear` two writes. Each
handler of `slip.py`, and the statement that shares the state of the chat, is a task that goes
through these steps in the order of the code; `Submit`, `Hear` and `GiveUp` are the call of the trip
service with its ten seconds. `Restart` kills all tasks and keeps the chats. `raced` remembers the
chats that were given the slip of another photo between the read and the write of a correction.
`Reply` is what `handle_confirm` makes of the answer; every 409 is told as "already in the system"
(`slip.py:231-232`).

### Drivers and DriverImport

`Drivers` are the rows of the driver service. A request loads its row without a lock (`Load`) and
commits later the columns it has set (`Save`), whatever the row has become; only a merge locks, in
the order of the ids. The UPDATE of a row that has gone fails. `If-Match` is compared with the
unlocked read and changes nothing here. The tests create the schema of `models.py`, a deployment
that of the migrations, which still checks for two statuses and has its unique indexes on other
rows: `schema` is either. `DriverImport` adds the job: one transaction claims it, a second works
off all rows with locks and flushes and without savepoints, a third marks it. A failing flush
poisons the session, and a worker may die at any moment.

`last` is the last event that was written of a driver, not the last one heard: the rows of hard deletes
and imports have no partition key, and the relay does not order them.

### FleetAssets

Vehicles and trailers, which share their code paths, under row locks and If-Match: creation under an
idempotency key, edit, deactivation and its reverse, soft delete, spec versions as windows of time,
and the hard delete in stages: read and compare, ask the trip service for references, lock, delete,
tombstone. The session keeps what it read before the question, so the lock notices a row that has
gone and nothing else. `ValidateReference` and `StepTrip` are the trip service: a trip validates its
assets first and is inserted later. `log` are the outbox events of an asset.

The relay is that of `OutboxRelay`, event by event and without its time: `Claim` takes one event of some
assets into the relay's hands (`sending`) and opens all rows again, as its UPDATE does; `Publish` and
`PublishFails` end that. `settled` are the rows that are PUBLISHED or DEAD_LETTER. A hard delete
dead-letters what is open, the rows in the relay's hands included, which the broker may get all the
same. `since` remembers, of an asset that is gone, whether a claim or such an echo came later.

### AuthTokens

Logins, rotations, reuse detection, logout, expiry and purge of refresh tokens, and the signing keys
that the same transactions pick or create. `Refresh` reads the token without a lock, `FlushParent` is
the autoflush of its revocation in front of the next SELECT and holds the row from there, `PickKey`
locks the active keys, if there are any, `CommitIssue` makes parent, successor and key visible at once.
`RevokeFamily` is the statement of reuse detection: it revokes what was committed when it began, after
waiting for the rows that others hold. A verifier has a cache of the published keys. The blocklist of
access tokens is left out, because `is_token_blocked` has no caller.

## Runs

| Run | Asks | Bounds |
|---|---|---|
| `OutboxRelayRows` | One task per row before a lease has run out, PUBLISHED means delivered, an event is given up only after enough failed publishes of it, no first delivery overtakes what stood before it | 3 rows, 2 of them of one partition and 1 of none, committed in any order; 2 relays, batch 2, 2 attempts, 2 faults anywhere |
| `IdentityRegistration` | A skipped message has failed, a repetition is paid for, every published registration is handled | 2 consumers, up to 2 messages of 3 users, one repeated, 1 administrator, 2 faults, 1 database error |
| `CircuitBreakerHangs` (violation) | Does every call of the platform's breaker return? | 3 tasks, threshold 2 |
| `ServiceCalls` | Breakers count right and heal, a fresh token is not minted again, no task waits for ever | 2 tasks of 3 kinds, threshold 2, tokens of 2 ticks, any outages |
| `TripEnrichment` | READY has a route under any mix of partial updates and late workers; one worker per row while claims outlast work; work ends | 2 workers, 1 trip, 1 attempt (2 with the re-queue), 1 administrative operation, 1 re-queue, 1 crash, exception or abort, 1 late tick, 1 outage |
| `TripBooking` | Overlaps come from retiming only, circles of waiting requests from empty returns only; no lost update, no orphan | 2 requests of every kind at a time, 2 trips of one driver and vehicle, 2 starts, 2 durations, 1 update per trip, 1 change of duration |
| `SlipConversation` | A driver is told the truth, messages mix only in a known race, one trip per message, no conflict with oneself | 2 handlers of 1 chat, 2 requests, 4 updates or calls, 2 message numbers, 2 trips; three plans of other clients |
| `LocationProcessing` | One draft per run, the pending pointer names an undecided draft, nothing is ACTIVE that the pair does not name, only a death strands a run | 2 workers, 2 runs of 2 attempts, 2 decisions in all and at a time, 1 crash; claims may run out at any moment |
| `LocationNetwork` | Live pairs stand on active points but for a known race, a trip context is of one approval | 2 requests, 2 points, 2 pairs, 2 profiles, 2 drafts |
| `DriverImport` | Lookups are unique, a job counts its rows right and what it reports of them is in the table, nothing is written after a tombstone | 2 requests, 2 drivers, 1 code, a job of 2 rows, either schema |
| `FleetAssets` | The rows of an asset tell its life, its tombstone is the next to be sent, one spec is in force, no reference after the check | 2 requests, 2 assets of either kind, 1 plate, 1 trip, 4 events in all, 1 claim of the relay |
| `AuthTokens` | Tokens in use are paid for, what is handed out can be verified | 3 requests, 3 tokens of 1 family, 2 keys, 1 verifier |

Why the bounds are enough to be interesting: every hazard in `PROJECT.json` needs two actors, one
fault and at most two rows, messages, pairs or trips that get into each other's way; each property
has a mutant that TLC finds within the same bounds. One update per trip is enough for two requests that
update the version they have both seen, and for an approval, an edit or a retiming beside each other;
with two (`MaxVersion = 3`, 4 million states, passes as well) a trip without a route also gets one by an
edit and is approved then. Three tokens let two rotations of one token and a
reuse meet; two keys are two first issues; two message numbers of one chat, one of which another chat
uses as well, are all that a reference tells apart. Faults, outages, repetitions, versions and updates
are capped in the guards by `Max...` constants. Symmetry is used for workers, trips, requests, tasks
and assets, in safety runs only. Deadlock is not checked: with all rows settled, all messages
committed or all bounds reached the system may stop.

Fairness. `OutboxRelay`: `run()` polls for ever, `gather` awaits every task and the clock goes on; nothing
forces a producer, a late delivery or a fault. `IdentityRegistration`: consumers poll for ever and
`process()` ends; nothing is asked of the relay. `TripEnrichment`: workers poll unless they hang,
transactions end (the database ends idle ones), the clock runs, the location service comes back; nobody has
to call an endpoint or to restart a worker. `CircuitBreaker`: HTTP clients have timeouts and the event loop
runs tasks that can run. `ServiceCalls`: the same, the clock, and strong fairness of requests to each
client. The last says that traffic goes on, which the breaker needs: nothing but a call turns OPEN into
HALF_OPEN. Everything else is weak fairness.

## Findings and what does not hold

One run expects a violation, `CircuitBreakerHangs`: the call that reaches the threshold waits for the lock
it holds itself. `PROJECT.json` quotes the lines it contradicts.

The following named properties say what the code or its documents claim, and TLC refutes them as well. Each
stands in its module under a heading of its own; put it into the configuration that
is named here, as INVARIANT or PROPERTY as its comment says, to see the behaviour.

| Property | Configuration | What the code does | What is said of it |
|---|---|---|---|
| `TerminalIsFinal` | `OutboxRelayRows.cfg` | the claim stamps every row of the table, so PUBLISHED and DEAD_LETTER rows return to PUBLISHING and are sent again (`outbox_relay.py:175-186`) | `standards/PLATFORM_STANDARD.md:523`, the state machine |
| `EveryEventSettles` | the same with `FairSpec`, no symmetry, no faults, `PartitionOf <- OneAggregate` | a row that is stamped without being selected gets a new lease with every claim of another | `standards/DECISIONS.md:314`, "at-least-once" |
| `NoDoubleBooking` | `TripBooking.cfg` | an edit of the time zone alone plans a completed trip into another one (`service.py:470`) | `TRIP_SERVICE_ANALYSIS.md:23` |
| `NoLockCycle` | `TripBooking.cfg` | an empty return holds its keys when its insert waits for the row of the base trip, whose holder waits for those keys | `trip_helpers.py:227`, "concurrent writers serialize cleanly" |
| `SyncedProfiles` | `IdentityRegistration.cfg` | payloads are not wrapped, so no registration is synchronised | `registration_consumer.py:1` and the comment at line 38 |
| `NothingOfTheDeleted` | `FleetAssets.cfg` | an event the relay has in its hands is published after the hard delete that dead-lettered it | `outbox_repo.py:32`, `vehicle_service.py:813` |
| `AlreadyIsHisOwn` | `SlipConversation.cfg` | two chats share message numbers and references are made of the number alone, so the second driver with a number is told that his slip is in the system | the reply itself, `slip.py:232` |

Further properties one might expect and TLC refutes; those with a name stand in the modules as well.

* Outbox: no bound on repetitions holds. What is published is claimed and published again without any
  fault. And an event that commits late, with an earlier time stamp than one that was delivered, is
  delivered late.
* Consumers: `CommittedWereProcessed`. After an exception the next commit passes over the failed
  message.
* Enrichment: `OutageHeals` (after an outage no attempt asks for the route again),
  `ApprovedRouteStays` (with `MaxVersion = 3`), `EtagCoversRoute`. `EveryRowFinishes` leaves out rows
  that an edit has `Stranded`, and worlds in which every worker hangs.
* Booking: `EmptyReturnHasActiveBase`; `OneDeleteAudit`, which no lock ensures.
* Intake: the hash of an empty return lacks its base trip: a key that is used for another base replays
  the first return (`service.py:533`). A message of a chat may be mixed of two photos (`raced`). The
  bot sends no idempotency key, and clears the chat before it sends.
* Location: `CurrentIsActive`, `DeletedStays`, `VersionCoversDraft` (`TASKS/TASK-0018/PLAN.md:46` says
  "Bump pair row_version when draft pointers change"), `EndedRunStays`; in `LocationNetwork`
  `ReadyHasPair` (`enrichment_worker.py:312` reads `route_pair_id`, the answer has `pair_id`),
  `GoesTheSlipsWay`, `ProfileIsLocked`, `RouteStaysFound`.
* Drivers: `DeletedIsNotAssignable`. A dead worker leaves its job RUNNING for ever. The tombstone of a
  driver may be heard before an earlier event, for want of a partition key.
* Fleet: `NoTripOnGoneAsset`. The audit row of a rejected hard delete is rolled back.
* Tokens: `OneTokenPerFamily` (two rotations read one token), `NoHeirOfReuse` (a successor that is
  committed while the revocation waits survives it).

Read in the source, but without influence on the models: the location and fleet services put Python dicts
into Text columns; `trip_helpers.py:380-381` passes `event_id` to a model whose key is called `outbox_id`
(`Enqueue` models the intended insert); a `from __future__` import follows other imports in
`routers/trips.py`; `fleet_service/models.py` imports a module that does not exist;
`breaker_close_threshold` is never read; the trip relay passes its retry limit as batch size; the standard
documents another backoff than the code uses; the readiness probes of the trip and fleet services look for
worker heartbeats that nobody records.

## Proofs

Eight modules hold 48 theorems; `PROJECT.json` lists those a reader should know. Every safety
invariant and action property that a run checks is one of them. Each module states its inductive
invariant in full; in all of them `Init => IInv`, `IInv` with a step gives `IInv'`, and `IInv`
implies the property. TLC agrees on the invariants on small instances.

**`OutboxRelayProofs`** (any rows, partitions, order of commits, workers, batch size, lease, schedule and
faults): `TypeCorrect`, `PublishedDelivered`, `OneTask`, `GivenUp` and `RelayRefines` (the relay implements
`OutboxDelivery`). `PublishedWasDelivered` is not inductive. A row becomes PUBLISHED by a task that was
acknowledged, so `AckedWasDelivered` joins it; nothing else about the row is needed, which is why overtaken
finalisers and claims that open every row again do no harm here. Order needs more: at a claim everything that
stood before a row when it was committed is delivered or abandoned (`CandidateHasFront`), and this stays true
for as long as a task, a late copy or a delivery refers to the row (`WorkHasFront`, `BrokerHasFront`), since
delivered and abandoned only grow and `ahead` is fixed at the commit (`AheadStandsBefore`). A row that enters
later with an earlier time stamp is not in anybody's `ahead`, so the theorem says what the claim can give and
no more. `LeaseInv`: a row with a task whose lease never ran out is PUBLISHING under a lease that is not over,
and no second worker has a task on it. `CountInv`: the attempts written down and the tasks that still have a
failure to report are together no more than the failed publishes, so overtaken finalisers never count one
twice. The refinement maps `Enqueue` to `Commit`, a first delivery to `Deliver`, a first dead letter to
`Abandon` and everything else to a stutter.

**`IdentityProofs`**. The consumer base (any group, partition and faults): `NothingSkipped` from
`HandledInv`: everything before the position is handled but for the message its owner is processing, and
what is committed is before that. `RepeatsPaid` counts. Messages that were processed and could be polled
again (`Exposed`) and instances that lost the partition in the middle of one (`Stale`) are debts; `Paid`
says that repetitions and debts together never outnumber the faults. The registration consumers implement
`KafkaConsumer` (`RegistrationConsumes`), so that both theorems are theirs (`RegistrationsNotSkipped`).
Tokens: `InUsePaidFor`, because a rotation has the family of its parent (`RotationsInv`) and a login under
way is alone with its family (`LoginsInv`), so that a commit adds a token in use only where it takes one
away or is overtaken; and `AlwaysVerifies`, because what was handed out was committed with its key
(`AuthKeys`).

**`FleetProofs`**. Assets (any assets, requests, trips, plates, instants): whoever writes a row holds its
lock and the asset is live (`WritersInv`), an id under creation is nobody else's (`CreatorsInv`), and a
hard delete under way is about an asset that is soft-deleted or gone already (`DeletersInv`), since a soft
delete is never taken back. `LifeInv` ties version, state and events of an asset together, hence
`EventsAreInOrder`, which is about the rows of the outbox, not about what is heard. `QueueInv` follows what is
settled and what the relay has in its hands: the dead-lettering of a hard delete and its tombstone are one
transaction, so until the next claim opens the rows again the tombstone is the one row left to be sent
(`TombstoneComesNext`). `CoveringInv` says that the spec windows are disjoint, leave no gap behind the first
and reach to the end of time, which is `OneInForce`. `NobodyIsLate` follows from `DeletersInv`, because
trips validate live assets only. Calls (any tasks, threshold and times): `CallsTypeCorrect`,
`CountedRight`, `OneMinter` and `RenewedOnce`. Who mints is the head of the lock's queue
(`MinterHoldsLock`) and found the token old, which it stays while somebody mints (`MintersFoundItOld`).

**`TripRouteProofs`**. Enrichment (any workers, trips, attempts, lease and bounds): `ReadyRouted` from
`RoutedInv`: whoever says READY, or is about to, in the row, in the columns a worker has computed, or in
what an administrator or the retry endpoint has read, does so of a trip that has a route, and no write takes
a route away: an edit may leave a trip without one, never clear it. The trip and its enrichment row are
written by unlocked partial updates, so the invariant has to cover every stale copy. `OneWorker` from
`ClaimsInv`: as long as nobody has interfered and no claim was outlasted (`Calm`), a worker holds every row
it still has to finish, RUNNING, under its token and a lease that is not over. `TypeCorrect` bounds attempts
and leases. Points and pairs (any requests, points, pairs, profiles, drafts): `InactiveByRace`, because a
creation no deactivation has met still stands on active points (`CreationsSeeTruth`), so does an approval of
a live pair (`ApprovalsSeeTruth`), and a deactivation that has looked knows every live pair of its point as
raced (`ChecksSeeTruth`). `OneApproval`: a reader that has its forward route goes on with the version its
pair named (`ContextsInv`), and what a version holds never changes.

**`TripBookingProofs`** (any trips, requests, resources, slots, pairs, durations). The lock discipline comes
first: a request has no advisory lock before it asks for one, holds those of its crew in ascending order
while it asks, and has them all from the check to the commit (`KeysInv`); an update holds the row it has
read, at the version its client has seen (`RowLocksInv`). Hence `CirclesNeedReturns`, by the greatest key
somebody in a circle waits for: only an empty return, which waits for the row of its base while it holds its
keys, escapes the order. `UpdatesAreNotLost`; and, since two trips of one resource have a key in common,
what a request is about to write after a check overlaps nothing that is completed and has kept its end
(`WritesInv`), which gives `OverlapNeedsRetiming`. Both are about requests of every kind: an edit of the
time zone alone takes no key and skips the check, and the trips it has `replanned` are the only exception.
`NobodyOrphaned` from `BasesInv` and the key-share lock of the foreign key. `TypeCorrect` bounds the audit
rows of a trip by the number of requests (`AuditsInv`), because no hard delete begins after the first has
committed.

**`DriverProofs`** (any drivers, codes, requests, jobs, either schema). The constraints of the schema hold
of what is committed together with what the import has flushed (`TableInv`), since a flush holds its row
(`FlushInv`): `OneIsFound`. For that no row may be CANCELLED without its mark (`MarkInv`), which partial
updates of stale reads keep because deletion sets both columns. `TombstonesAreLast`: a tombstone is of a row
that is gone (`TombstoneInv`), a merge holds its source to the end (`MergeInv`), and an UPDATE of a row that
is gone fails; it is about the rows that are written. `JobsTellTheTruth` from `WorkerInv` and `JobInv`: the
results in the worker's hands are those of the first rows of the job, one each. `WhatIsReportedIsStored`:
the transaction that writes the results writes the rows they are about, as the flushes have left them.

**`LocationProcessingProofs`** (any runs, workers, requests, leases, attempts): five invariants.
`TypeCorrect` needs `ReadIsKnown`, because a decision writes version numbers it has read before it waited
for the pair's lock. `RunsDraftOnce`: a run with a draft has ended and has no token (`DraftedHasEnded`), and
the version counters let one transaction at a time pass the SELECT by token (`SavesExclude`).
`PendingUndecided` and `ActiveCurrent` come from `PointerInv`: the pending pointer is only set to a
version that did not exist, which no decision can have read, and every decision clears it whatever it
says by then, since what it has read of it was not NULL. `DeathStrands`, from `HeldInv`: a token is that
of the run its worker works on, and as long as no worker has died a RUNNING run has one.

**`SlipConversationProofs`** has three parts. About the trip service alone (`IntakeInv`): the lock of a key
has one holder (`OneHolder`), so a request that found no record still finds none when it looks for a
conflict (`NoOwnConflict`); references of living trips differ (`UniqueReferences`, hence `OneTrip`); and
what a request without key is answered with is a trip of its own payload (`Fits`). About the bot
(`SlipInv`): what a handler carries from the chat is what its request carries (`Follows`), and no two
handlers wait for one request (`OneWaits`), hence `AlwaysTruth`: also of the "already in the system" of a
409, which the trip service only sends a slip that meets the number or the reference of a trip there is or
was (`FoundIsMet`). About mixed slips (`RaceInv`): in a chat without a race the data of the chat and every
copy of them have the message of their fields or none (`Pure`), and all corrections under way are of the one
photo the chat has (`CorrectionsInv`). So is what is sent, hence `MixedInARace`. `raced` therefore compares
the fields that are written with those that are being corrected. To compare the message of the chat before
and after a write would not do: a chat that was cleared has none, so a stale copy without one would go
unnoticed, and with three handlers its fields can be mixed later.

Assumptions are those of the modules' `ASSUME`s, which TLC evaluates in the runs: constants have their
types, special values are none of the others, bounds are numbers, there are finitely many requests of the
trip service, and slips of the chats that are followed come from the bot.

Model-checked only are the liveness properties, which are out of reach of the prover: `EveryTaskReturns` and
`OutageHeals` of `ServiceCalls`, `EveryRowFinishes`, `RegistrationHandled`.

## Not modelled

* Trip saga and driver commands: nothing calls `start_saga`, so their handlers never run in this commit.
* Driver statement: one read-only report. Exports and PDF likewise.
* OCR: what is read on a photo is a choice. Prices, distances, segments, names and coordinates are data.
* Roles and authentication of requests, payload validation, pagination, formatting, metrics, tracing:
  they do not touch the properties. The rate limiter of the auth service counts in Redis with two calls; it
  refuses requests and changes no row.
* `validate_trip_compat` of the fleet service: it is not routed. `update_user` of the identity service: neither.
* Redis copy of the platform's breaker: written by a call that never returns.
* The Kafka producer, PostgreSQL's lock manager, the ORM's unit of work and Redis are external and modelled
  from how the code uses them.

## Plan

1. Abstract specifications of further components, implemented by the detailed ones: a register of bookings
   by `TripBooking`, a history of approved versions by `LocationProcessing`.
2. `TripIntake` composed with `TripBooking`: what is stored by the endpoints is booked by the other.
3. The saga, should anything start it, with the command consumer of the driver service.

# Tide and Seek: a TLA+ model of how a voyage's events are kept and moved

Tide and Seek lets the crews of a voyage share positions, hazards and messages.
Every phone writes what happens into its own journal of signed events; a relay
server (FastAPI, PostgreSQL) and a nearby mesh carry events between the phones.
`docs/architecture.md` states the contract: "idempotent SQLite event journal
before relay. Nearby and HTTPS are transport adapters, not the source of truth".
This project models both ends of the internet path, the mesh between the phones, and
the services the relay offers beside the events; it checks them with TLC on small
instances, and proves with TLAPS what matters most for every instance.

    phone: VoyageController -> SQLite journal <- InternetRelayWorker -> POST events:sync
                                    ^                                        |
                              RelayEngine (nearby) <-> other phones   RelayService (server)
                                                                             |
                                  push dispatch <- voyage lock - PostgreSQL <- clean-up process
                                  observers, codes, plans, suggestions, ratings: rows of their own

## 1. Inventory

Paths: `S` is `src/apps/server/src/tide_and_seek_server`, `M` is
`src/apps/mobile/lib`.

| Component | State | Operations | Interacts through | What is hard | What makes it correct | Here |
|---|---|---|---|---|---|---|
| Relay event store `S/service.py`, `models.py`, `crypto.py` | rows of `voyages`, `voyage_events`, `idempotency_replays`; the sequence | `synchronize`, with its claim, lock, purge, insert, replay | one row lock; cursors kept by phones | retries, races, crashes, the ORM's stale copy, expiry against lifecycle, quotas | one row per event; no cursor skips an event; deadline follows lifecycle; counter is the number of rows | `RelaySync`, `RelayVoyage`, `RelayJournal` |
| Relay live presence `S/service.py` | `pre_start_positions` | `synchronize_pre_start_presence` | same rows; the voyage's phase | a position shared while the voyage ends | a finished voyage holds no position | in `RelaySync`, roster left out |
| Relay clean-up `S/cleanup.py` | none of its own | `purge_expired` | same rows, another process | counts before it locks | deletes only what has expired | in `RelaySync` |
| App relay worker `M/internet/internet_relay_worker.dart` | timer, generation, quarantine, probe, one exchange | `start`, `stop`, `synchronizeNow` | journal, cursor store, client | stop, start and death between any two writes; refusals; lost answers | the cursor never passes an event the phone lacks; the queue and the downloads move on | `InternetRelayWorker` |
| App journal and cursor stores `M/data/sqlite_event_store.dart` | table `voyage_events`; one preference per voyage | `append`, `markAcknowledged`, `pendingEvents`, `deleteVoyage`; `load`, `save`, `clear` | every part of the app | two stores, no common transaction | as above | in `InternetRelayWorker` |
| App leaving and filing `M/controllers/voyage_controller.dart`, `M/features/voyage/active_voyage_shell.dart` | session, events in memory | `joinVoyage`, `leaveVoyage`, `clearEndedVoyage` | both stores | the worker still runs | joining again starts over | in `InternetRelayWorker` |
| Relay membership projection `S/membership.py` | `voyage_members` | `project_membership_events`, `rebuild` | inside `synchronize`; read by push | order of arrival, repeated events, a voyage older than the rows | the rows are what a rebuild from the journal would make | in `PushDispatch` |
| Relay push `S/push.py` | registrations, delivery rows | `register_push`, `revoke_push`, `dispatch` | voyage lock, providers | it calls before it commits, and its task may be lost | one attempt per event and device; nobody who left is told; an urgent alert reaches every coordinator | `PushDispatch` |
| Relay observer grants `S/observer.py` | grants, snapshots | create, publish, revoke, read | voyage row, grant row | publish against publish and revoke; counting under load | a revoked grant holds nothing; the times of status, own position and call for help never go back; stale is never shown as fresh | `ObserverGrants` |
| Relay discovery `S/discovery.py` | suggestions, public features | submit, moderate, purge, read | reviewers in a thread pool | unlocked read, check and write | what is public was approved and its approval is on file | `Discovery` |
| Relay road ratings `S/discovery.py` | a tally per road and verdict | `rate` | the public | increment or insert without reading | the tally is the answers | `RoadRatings` |
| Relay rate limiter `S/rate_limit.py`, lookups `S/app.py` | instants per key | `check` | every public handler | forgetting keys when full | no window lets more through than its limit | `RateLimiter`, `CodeLookups` |
| Relay join codes, plans `S/service.py` | codes, plans | register, resolve, create, expire | voyages | two registrations of one code, expiry | a code in use keeps its meaning | `JoinCodes` |
| Relay traffic proxy `S/traffic.py` | cache, one lock | incidents, reroutes | a commercial service | many misses of one area, failures under the lock | one fetch per life of an answer; every request ends | `TrafficProxy` |
| App nearby relay `M/relay/` | durable queue, peers, frames being handled | publish, `flush`, `_onPacket`, acknowledge, prune, reconnect | journal, native transport, other phones | death between two writes, repeated frames, names that change, frames too large | what is acknowledged is held; what is queued for a connected peer that can read it gets there | `NearbyRelay` |
| App voyage reducers `M/services/voyage_*.dart`, `sweeper_role_assignment.dart` | none (pure) | fold a journal | controller | order of delivery | the same journal gives the same state | not modelled |
| App live presence `M/relay/live_presence.dart` | samples, deadline | publish, clear | presence endpoint | phase changes in flight | stops when the voyage ends | not modelled |
| Schemas, configuration, GPX, migrations, navigation arithmetic, screens, web site, tools, deployment | | | | | | not modelled: parsing, wording and layout, pure I/O, numerical code, or run once offline |

How things run decides what can interleave. `src/deploy/compose.yaml` starts ONE
uvicorn process, whose `events:sync` and `presence:sync` handlers are async
functions that call the blocking service and so run one at a time; most other
handlers, and the push tasks, run in a thread pool beside them, and the clean-up is
another process. The server's tests (`test_presence_is_shared_between_relay_processes`)
contemplate several relay processes, so the number of concurrent syncs is a
constant, `Relays`. On the phone Dart runs one callback at a time, and another may
run at each `await`.

## 2. Modules

| Module | Models | Used by |
|---|---|---|
| `RelayJournal` | the abstract promise to a phone: a journal in sequence order and answers it may resume from | refined by `RelaySync`; assumed and refined in `RelayedVoyage` |
| `RelaySync` | one voyage in the relay's database: sync, presence, clean-up | |
| `RelayVoyage` | `RelaySync` with the memory of whether the clean-up has begun to run | `MCRelayVoyage` |
| `MCRelaySync`, `MCRelayVoyage` | the uploads of each run | runs `relay_*` |
| `InternetRelayWorker` | phones: journal, cursor, worker, the app around them; the relay as one step per request | |
| `MCInternetRelayWorker` | who records which event | runs `worker_*` |
| `RelayedVoyage` | the phones of `InternetRelayWorker` beside a relay that is only `RelayJournal`'s promise; and the worker's own one-step relay with the answers it gives | `MCRelayedVoyage` |
| `MCRelayedVoyage` | its instance, and a bound on the answers | by hand, section 3 |
| `NearbyRelay` | the phones of a voyage that carry its events by radio | |
| `MCNearbyRelay` | who meets whom, and the events aboard | runs `nearby_*` |
| `RelayClock` | the clock the services share, moved as far as one of them needs | the services |
| `PushDispatch` | push notifications and the member rows they are addressed by | `Services` |
| `ObserverGrants`, `Discovery`, `RoadRatings`, `JoinCodes`, `CodeLookups`, `TrafficProxy` | one service each | `Services` |
| `RateLimiter` | the limiter, as operators on its table | `CodeLookups` |
| `Services` | the services of one relay under one clock | `MCServices` |
| `MCServices` | their instance | runs `services`, `discovery_race` |
| `RelaySyncProofs` | theorems about `RelaySync`: types, the journal, the refinement of `RelayJournal` | `RelayVoyageProofs` |
| `RelayVoyageProofs` | theorems about `RelayVoyage`: what is forgotten and when, the deadline, the phase, the counter and the quota | |
| `InternetRelayWorkerProofs` | theorems about `InternetRelayWorker` and `RelayedVoyage` | |
| `NearbyRelayProofs` | theorems about `NearbyRelay` | |
| `PushDispatchProofs`, `DiscoveryProofs`, `AccessProofs` | theorems about the services: `DiscoveryProofs` covers ratings too, `AccessProofs` observer grants, join codes, the limiter and the lookups | `ServicesProofs` |
| `ServicesProofs` | theorems about the traffic proxy, and about all the services together | |

### RelaySync

A sync is split where another process can act: `Receive` (the unlocked read of the
voyage row, after which the ORM keeps that copy), `ClaimVoyage` (insert of a new
voyage, which may lose the race and read the winner's), `EnterReplay` or `EnterStore`
(the lock is granted, expired rows are purged, the recorded answer is looked for),
`SkipEvent` or `StoreEvent` per event of the batch, `FinishStore` or `FinishReplay`
(page, lifecycle, recorded answer, commit). `Conflict`, `EventQuota`, `ReplayQuota`,
`VoyageVanished` and `Crash` roll everything back, sequence numbers excepted. A
transaction carries the row as first read (`mine`, `loaded`) and the attributes it
changed (`dirty`): `WriteBack` writes exactly those, which is what SQLAlchemy does
and why a stale copy can matter. `answers` keeps every response ever sent; a phone
may send the cursor of any of its own, which is how lost, late and reordered
responses are covered. The presence transaction reads its clock at its lock, so it
is one atomic action. The clean-up is three actions because it counts before it
locks and deletes after.

Left out: `voyage_members`, byte quotas (all events weigh the same), the limit on
active voyages (503), HTTP shape checks, the order of events inside one answer.

### InternetRelayWorker

An action is the code between two awaits of `synchronizeNow`: `Wake`, `Offer` (the
pending events are read, the batch is chosen), `Send` (the cursor is loaded),
`Receive`, one `Acknowledge` per accepted event, one `AppendEvent` per downloaded
one, `Save`. `stale` is `!_isCurrent(...)`: the worker was stopped or restarted since
the exchange began; `Abandon` is the early return that follows. Failures are
classified as the `catch` blocks do: `FailToExchange` (retryable), `FailToStore`
(anything thrown by storage), `RelayRefuses` and `UnreadableAnswer` (not retryable:
`IsolateRefusedUpload` narrows the batch to one event and quarantines it), and
`CursorRefused`. `Die` is the operating system's; `ClearCursor`, `DeleteEvents`,
`RemoveSession`, `Join`, `Record` and `ReceiveNearby` are the app around the worker,
with the worker running through them as it does.

The relay is atomic here: a request stores its upload and answers with a page in one
step, and rows may expire. What comes past its life, its own or its voyage's, the relay
accepts and does not store (`S/service.py:794`): of the events in `Expiring` a request
stores any part. Events of phones whose inside does not matter are uploaded by
`UploadElsewhere`. Why one step is enough is what `RelayedVoyage` is about.

Left out: signatures (every event is authentic), the snapshot of known event ids (it
spares inserts that `INSERT OR IGNORE` ignores), delays, status messages, the stream
of received events, the purge of contact details others shared when a voyage ends, two
workers overlapping while a screen is rebuilt, and a request that reaches the relay
after its worker is gone.

### RelayedVoyage

Both ends of the internet path meet in `RelayJournal`: a journal of numbered rows and
the answers that have been sent. `RelaySync` implements it. Here the phones run beside
it, with nothing else known of the relay: `RelaySynchronizes` and `RelayForgets` are its
steps, taken when it likes and for whom it likes, and `Deliver` hands a phone that has
sent a cursor ANY answer that was ever made to that cursor, which includes the late and the
repeated ones and is more than HTTP does. Only the rows this build understands are held to the
promise (`UnderstoodRows`): a part of a journal that keeps it keeps it too. `OneStepSpec`
is the other direction, the relay of `InternetRelayWorker` with its answers
remembered, which is an implementation of the promise as well. Acceptance is not
part of the promise: that what is accepted is stored is `AcceptedIsStored` of `RelaySync`.

### NearbyRelay

One action per stretch of code between two awaits. `Publish` is the app handing an event
to `enqueueLocal`, once per start; an event that is received is handed over as well, and
finds itself in the queue (`INSERT OR IGNORE`). `Flush` is one step: two cannot run at
once, and a second one asked for meanwhile follows (`_flushRequested`), which is what
fairness of `Flush` says. It walks the peers in the order they connected, as Android's
linked set gives them (on iOS the order is arbitrary, so there a frame that cannot be
encoded may stop different peers at different times), and stops at the first frame that
cannot be encoded or endpoint that is gone. `ReceiveFrame` begins `_onPacket`: what `decode`
skips of a frame, because it has expired or its kind is unknown to this build
(`Understood`, `describeUnsupportedRelayEvent`), is neither handled nor acknowledged
(`Taken`), and a frame of nothing else is rejected; an
acknowledgement is handled there and then, and a frame of events is then handled by
`LookUp`, `AppendEvent`, `Enqueue` for each event and `Acknowledge` for the whole,
with anything in between. `Writes` is the order of the two writes of an event. `Meet`,
`Part` and `HearStatus` are the radio and what the engine hears of it; an endpoint is a
phone and the number of times its transport was started, because a phone that starts
again is a new name to the others. `Die`, `Leave`, `Reconnect` and `Start` are the life
of the app; `Leave` keeps the queue, as the code does.

Frames under way on a connection that breaks are lost; one that is on its way is not
sent a second time until it has been taken, after which a repeat is handled like the
first. The clock moves between frames, hours beside milliseconds. The queue may exceed
`MaxQueued`: the events of a frame are all queued before it is pruned, and an
acknowledgement that cannot be sent throws before the prune (`relay_engine.dart:445`).

Left out: presence frames, authentication and the age of frames, the order of equally
urgent events, an expiry of an event's own, the delays of reconnection, an update of the
app (what a phone can read does not change), frames with a malformed event, which are
rejected whole, and the events
that the internet relay brings meanwhile (`InternetRelayWorker` has the nearby relay as
one action).

### The services

They share the clock, the process and nothing else. `PushDispatch` shares the journal
and the voyage lock with the sync, so it has its own reduced `Sync`: it stores what is
new, projects the members and leaves a task. The task is `BeginDispatch` (lock, members,
registrations), one `AlreadyAttempted` or `Attempt` per message and recipient, and
`CommitDispatch`; `LoseTask` is its end at any point, which takes the reservations back
and not the calls. `ObserverGrants`, `Discovery`, `RoadRatings` and `JoinCodes` split each request
where it reads, where it flushes and where it commits, and a statement that waits for a row lock is
enabled when the lock is free. What only reads (the observer's page, the public
features, a code's lookup, a road's recommendation) is an operator of the row and the
clock, and the properties are about what it answers. `CodeLookups` asks two
`RateLimiter` tables as the handler does. `TrafficProxy` has the queue of its lock.

Left out: the contents of messages, pages and answers, credentials and encryption, the
checks of form, the rate limits of handlers other than the lookup. The limiter reads the
clock under its lock, where the code reads it just before; a registration of a code ends
before the clock moves.

## 3. Runs

| Run | Instance | Shows |
|---|---|---|
| `relay_sync` | 1 relay, clean-up, lifecycle and ordinary uploads, limit of 2 events, clock to 3, 3 requests | `TypeOK`, `RetentionFollowsLifecycle`, `EndedVoyageReportsEnded`, `FinishedVoyageHoldsNoPositions`, `NothingForgottenEarly`, `AcceptedIsStored` hold through end, reopen and end again; `CounterMatchesUncleanedRows`, `QuotaHoldsUncleaned` until the clean-up first runs |
| `relay_workers` | 2 relays, clean-up, retried, conflicting and ending uploads on a voyage kept for 1 tick, `FairSpec` | `OneRowPerEvent`, `AnswersCoverCursor`; the committed rows refine `RelayJournal` (`ImplementsJournal`); `EveryRequestEnds` |
| `worker_sync` | 1 phone, 3 events (an end, a reopen that expires, one the relay refuses, at the head of the queue), pages of 1, uploads of 2, `FairSpec` | `SavedCursorCovered`, `AcknowledgedWasTaken`, `NeverAsleep`; `QueueMovesOn`, `DownloadsMoveOn` |
| `services` | two devices and two dispatches; two creators and two publishers of one grant; two suggestions and two reviewers; two raters; two registrations; three addresses; three travellers | push: `AtMostOneAttempt`, `ProjectionIsTheJournal`, `LeftHearNothing`, `UrgentReachesCoordinators`, `EveryDispatchEnds`; observers: `RevokedHoldsNothing`, `ActiveGrantsCapped`, `StampsNeverGoBack`, `StaleNeverShownFresh`; suggestions: `RevisionOnFile`, `OneSubmissionPerClient`; ratings: `RatingsAddUp`; codes: `LiveCodesStay`, `LivePlansStay`, `AnswersAreInvites`; lookups: `GuessRateBounded`, `AddressRateBounded`; traffic: `OneFetchPerLife`, `EveryTrafficRequestEnds` |
| `nearby_relay` | three phones in a line and one event, or two phones and three events: one the second cannot read and two that do not fit one frame; a queue of two; `NearbyFairSpec` | `NearbyTypeOK`, `AcknowledgedIsHeld`, `EveryPeerIsReached` |
| `relay_counter_drift` | as `relay_sync`, after the clean-up | finding 1 |
| `relay_reopened` | as `relay_sync` | finding 2 |
| `relay_discard` | as `relay_sync`, longer retention | finding 3 |
| `worker_portal` | as `worker_sync` | finding 4 |
| `worker_filed` | as `worker_sync`, an ended voyage, one fault | finding 5 |
| `discovery_race` | as `services`, every verdict | finding 6 |
| `nearby_oversized` | as `nearby_relay` | finding 7 |

Bounds of the sync and the worker. `MaxNow` 2 or 3 with lives of 1 and 2 ticks: an event,
an answer and a voyage can each expire while another request is in flight, and a
reopened voyage outlives its end. `MaxRequests` 3: an upload, its retry and a request
between them. Two relays are the fewest that race; `Cleaning` adds the third party.
`MaxDownload` and `DownloadLimit` 1 cut every page, so resuming from a cursor is the
rule. `Prompt` keeps the clock still during a transaction where time is not the
question. On the phone an upload of 2 is the smallest that can be narrowed, and 3 events
are enough for a refused one, one behind it, and one to download; `MaxSequence` bounds
the rows and `MaxRestarts` the starts, stops, deaths, storage faults and refused cursors
of a behaviour. Failures of the network are not bounded. Symmetry is used only in runs
without liveness.

`RelayedVoyage` is in none of these runs; what is said of it is proved (`PromiseIsEnough`,
`OneStepAlwaysKeepsPromise`). Two configurations check the same formulas by hand,
`tlc -config voyage_relayed.cfg MCRelayedVoyage` (`SavedCursorCovered`; some minutes) and
`tlc -config voyage_promise.cfg MCRelayedVoyage` (`OneStepKeepsPromise`; seconds), with one
phone, two events, and at most two answers, each of which moves a cursor (`FewAnswers`):
an answer, the one that resumes from it, and either of them given late. With a relay that
gives numbers of rows that are gone again, that is, without the last conjunct of
`RelayJournal!Follows`, the first is violated; with one that answers with its newest number
rather than its page's, the second.

Bounds of the services. Two of every kind of request are the fewest that race; the
lookups have three addresses for a table that holds two, the traffic proxy three
travellers for a cache of one area, and ratings go past the five answers the rule asks
for. Two syncs after the boarding are an upload and its retry, or an alert and a
departure. One component moves in a behaviour (`desk`): they share nothing but the
clock, so the run explores the sum of their state spaces. `request_changes` and
`supersede` are among the verdicts of `discovery_race` only. `services` sets
`CHECK_DEADLOCK FALSE` because bounded requests and a bounded clock run out; so do
`nearby_relay` and `nearby_oversized`. Every safety property of this run is also proved
for every instance (section 5), so the bounds matter for its liveness.

Bounds of the nearby relay. A line of three phones makes the one in the middle carry
what it did not record; it may stop once, in any of the ways phones do, and phones meet
twice. `MaxHops` 2 lets an event come that far and no further. Two events with a frame
that takes one of them are the least that do not fit; the third, the most urgent, is of a
kind only its author can read, and shares a frame with either of them. A phone is inside one frame at a
time in the run; the proof covers any number. `MaxQueued` 2 makes the prune evict one of three: the
limit is 512 in the code. An event lives one tick and the clock
moves once, so that it may expire on every phone at any point of a behaviour.

Fairness. `RelaySync!Fairness`: strong fairness of each relay's next statement and of
the clean-up's, because PostgreSQL queues the waiters of a row lock; nothing makes a
request arrive. `InternetRelayWorker!Fairness`: weak fairness of the timer and of the
event loop, strong fairness of choosing a batch, of the relay's reply and of receiving
it, that is, a network that fails as often as it likes but lets an exchange through
again and again. `Stop`, `Die`, recording and the sailor's decisions are never forced.
Both liveness properties of the worker are conditional on its running. `PushFairness`:
strong fairness of the voyage lock for a waiting dispatch, again because its waiters
are queued, and weak fairness of the statements and calls after it, which have timeouts.
`TrafficFairness`: weak fairness of taking the lock, which `asyncio` hands over in turn,
and of the calls, which time out. `NearbyFairness`: weak fairness of `flush` (a timer of
five seconds), of the status reaching the engine and of the callbacks of a frame, and
strong fairness of receiving between phones in range, that is, a radio that lets a
frame through again and again. Nothing makes phones meet.

## 4. Findings

1. `CounterMatchesRows` (`S/service.py:1062`): the clean-up counts a voyage's expired
   events before it locks the voyage and subtracts that count after; a sync that
   commits in between has already subtracted them. The counter ends too low, and the
   quota admits more than its limit.
2. `RunningVoyageDoesNotReportEnded` (`S/service.py:794`): a reopen event's life is
   clipped to the deadline the end had shortened, so it expires before the end event
   does, and the voyage, which runs, reports itself ended.
3. `OnlyAFinishedVoyageDiscardsPositions` (`S/service.py:224`): an end event that is
   already stored, uploaded again after a reopen, discards the live positions of a
   voyage that runs.
4. `OnlyRefusedQuarantined` (`M/internet/internet_relay_worker.dart:412`): any answer that is
   not retryable, a captive portal's included, can set aside an event the relay never
   refused. Until the worker is started again that event is not offered.
5. `JoiningAgainStartsOver` (`M/controllers/voyage_controller.dart:1846`): removing an ended
   voyage deletes its events and leaves its cursor (or lets the running worker save it
   again). Joined again, the voyage resumes behind events the phone no longer has. A
   death between the two deletions has the same effect on a voyage never left.
6. `RejectedNeverPublished` (`S/discovery.py:117`): two reviewers read one pending
   suggestion; one approves it, which publishes its feature, and the other's rejection
   is committed over it. The suggestion is rejected and the feature stays public.
   What the code does keep, and `RevisionsStayOnFile` proves, is the approval in the
   audit trail.
7. `DeliveryIsAtLeastOnce` (`M/relay/relay_engine.dart:302`): a flush puts up to twelve
   events in one frame, and a frame of more than 28 KiB cannot be encoded. The exception
   ends the flush for that peer and those after it, and the same batch is tried again at
   the next. Eight pending chunks of a shared route (3500 characters each) are enough,
   and they live for 72 hours. `EveryPeerIsReached` is the same promise for batches that fit
   and that events the receiver cannot read do not fill.

With several relay processes the ORM's stale copy (`S/service.py:152`) would also break
`CounterMatchesRows` and `RetentionFollowsLifecycle`; the deployment runs one, so these
are checked with one relay.

Noted, but no disagreement with any line of the repository: an event a nearby phone is
too old to read is skipped and never acknowledged (`M/relay/relay_protocol.dart:276`), so
twelve of them at the head of what is pending for it are sent at every flush until they
expire, and nothing less urgent gets through (`EveryPeerIsReached` excludes this by
`LeavesRoom`; with `FrameEvents` 1 and without that condition TLC finds it violated);
a group's publication replaces the positions of its party, which may thus become
older (`StampsNeverGoBack` does not compare them), and drops a call for help when its own
report of one is older than the stored one; the nearby queue outlives
a voyage the sailor leaves, so after joining it again a redelivered event is
acknowledged and not appended (`AcknowledgedIsHeld` says "unless it has left"); two
corrections of one feature can leave the status of one with the name of the other;
a provider's verdict on a dead token revokes a registration that was renewed meanwhile;
and a reopening that the relay has before its end does (another phone brought it),
uploaded again behind that end, leaves the positions of a voyage that has just ended,
because the last lifecycle event of an upload decides, stored or not
(`S/service.py:219`). No position is added to them: `FinishedVoyageTakesNoPosition`.
The same comes of an end uploaded once more after the store forgot it, with the reopening
that followed it still held. And a number of a row that is gone must not be drawn again,
or phones miss the row that gets it: a PostgreSQL sequence sees to that, which is what is
modelled; the SQLite of the server's tests promises it only of a table declared
`AUTOINCREMENT`, which `autoincrement=True` (`S/models.py:109`) does not do there.

## 5. Proofs

All theorems hold for every value of the constants that satisfies the named
assumptions, which TLC evaluates on the instances. They give the constants their types
and say that a distinguished name is not one of the values it stands beside:
`BatchesAssumption`, `RetentionAssumption`, `NamesAssumption`, `NoVoyageAssumption`
(relay); `EventsAssumption`, `LimitsAssumption` (worker); `NearbyAssumption`;
`PushAssumption`, `UploadsAssumption`, `NoneAssumption`; `DiscoveryAssumption`,
`DiscoveryNames`, `RatingAssumption`; `GrantAssumption`, `GrantNames`;
`JoinCodeAssumption`, `CodeNames`; `LookupAssumption`; `TrafficAssumption`. Some also say
what the code ensures: the events of one upload have identities of their own, a
limiter's limits are positive.

Six theorems have hypotheses beside these. Those on the deadline, the counter, the
quota, the phase and the emptied voyage need `OneRelay`, one server process, which is
what is deployed (section 1). Those on the phase and the emptied voyage need
`EndsAskNoLife`, that an end has no expiry of its own, as the app records it, and
`GraceWithinRetention`, that the grace period is no longer than an event's life:
`S/config.py:26` allows 72 hours at most, which is that life.
`FinishedVoyageIsEmptied` needs two more, both of the phones: `ReopeningsAskNoLife`, the
same of reopenings, and that a behaviour satisfies `UploadsInOrder`, that when an upload
is stored which has an end before a reopening, and the reopening is in the store, so is
the end. A phone that uploads in the order it records does that, as long as it does not
repeat an end that the store has forgotten. Without it the property is false (section 4),
and with it the interesting case, an upload that ends the voyage while positions
are held, is still there: TLC finds it, and finds the invariant of the proof to hold.

| Theorem | Says |
|---|---|
| `TypeCorrect` | `RelaySync`'s type invariant |
| `OneRowPerEventAlways`, `AnswersCoverCursorAlways` | the two promises, for any number of relays, uploads, limits |
| `RelayImplementsJournal` | `RelaySync` implements `RelayJournal` |
| `AcceptedAlwaysStored` | what is answered as accepted is stored, or was past its life, for any number of relays |
| `NothingForgottenEarlyAlways` | no committed row goes before it expires, or with its voyage |
| `RetentionAlwaysFollows` | with one relay, the voyage's deadline follows its lifecycle |
| `EndedAlwaysReportsEnded`, `FinishedVoyageNeverTakesAPosition` | with one relay, an ended voyage reports itself ended until its deadline, and takes no position |
| `FinishedVoyageIsEmptied` | with one relay and phones that upload in order, an ended voyage holds no live position until its deadline |
| `CounterAlwaysMatches`, `QuotaAlwaysHolds` | with one relay and until the clean-up first runs, the counter is the number of rows, which never exceeds the quota |
| `WorkerTypeCorrect` | `InternetRelayWorker`'s type invariant |
| `SavedCursorAlwaysCovered` | no crash, stop or failure leaves a saved cursor beyond a missing event |
| `AcknowledgedAlwaysTaken` | a phone gives up offering only what the relay has stored, or may forget |
| `PromiseIsEnough` | beside any relay that keeps `RelayJournal`'s promise, however late its answers, no saved cursor runs beyond a missing event |
| `OneStepAlwaysKeepsPromise` | the worker's one-step relay implements `RelayJournal` |
| `NeverAsleepAlways` | a started worker always has its next exchange coming |
| `CarryInvariant`, `AcknowledgedAlwaysHeld` | what a nearby phone counts as acknowledged is in the other's journal, for any number of phones and of frames being handled at once |
| `NearbyTypeCorrect` | `NearbyRelay`'s type invariant: one row per event, none beyond its last hop |
| `OneAttemptEach` | any number of dispatches put an event to a device once, lost dispatches excepted |
| `PushInvariant`, `ProjectionAlwaysTheJournal` | the member rows, kept up to date upload by upload or rebuilt, are the projection of the journal |
| `NobodyWhoLeftHears`, `UrgentAlwaysReachesCoordinators` | whoever left is not told, and an urgent alert is put to every coordinator |
| `DiscoveryInvariant`, `RevisionsStayOnFile`, `SubmissionsFiledOnce` | what is public was approved and its approval is kept; a submission is filed once |
| `RatingsAlwaysAddUp`, `RecommendationsAreEarned` | the tally is the answers, and a recommendation has enough of them (answers, not people: one sailor may give several) |
| `PublishInvariant`, `RevokedAlwaysEmpty`, `StampsGoForward`, `NobodyIsMisled` | a revoked grant is empty; the times of the status, of a sailor's own position and of the call for help never go back (a group's party is not compared); stale is not shown as fresh |
| `GrantsAlwaysCapped` | the maximum of grants in use, for any number of requests at once |
| `CodesInvariant`, `CodesKeepTheirMeaning`, `PlansKeepTheirCodes`, `LookupsAnswerInvites` | a code in use is not taken over, and what a lookup answers was registered |
| `LookupInvariant`, `GuessesAlwaysBounded`, `AddressesAlwaysBounded` | no window lets more guesses through than the limits, though instants and keys are forgotten |
| `TrafficInvariant`, `OneFetchPerLifeAlways` | one successful fetch per life of an answer, for any number of requests and areas |
| `ServicesInvariant`, `ServicesTyped`, `ServicesKeepTheirPromises` | the services keep all these together, under one clock |

The relay's argument. `TypeOK` is not inductive: the number of rows must be finite, and
a transaction past its lock must have the voyage row (`TypeInv`). `OneRowPerEvent` and
`AnswersCoverCursor` say nothing of what is still uncommitted, so `JournalInv` adds:
only the lock's holder has inserted anything (`InsideLock`), and what it inserted is new,
in identity and in sequence, to everything committed and beyond every cursor handed
out (`Inserted`). The lock is thus what makes sequence order and commit order agree;
the mutant `LocksWithoutWaitingMutant` shows both properties fall without it. The
refinement maps each commit to `Sync`, each deletion to `Forget` and all else to a stutter.
`NothingForgottenEarly` needs `ClockInv`: the time a transaction read when it began, which
is the time it purges by, is not in the future. `AcceptedIsStored` is about a whole
upload at its commit: `AcceptedInv` says of each event behind the loop that it is
`Settled`, in a row that the purge left or the loop added, or past its life by the
transaction's own clock. The purge comes before the look-up, so that what is looked up is there
at the commit; the mutant `LooksUpUnpurgedMutant` looks it up first.

The voyage row's argument, for one relay. What the ORM read before its lock is still
so when it has it, but for what a clean-up did, and a clean-up changes the count or
deletes the voyage. `DeadlineInv` says that of the three attributes of the deadline;
`UncleanedInv` says it of the count, which before the purge is that of the rows and after
it that of the rows kept with those inserted. Both are inductive because `WriteBack`
leaves what the transaction did not change (`DeadlineWritten`, `CountedRows`).
`EndedVoyageReportsEnded` compares two records of one fact that age differently: the
row's `endedAt`, and events that expire. `LifecycleInv` says that some end outlives
the row's deadline and no lifecycle event is behind it (`EndStands`), of what is
committed and of what a transaction has in hand: an end is kept until the deadline there
was before it shortened that (`LifecycleStands`), a purge removes nothing that outlives
the clock, and a reopening takes `endedAt` away. The converse fails, as finding 2 shows.
`FinishedVoyageHoldsNoPositions` needs to know who ended the voyage. `EmptiedInv` says of
a transaction whose row is ended that it found it so, and then it was empty already, or
that its own loop ended it (`EndOwned`); in that case an end is new to the store and
an end is the last lifecycle event behind the loop (`EndedByLoop`), so that the commit
discards the positions. The second half is where the order of the upload is needed: a
reopening behind a new end must be new as well, or the loop skips it with the row ended.

The worker's argument. `SavedCursorCovered` speaks of the saved cursor only; a step
makes it of one that was sent, or answered. `WorkerInv` says the same of all three:
the rows up to the cursor saved and up to the cursor sent are held, and those up to the
cursor answered are held or still to be appended (`DeviceCovered`); the relay numbers
each row once, below `nextSequence` (`RowsNumbered`), so what it adds later is beyond
them; and everything accepted was stored or is `Expiring`, and all that is handed out was
stored (`OnlyTaken`). `Keeps` and `Owes`
state once what a step outside the relay may do to a phone, one lemma per group of
actions shows it, and the invariant follows from them.

The argument between the two. `RelayedInv` is the phone's part of `WorkerInv` without the
relay's inside. A cursor is known only by having been answered (`Resumes`), and that is
enough: the promise says that new rows come after every answer, so that what a phone has
covered stays covered (`MovesKeepServed`), and that an answer covers what lies between the cursor
it was made to and the one it gives, so that a phone at the first gets to the second
(`DeliverServes`). The lemmas on `Keeps` serve both invariants. For the refinement
`OneStepInv` adds that no cursor, not even of a phone that has removed the voyage, is
ahead of the relay (`Bounded`), without which an answer might be.

The nearby relay's argument. `AcknowledgedIsHeld` is about rows of a queue; a step
makes it of an acknowledgement under way, which was made of a frame being handled.
`CarryInv` says of all of them, and of every frame of events, that they name only
events which the phone they stand for holds (`Holds`), or held until it left. A frame
being handled is the delicate one (`ReceiptHeld`): everything it will acknowledge is held
already, or is still to be handled, or is the event in hand, which the append before the
enqueue has put in the journal by the time it is in the queue. One lemma per variable
says what a step must show of what it adds (`QueueStep`, `WireStep`, `ReceivingStep`),
and one per action shows it.

The services' arguments. `AtMostOneAttempt` follows from `AttemptInv`: one task sends at a
time, and each attempt is recorded in a row that is committed or that the sending task
holds (`Recorded`), but for those of lost tasks. `RevisionOnFile` needs the suggestion
of a review that is publishing to be on file until it commits, and the feature it
loaded to be there (`Approving`, `ApprovedStays`). Observer grants need that what a
publication has read stands until it writes (`Stands`, in `PublishInv`), which is what
the row's lock gives, and that a count taken under the voyage's lock is still a bound at
the insert (`CapInv`). Codes need that a row about to be rewritten is still live and
still that voyage's (`InForce`, in `CodeInv`); an insert needs nothing, because the
unique key refuses it.

The push argument. A dispatch sends what it read when it took the lock. `PushInv` says
that this still stands while it sends: members and registrations it found are of
devices that were aboard (`TaskInv`), its recipients do not grow with the clock, and one
dispatch sends at a time. The projection is a function of the events of one device in
the journal's order, so projecting what is new onto the rows there are is projecting the
whole (`ProjectOn`): the new events are behind the old, under the lock, and a repeated
event is not new. The journal is a function from sequence numbers, so that this needs no
induction over sequences.

The limiter's argument. A table that forgets cannot be compared with the history by
counting. `LookupInv` keeps an injection instead (`Covers`): each lookup let through that
is still in the window maps to an instant of its own that the table holds under its
key.
Trimming removes only instants out of the window, forgetting a key only one that is
quiet, and a lookup let through adds one to both sides; a key has at most `requests`
instants, and that bounds the lookups.

The traffic proxy's argument. Whoever fetches has the lock and looked at the cache
after getting it (`FetchInv`), nobody is twice in the queue (`QueueInv`), and an entry
dropped from a full cache takes its history along (`CachedIsLast`).

Of all the services together, each has its invariant (`ServicesInv`), and the clock is
all that another one's step changes of it. Only a registration of a code in progress
reads the clock once and uses it later, and there is none while another desk is open.

Only model-checked. Liveness (`EveryRequestEnds`, `QueueMovesOn`, `DownloadsMoveOn`,
`EveryDispatchEnds`, `EveryTrafficRequestEnds`, `EveryPeerIsReached`): the prover does not
handle fairness or ENABLED. The findings are counterexamples, on the instances. Every
invariant and action property of the passing runs is stated by a theorem. The type
invariant of `InternetRelayWorker` is proved and in no run.
`RecommendedByMany` is proved and in no run, as is `FinishedVoyageTakesNoPosition`.

`ProjectionIsTheJournal` compares the member rows with the whole journal: the model's
journal does not expire, where the code's rebuild reads what the journal still holds.

## 6. Not modelled

- The app's reducers over the journal and its live presence: pure folds and a
  timer whose order-independence is a property of data the models above do not carry.
- Authentication, signatures and encryption on every path: all events are authentic.
- The relay's schemas, configuration, GPX export and migrations; the app's screens,
  navigation arithmetic and parsers; the web site, tools and deployment scripts: shape
  checks, numerical code, or code that runs once and alone.
- Where two models of one part exist, the coarse one is used by its neighbour: the
  worker sees the relay as one step per request (which `RelayedVoyage` justifies), the
  push model has a reduced sync, and the nearby relay is one action of the worker.

## 7. What could come next

1. The reducers (`voyage_lifecycle`, `voyage_membership`, `sweeper_role_assignment`) as
   functions of a set of events, checked to be independent of delivery order, and
   against the server's projection.
2. The live presence of the app against the voyage's phase.
3. Acceptance in `RelayJournal`, so that `AcceptedIsStored` and `AcknowledgedWasTaken` meet
   there as the cursors do.

# Verification of the match notification app

This directory holds TLA+ models of the application in this repository: users follow
football teams, a poller watches the provider's fixtures, and goals, cards, kick-offs and
full-times are sent to the users' browsers as Web Push messages. The models are checked
with TLC on small instances, and what matters most about all of them is proved
with TLAPS for every value of the constants. `PROJECT.json` lists runs, mutants, the map from
definitions to source lines, findings, hazards and theorems.

    tlc -workers 2 -config MCDeployment.cfg MCDeployment  # a run
    tlapm DeliveryProofs.tla                              # the proofs of a module

## 1. The system

| Component | Code | State | Operations |
|---|---|---|---|
| Detection | `workers/poller.py` `process_fixture`, `diff.py`, `dedup_key.py`, `queue.py`, `repositories/match_events.py` | baseline in Redis, `matches` row, `match_events` ledger, queued jobs | diff a fixture against the baseline, record, notify or queue, save; retry the oldest pending rows |
| Schedule | `workers/polling_policy.py`, `tick` of `poller.py`, `find_pollable_matches` | `starts_at`, `status`, `last_checked_at`; cached feeds | decide what is due, ask live and date feeds, update or mark rows |
| Discovery | `workers/discovery.py`, `get_team_fixtures` of `sports_api/client.py` | feeds, errors and plan boundary of a client; `matches`; `last_discovered_at` | a pass over the followed teams; a follow discovering its team |
| API client | `sports_api/client.py`, `repositories/sports_requests.py` | request rows, response cache, advisory locks, connection pool, breaker | cached request, reserve, fetch with retries, reconcile |
| Delivery | `workers/notifier.py`, `web_push.py`, `repositories/subscriptions.py` | `delivered_at`, receipts, terminal outcomes, row locks | resolve targets, send device by device, complete |
| Schema upgrade | `notification_schema.py` | parts of the schema that are installed, advisory lock | look, lock, install, before anything is delivered |
| Registration | `routers/push.py`, `repositories/push_subscriptions.py` | `push_subscriptions`, two advisory locks | register, refresh, refuse, delete |
| Push lifecycle | `frontend/src/pushLifecycle.js`, `registerSW.js`, `lib/auth.jsx` | the browser's subscription, cookie, each tab's activities | enable, resynchronize, detach, log in and out |
| Subscriptions | `routers/subscriptions.py`, `routers/matches.py`, `services/subscription_service.py` | a user's subscriptions, preferences and mutes | follow, unfollow, save, list, detail, live, mute |
| Pages | `pages/*.jsx`, `lib/latestRequest.js`, `lib/teamSearch.js`, `lib/teamFollow.js`, `App.jsx` | what is shown, versions of requests, timers, optimistic marks | poll, refresh, mute, save, search, follow, unfollow, cancel, time out |
| Others | accounts, rate limits, body limit, team search ranking, run report, scripts | | see section 7 |

**How they meet.** One cron run (or the persistent poller) is `tick`, `discover` and, when
fixtures were stored, `tick` again. `tick` chooses feeds (Schedule), obtains them (API
client), hands each fixture to Detection, which inserts ledger rows and calls `notify`:
Delivery itself in the cron, an arq job in the persistent worker. What Delivery did not
finish stays in `match_events` and is picked up by the next tick. Discovery writes
schedules only, never scores. A follow runs Discovery inside an API request, with a
client that all requests of the process share. Registration decides which devices
Delivery may find; the push lifecycle decides which account a browser is registered for;
muting on the match page removes targets from Delivery. The pages share one table of
subscriptions with every other device of the user: the search page follows, the settings
page unfollows and saves preferences, the dashboard and the match page read. Before an
instance delivers anything it installs the delivery ledgers, while others may be recording
events or be at the same upgrade.

**What is hard here.** Delivery calls may overlap and may be repeated, and the push
service may accept what was never acknowledged. Redis, the row and the ledger are written
one after the other and a failure between them changes the next diff. The provider tells
a goal before it tells the scorer, takes goals back, and leaves fixtures out of feeds. The
budget is shared by instances that see each other only through advisory locks. A coroutine
that awaits in the API process lets another one clear its shared feeds. In the browser,
answers come after what asked for them has been cancelled, and an optimistic change is
taken back when another one has been made since. `PROJECT.json` lists each of
these at its line under `hazards`.

## 2. Modules

| Module | Models | Used by |
|---|---|---|
| `AlertLedger` | the promise of Delivery: an alert of a device is opened, settled once, and counted | refined by `Delivery` |
| `Delivery` | `deliver_event_notification` step by step, for concurrent calls | extended by `Deployment`; `MCDelivery`, `DeliveryProofs` |
| `Deployment` | instances that install the ledgers and then deliver; implements `Delivery` | `MCDeployment`, `DeliveryProofs` |
| `Detection` | one match: provider, stored date feed, diff, ledger, Redis, row, jobs, retry | `MCDetection`, `DetectionProofs` |
| `PollSchedule` | policy, window query, feeds and clock | `MCPollSchedule`, `PollScheduleProofs` |
| `Discovery` | pass and follows over shared clients | `MCDiscovery`, `DiscoveryProofs` |
| `RequestBudget` | callers, processes, locks, pool, breaker, budget | `MCRequestBudget`, `BudgetProofs` |
| `DeviceRegistry` | one atomic decision per registration | refined by `PushRegistration`, extended by `PushLifecycle` |
| `PushRegistration` | the registration transaction, statement by statement | `PushRegistrationProofs` |
| `PushLifecycle` | tabs of one browser composed with the registry | `MCPushLifecycle`, `LifecycleProofs` |
| `Subscriptions` | the user's subscriptions on the server, changed here and elsewhere | extended by the pages |
| `MatchPage`, `SearchPage`, `SettingsPage`, `DashboardPage` | the four pages and the follow controller | composed by `Pages`; `PagesProofs` |

`DeviceRegistry` is used twice on purpose: `PushRegistration` is shown to implement it, so
that `PushLifecycle`, which composes it with the browser, need not model the locks again.

### State and actions against the code

*Delivery.* A worker's `pc` is its place in the loop: `Start` (load the event), `Resolve`
(`find_push_targets_for_event`, with preferences and mutes), `NextDevice`, `LockMatch` and
`LockEvent` (the two `FOR UPDATE`), then `SkipDevice` or one of `SendAccepted`,
`SendTerminal`, `SendExpired`, `SendRetry`, `SendLost`, then `CommitDevice`; after the loop
`Complete` or `GiveUp`. A *slot* is what a user would call one alert: the event itself for
goals and cards, match and type for kick-off and full-time, whose rows are fanned out to
both teams. `accepted` and `lost` are history: what the push service took for a slot and
device, and how many of those acceptances were left without a receipt (`SendLost`,
`Crash`). `simulated` is one of the terminal outcomes. Users edit follows, mutes and devices at any moment.

*Deployment.* A worker of Delivery is an instance: `Look` and `LockUpgrade` are the check
without and with the advisory lock, `Install` adds `delivered_at` and the tables, `Deliver`
is any step of Delivery for an event that is recorded and not yet stamped. `stamped` are the rows
whose `delivered_at` the upgrade set; those a call completed are Delivery's `delivered`, and
`delivered_at IS NOT NULL` is their union. Keeping them apart makes every step of Deployment
a step of Delivery or none. `Abort` is an instance that stops during the upgrade, `NextRun`
the next start.

*Detection.* The provider's side (`KickOff`, `Score`, `Book`, `PublishScorer`, `Disallow`,
`Postpone`, `Suspend`, `FullTime`) is external. `window` is where the clock stands to the row's
`starts_at`: `Open` and `Close` are the minutes going by, up to the fifteen before the kick-off and
past the six hours after it, and `Reschedule` is discovery moving the kick-off. `Selected` is the query
of `find_pollable_matches`, `Pollable` what `decide` makes of a selected row: past the six hours a live
row is given up too. A poller goes `Begin` (read rows), `Fetch`, `Detect`
(diff against Redis or the row), then per event `Emit` (insert with `ON CONFLICT`) and
`Notify`, then `SaveRedis` and `SaveRow` as separate steps, then `Retry` of the oldest
`Limit` pending rows. `HandOver` is `notify`: pollers in `Queueing` enqueue a job, whose id is
the event's, the others deliver on the spot; `RunJob` is the job, which may fail or be lost with
Redis. `StoreFeed` and `ExpireFeed` are the date feed in `sports_api_cache`, from which
`Obtain` may take a state older than the row. Keys are what
`dedup_key` builds: the goal itself when its scorer is known, its score otherwise. A fixture
carries sets of happenings; the order of the provider's list is that of the timeline, and `Nth`
is the goal of a set with a given rank in it, so that `candidates[-delta:]` are the ranks after
`skipped`. `told` counts alerts for each real goal and is history.

*PollSchedule.* Time is counted in units. `BeginTick` reads rows and clock and decides;
`AskLive` and `AskDate` obtain a feed or are denied; each due fixture is then updated from
a feed, marked, passed over, or raises. `Advance` is the clock, which may also move during
a tick and without one (the cron lock of an overlapping run). `behind` counts the units in which
a row went without the provider's status although a run had served it, by filling it or by leaving
it until its interval is over (`served`); a unit without a run, or whose run failed for the
fixture, does not count. Both are history.

*Discovery.* A job is the pass of the worker or a follow. `AskDate` and `Arrive`/`Refused`
are the two sides of the await inside `get_team_fixtures`; between them another follow in
the same process may run `begin_fixture_discovery` and clear the feeds. `Upsert` stores
one fixture, `EndTeam` marks the team.

*RequestBudget.* `Lookup`, `TryLock`, `Recheck`, then the fetch: `LockForReserve`,
`Reserve`, `Get`, `LockForReconcile`, `Reconcile`, retries, `Store`. Every database call
needs a connection; the cache lock keeps one while the fetch asks for another.

*PushRegistration.* One step per statement: two advisory locks, owner, existing row,
count, insert. Deletes take no lock.

*PushLifecycle.* Per tab, a resynchronization, an enabling and a change of account may be
in progress at once; requests of the browser reach the server later (`Serve`).

*The pages.* One action per callback, and per request one for the server and one for the
answer; versions are those of `createLatestRequest`, of the search controller and of the
follow controller. *MatchPage* polls and mutes, *SearchPage* searches and follows with a
rollback, *SettingsPage* saves a preference or unfollows, one change of a row at a time, and shows
it when it is acknowledged, *DashboardPage* refreshes on interval, focus and button. `Pages` lets the user go from page to page while
answers of the earlier visit are still on their way, and another device of the same
user changes the subscriptions.

## 3. Runs

Every run finishes in less than three minutes with two workers.

| Run | States | Asks |
|---|---|---|
| `delivery` | 732 k | over an upgrade by two instances: history stays silent; at most one send per slot and device open at once; alerts at most once plus lost answers; one outcome; completion justified; implements `AlertLedger` |
| `delivery_live` | 51 k | every event is processed in the end; a device left to retry keeps its event pending |
| `detection` | 5.1 M | no goal alerted twice, none missed undisturbed, none made up |
| `detection_live` | 334 k | final state reached and full-time for both teams, unless the recovery horizon passes first; nothing pending for ever; with failures, lost jobs, stale feeds, moved kick-offs, a queueing and a cron poller |
| `detection_repeat` | – | finding 1 |
| `detection_missed` | – | finding 2 |
| `registration` | 14 k | device limit, one owner, every request answered, implements `DeviceRegistry` |
| `lifecycle` | 1.5 M | no browser subscription belongs to an account other than the one signed in |
| `budget` | 357 k | limit and reserve, no double charge, no needless fetch, answered unless the pool is drained |
| `schedule` | 925 k | the two windows agree, changes noticed within the interval, feeds shared |
| `discovery` | 416 k | marked only when complete, a date asked once, everything stored in the end |
| `pages` | 1.5 M | acknowledged mute stays shown, no indicator stuck, results answer the query, marks of a follow honest, a saved preference kept, the dashboard never goes back |

Every property of a passing run has a mutant in `PROJECT.json`: a definition changed the way
a plausible bug would change the code, under which the run finds the property violated. The
mutated operators stand in the modules directly before the definitions they replace and
are used by nothing else.

**Bounds, and why they suffice.**
- `delivery`: two instances over the two team events of one kick-off, on a database with
  none or the first part of the schema, two devices of one user of which one is registered
  later, one fault, one edit. Two calls are enough for every conflict the locks decide, which
  are all between pairs; the fan-out needs two events, a later device needs the edit. `Abort`
  needs no bound, as it leads back to the start. `delivery_live` adds a goal, keeps two
  calls and every answer of the push service, and has one device, the schema in place and
  no edits: what it promises begins after the users' last change.
- `detection`: two goals of one side and a card of the other, discovery before kick-off or
  with a goal on the score. Two goals are what it takes for a poll with a score gap of two and one known scorer, and for a score
  reached a second time. The hazards allowed are cache losses, disallowed goals
  and suspensions; failing notifications, crashes and stale feeds make a second alert of a goal
  possible (section 4) and belong to the next two runs.
- `detection_live`: one goal; a crash or a moved kick-off, failing deliveries, cache losses,
  suspensions, postponements and date feeds stored at any earlier moment. The match is found before
  its window, in it or past it, and the window opens and closes at any step. With
  two of them, a crash and a move among them, TLC confirms the same three properties (527 k states,
  three and a half minutes). One poller queues and one delivers, and the batch
  of pending rows, 500 in the code, is one, so that most rows wait for another's.
- `registration`: three endpoints against a limit of two; the proofs cover all sizes.
- `lifecycle`: two tabs, two accounts, two endpoints, a registry of one device per account.
- `budget`: limit 2 with a reserve of 1, two callers, one retry, a breaker of two failures,
  two connections, one foreign request. At the limit after one request, every order of the
  last reservations happens, and two callers drain the pool.
- `schedule`: intervals 2, 3 and 4, a window of 1, a match of 2, grace 1, recovery 6, a day
  of 8 units. The intervals are ordered as in `config.py`, and so are the ends of the stages, so
  that every stage of `decide` is reached; a window and an interval are not (15 minutes exceed the
  3 of a live match, 1 unit does not exceed 2). Two of each of the troubles and moves.
- `discovery`: two teams that meet tomorrow, one of them also playing today, a third date
  beyond the plan, one crash.
- `pages`: two visits, to any two pages or to the same one twice; one team, two queries; three
  reads, two mutes, three searches, two follows, two saves and three refreshes; one
  change on another device and one mute elsewhere. Three overlapping requests are what it
  takes for an answer older than the one shown, and two visits for an answer that outlives its page.

Deadlock is checked except where the system may really stop: when all events are delivered
(`delivery`), after the final whistle (`detection`), when the pool is drained (`budget`), and at the last
of the bounded visits (`pages`).

**Fairness.** `delivery_live`: undelivered events are taken up again and again, which the cron's
retry loop does every minute; a call whose next step is possible again and again takes it, as
PostgreSQL grants row locks in the order of the requests; a push service that is asked again
and again answers in the end; and crashes and lost answers are bounded. `detection_live`: a poller's steps go on,
a feed that is asked again and again is obtained again and again, a retry of
an event that is among the oldest again and again succeeds, an arq job that is queued again
and again runs to its end, a stored feed expires, and the window of
a known kick-off opens in time; nothing is assumed of its closing. `registration`: statements go on, and a lock that is free again and again is granted, as
PostgreSQL's queues do; a client need not ask. `budget`: a caller's steps go on, also for
connections, since asyncpg hands them out in order. `discovery`: the pass goes on, teams
become due again after six hours, and a request is not refused for ever. Nothing is assumed
of users, of the provider's matches, or of follows being retried.

## 4. Findings

1. **A goal can be alerted twice** (`detection_repeat`). If `notify` raises at
   `poller.py:82`, `process_fixture` ends before the new state is saved. The next poll
   diffs the goal again, and when its scorer was published in between its key is another
   one (`dedup_key.py:20` instead of `:29`). The architecture document (line 274) excludes
   it. In the cron, `notify` raises whenever a device fails retryably. A crash between the
   ledger row and the saved state has the same effect.
2. **A goal can be dropped as a duplicate** (`detection_missed`). Goals without details are
   keyed by the score they make. After a disallowed goal the same score is reached again
   and its key is already there. README.md:232-233 promises one event per score increase.

Five more observations, described here because the runs do not include them:
- With *two overlapping calls for one event*, the one that resolved its targets before a
  device was registered, and met no failure, completes the event while the other has just
  failed retryably for that device. The device is never tried again, against
  docs/push-delivery.md:18-19. It takes a device that is registered between two calls that
  overlap, which one cron run at a time, or arq's job id per event, makes rare;
  `delivery_live` checks `RetryableStaysPending` for recipients that stay the same.
- *Enabling notifications in one tab during a change of account in another* registers the
  browser for the account that leaves: between `registerSW.js:30` and `:36` the cleanup of
  the other tab finds no subscription, or an unregistered one. `PushLifecycle` has the constant
  `Overlap` for it; the run sets it to `FALSE`.
- After a *cache loss*, cards from before discovery are alerted: the baseline has no events
  and cards are not gated by the score (`diff.py:56`). The architecture document, section
  6, speaks of lifecycle events only.
- With a *date feed older than the row* a goal can be alerted twice too: told under its score,
  the row and Redis go back when the fixture leaves the live feed and is filled from the
  stored date feed (`poller.py:154`), and the goal is diffed again with its scorer. Adding
  `"stale"` to `Hazards` in `MCDetection.cfg` shows it. It contradicts the same lines of
  README.md as finding 2; the `detection` run leaves it out so that `NeverTwoAlertsForAGoal`
  speaks of the rest.
- The *cron's count of receipts* (`_receipt_count`, before its `try`) can raise inside the loop over
  pending rows, which logs it and goes on; the run then answers 200 although an event
  was not delivered, against README.md:227.

And a limitation the `budget` run shows as it stands: `AnsweredUnlessDrained` needs its
exception, since a fetch keeps the connection of its cache lock while it waits for one for
the reservation. With as many fetches of different keys as the pool has connections, none
goes on before the connection attempts time out.

And one that `detection_live` takes as it stands: past six hours after the kick-off a row is polled no
more, whether it is live (`polling_policy.py:25-26`) or suspended, postponed or otherwise
unfinished (`polling_policy.py:32-34`, `matches.py:24-25`). A match that is suspended for longer, or
that no poll reached until then, never gets its final state, and its full-time is never recorded
or alerted, unless discovery moves its kick-off. This is intended: README.md:169-170 states the
horizon and `test_intelligent_polling.py:33-36` asserts that nothing is polled past it. `FinalStateReached`
and `FullTimeForBoth` therefore except a match that is `GivenUp`: past the horizon with a row that is not
finished. They do not except one whose row got the result, nor anything before the horizon; and
`PendingDelivered` has no exception, since the retry of pending events does not ask for the row.

The hazards of the first two observations are listed in `PROJECT.json` without a property: no run
reaches them.

## 5. Proofs

TLAPS checks forty-two theorems, for any finite or infinite sets of workers, events, devices,
teams, users (Delivery, Deployment), any goals, cards, openings, pollers, disturbances and bounds
(Detection), any accounts and requests, finite sets of endpoints and any limit
(PushRegistration), any tabs, accounts and endpoints (PushLifecycle), any callers, processes, keys and
limits (RequestBudget), any constants of the policy (PollSchedule), any teams, fixtures and days
(Discovery), and any teams, queries and numbers of visits and requests (Pages). The assumptions are
the named `ASSUME`s of the modules, which say what the constants are and which TLC evaluates in the
runs, and in seven theorems one condition more, named below, that the runs' constants satisfy.

*`DeliveryProofs`.* `AtMostOncePlusLost` is not inductive: an acceptance could be counted on top of
one that left no trace. The invariant
`IInv == TypeOK /\ WorkerInv /\ LockInv /\ RecheckInv /\ IdInv /\ OneOutcome /\ CountInv`
closes the argument. `LockInv`: from the re-check to the commit a worker owns the event row
and, for lifecycle alerts, the match row, so that (`LockedSends`) no two workers send in one
slot. `RecheckInv`: hence what the re-check found, no outcome and not delivered, stays true
until the receipt. `IdInv`: ids of devices are not used again, so a new device starts from
zero. `CountInv`: an acceptance above the lost ones is matched by a receipt or by the
one open transaction. From it follow `TypeCorrect`, `Serialized`, `SingleOutcome`,
`AtMostOnce` and `FinalOutcome`, the last one an action property (`OutcomeIsFinal`) that is
proved only and no longer run.

The same module proves completion and the ledger from that invariant. `DoneInv`: a call that has
met no retryable failure finds each device it has gone past with an outcome or gone, or the event
completed by another call, and that stays so (`Lasting`): outcomes go only with their device, no device comes back under its id,
completed events stay completed. Hence `CompletionJustified`. `LedgerRefines` maps acceptances
whose receipt is not yet committed to the open alerts of `AlertLedger` (`OpenAlerts`): an
accepted send opens one, its commit records it and a crash loses it, a terminal answer refuses, edits of
devices forget and enroll, completion processes, and every other step of a call is a stutter.

`RetryableKept` speaks of `FairSpec`, Delivery after the users' last change, and uses its steps only.
`WholeInv`: whoever is to be told of a call's event is among the call's targets. With `DoneInv` a
call that completes an event therefore finds all of them settled, and no overlapping call
owes it to anyone (`NothingOwed`). With edits this is false (section 4).

Of Deployment, `DeploymentImplementsDelivery`: every step of an instance, upgrades
included, is a step of Delivery or leaves its variables alone, so that the theorems above hold
for it; `DeploymentAtMostOnce` is one of them. `HistorySilent` needs
`SilentInv == TypeOK /\ IdleInv /\ UpgradeInv`: until the upgrade everything recorded is historical
and no instance is ready; from then on the stamped rows are exactly the historical ones.

`WaitsAreShort`: the row of a match is locked before that of an event, completion locks the event
alone, and a locked row belongs to a call that is past it (`HeldInv`). So a call that waits for a row
waits for one at its device, or for one that waits for such a call, and PostgreSQL never has
a deadlock to break between them. This is what `EventuallyResolved` has of safety.

*`DetectionProofs`.* The first part is about the operators: what ranks, places and prefixes of a
timeline are, and that a diff is a `Batch`: its entries are about the goals of the fixture
beyond the score of the baseline, each once, and under different keys. The invariants follow the
data through the poll. `CoreInv` (`MatchInv`, `StoreInv`, `PollerInv`) types every variable and
says that what was fetched is a fixture that the provider has reported, and that nothing happens
before the kick-off, so that a postponed fixture, from which `diff_match` reads no event, has none to
miss; `DetectionTypes` follows. None of these theorems assumes anything of the window: they hold wherever
the clock stands and however often kick-offs move.
`NoneMadeUp`, with any pollers, feeds and failures: `PhantomInv`, every score that may become a
baseline counts the goals from before discovery, and every fixture has them first, so that no
entry is about them.

`OneAlertPerGoal` and `AllAlerted` assume `Undisturbed`: one poller, as the cron lock gives, and
none of the hazards `notify`, `crash` and `stale`, with which the first of them fails (section 4).
`OneInv` is what it takes that no goal is told by its score and later by its scorer, although
goals are taken back, the match suspended and the cache lost at any moment. `BaseInv`: row and
cache have the same score but between their writes, so that a loss of the cache changes no baseline
score. `ClosedInv`: a fixture has no later goal without the earlier ones that still stand.
`UntoldInv`: goals beyond the row's score have not been told. `ToldInv` and `QueueInv`: what was
told is in the fixture or taken back, and each goal is in the queue once. `CompleteInv` holds while
nothing is `blurred`: fixtures only grow (`GrowInv`), no key in the ledger is that of a goal still
to come, so that no entry is dropped as a duplicate (`KeyInv`; finding 2 is what happens without
it), and every goal the poller has seen is told or still in its queue (`AlertInv`, for cards
`CardInv`).

TLC confirmed these invariants on `MCDetection`, on a variant with two goals of different sides
and a third opening (5.5 million states), and `CoreInv` and `PhantomInv` with the two pollers of
`detection_live`.

*`PushRegistrationProofs`.* `IInv == RegistrationTypeOK /\ BusyInv /\ LockInv /\ OwnerInv /\
RoomInv /\ DeviceLimit /\ OneOwner`. The count is read before the insert, and rows are deleted
without a lock in between; `RoomInv` says that at the insert the account has room for the
endpoint whether or not its row is still there, which is why a refresh of a row deleted
meanwhile cannot exceed the limit. `OwnerInv`: under the endpoint lock nobody else has got
the endpoint. Theorems `RegistrationTypeCorrect`, `WithinDeviceLimit`, `SingleOwner`, and
`RegistrationRefines`: every statement is a step of `DeviceRegistry` or a stutter, the insert
being the decision. `WaitsAreShort`: account before endpoint never makes a circle of waiting
requests, since by its `HeldInv` whoever has an account's lock asks for an endpoint's and
nobody does the reverse; it is the safety of `RegistrationAnswered`.

*`BudgetProofs`.* `IInv == TypeOK /\ KeyInv /\ LockInv /\ HeaderInv /\ CountInv /\ low <= spent
/\ WithinBudget /\ NoDoubleCharge`. `LockInv`: who has read the units in use holds the budget's lock,
so what it read is still true when it writes; `BudgetKept` follows. `ChargedOnce` is the subtle one:
the baseline is compared with the provider's count at some earlier answer. `CountInv` bounds that
count by the reservations that are no longer under way (a finite set of callers) and the foreign
requests, and `HeaderInv` says no header is ahead of the provider. `NoneFetchesFresh` has an invariant of its own,
`CacheInv`: from the re-check on a fetch holds the lock of its key, and only the holder stores.
`BudgetTypeCorrect` is the type invariant. `OnlyThePoolStalls`, the safety of
`AnsweredUnlessDrained`: the holder of a lock is at work under it (`AtWorkInv`) and a connection is
in use only by a transaction or a locked key (`PoolInv`, which counts them against the pool). If
nobody could go on, the budget's lock would be free, so all would wait for a connection, and
those that have one would be fetches that need a second: the drained pool.

*`PollScheduleProofs`.* `SameWindows`: the SQL window and the Python stages, compared for any
constants, from the invariant that clock and kick-offs are numbers. The remaining gap, a
match still live after the recovery horizon, is read but never decided upon. `FeedsShared`: what a
tick obtained is in the cache since the tick began (`ObtainedInv`), and while it is fresh nobody asks
again. It assumes that a low priority does not accept only younger answers than the others
(`LiveInterval <= DiscoveryRefresh`: three minutes and six hours in `config.py`).

`ChangesNoticed` adds up how old a decision, a feed and a tick may each be. `StaleInv`: an answer
with the wrong status is at least as old as the fixture's wait. `HeldInv`: a tick that holds one for
a fixture still to be served found it fresh, so that the wait is shorter than a feed may be old.
`CheckedInv`: hence, when a row was filled, its wait is less than that age and the time since.
`ServedInv`: a row that still waits after it was served has room for another unit. Together with
types and the bound they are `WaitInv`, which TLC confirmed on the run, and for one fixture with
five troubles and three moves (4.1 million states). The theorem assumes `Ordered`, intervals that
grow with the distance from the match, as the defaults of `config.py` do and nothing enforces. The
bound is exact: with one unit less TLC finds it violated.

`ScheduleTypes` is the type invariant. It assumes finitely many fixtures, because those that a feed
leaves out are counted against the bound on troubles.

*`DiscoveryProofs`.* `MarkedStored` rests on `Collected`: a job that collects has the team's fixtures of
all dates behind it, and a job that stores and met no failure has those of all dates of the plan, or
they are stored. It holds although follows clear each other's feeds, since what a job has
collected is its own. It assumes `PlanFromToday`: the plan excludes late dates only, which
`get_team_fixtures` relies on when it takes the first excluded date for the last one worth asking.
`AskedOnce`: a date the pass has asked for is on its way, or its client has the feed, its error or an
earlier boundary (`Known`), and the worker's client is the pass's alone. `DiscoveryTypeCorrect` is
the type invariant.

*`LifecycleProofs`.* `NoneForeign` needs what each tab may still send: `ActInv`, the account changes only
when the browser has no subscription; `IssuedInv`, an endpoint that was not handed out is known to
nobody; and `OwnInv`, which is the property for the requests still on their way too: whatever is stored
or pending for the live subscription is of the account signed in. It assumes `~ Overlap`, as the
run does (section 4). `LifecycleTypes`, the type invariant, holds with overlapping tabs too: what is
subscribed, held or pending was handed out, and comes from nowhere else.

*`PagesProofs`.* A step of the composition is a step of one page or of another device (`Steps`), and
each page keeps an invariant of its own: the request it waits for is told by its version, which no
other request has, so an answer of an older one cannot be taken for it. From `TypingInv` follow
`IndicatorsHonest` and `ResultsHonest`; from `MatchInv` (while a mutation is on its way no read is
current) `MuteStaysShown`; from `DashInv` (the read awaited is not older than what was seen)
`DashboardMonotone`. `MarksHonest` speaks in one direction: what is marked as followed is stored, on its
way, or was unfollowed elsewhere since the page was opened. A stored team need not be marked, since a
follow may fail for the page after it was stored, and a new search shows every team unmarked. It
and `PreferencesStay` relate a page to rows that other
pages and devices change: `FollowInv` says that a follow of this page that was answered has its row,
or the row was taken away elsewhere, `SavingInv` and `KeptInv` that a row has one change on its
way, during which its value does not count as saved. `FollowKept` and `PreferenceKept` show that no
other step on the rows disturbs them. `PagesTypeCorrect` is the type invariant.

**Only model-checked:** everything under fairness (`EventuallyResolved`,
`FinalStateReached`, `FullTimeForBoth`, `PendingDelivered`, `RegistrationAnswered`,
`AnsweredUnlessDrained`, `EventuallyStored`), which the prover does not handle. Every other property
of a passing run is the statement of a theorem. The other way round, eight theorems state what no
run lists: `FinalOutcome`, `DeploymentImplementsDelivery`, the two `WaitsAreShort`,
`OnlyThePoolStalls`, `DiscoveryTypeCorrect`, `LifecycleTypes` and `ScheduleTypes`. TLC confirmed each of their statements on the instances of
the runs before it was proved.

## 6. What the models abstract

- Texts, icons and notification bodies are left out; teams, fixtures and endpoints are
  model values. Kick-off and full-time carry no details.
- Detection knows one match, which somebody follows. How often it is asked for is PollSchedule's:
  here a tick may find it not yet due at any time, which is a `Fetch` without an answer. The clock and
  the provider are independent, so that a match may also end before its window opens. A live feed is the present state; a stored date feed is any earlier
  one. `NeverTwoAlertsForAGoal` is checked with one poller, which the cron lock gives, and
  without stale feeds (section 4).
- Deployment: an instance of the earlier release records events but does not deliver in
  the model; what it sent is why `delivered_at` defaults to the time of the upgrade. The recheck
  under the lock and `IF NOT EXISTS` each suffice, and the mutant has to drop both.
- RequestBudget: the window of 24 hours does not move on, so that the limit is checked for one
  window; a key has one freshness; both callers share one process.
- PollSchedule: all fixtures are of one date; what it takes from a fixture is its status.
- Discovery: the provider's fixtures do not change; fixtures are not limited in number;
  the six hours pass at any time between two passes (`Age`).
- Delivery: a send that outlives its cancelled task (`web_push.py:98`) is counted by `Crash` as
  accepted and lost, at the moment of the crash. That it may be accepted later, when the locks are
  released and another worker sends, is not modelled; the documentation excludes it too
  (docs/push-delivery.md:41-42).
- Pages: the pages exclude each other, as the router does. One preference stands for the three,
  which the code treats alike. The run has one team: that a mark is that of its own team, and a saved
  preference that of its own row, is shown by `MarksHonest` and `PreferencesStay` for any number of
  teams. Every query finds every team, and the search answer
  never says `followed`, since the mark is what is in question. An answer of the dashboard is told apart
  by the version of the subscriptions it was read from. The not-found page and the timeline
  are left out.

## 7. Not modelled

Accounts and sign-up (one query and a unique constraint each), rate limits (the library's
fixed window), the body limit (one loop over one request), headers, the team search service (a
function of text), `polling_schema.py` (statements that may be repeated), the migration runner, the
run report (counters), arq itself (its jobs are in Detection, its orders and repetitions in
Delivery), rendering, the service worker, scripts and deployment. The repair of team names in
Discovery and the ageing of the 24 hours in RequestBudget are candidates below.

## 8. Plan

Written, in this order, the most important behaviour first: Delivery and its ledger,
Detection, PushRegistration and DeviceRegistry, PushLifecycle, RequestBudget, PollSchedule,
Discovery, the match and search pages; then the queue and older feeds in Detection, Deployment
on top of Delivery, Subscriptions with the settings page, the dashboard and following. Proofs
of Delivery with its refinement of the ledger and Deployment, of Detection, PushRegistration,
RequestBudget, PollSchedule, Discovery, the pages and PushLifecycle.

Next, to prove: that the reservations of RequestBudget, read, decided and written under a lock by
callers that crash in between, implement a budget that is charged in one step; that what Discovery
stores and what its clients keep is what the provider reported on that date.

Next, to extend the model: sends that outlive their worker in Delivery; team name repair in
Discovery; a window that ages in RequestBudget, and two processes in its run.

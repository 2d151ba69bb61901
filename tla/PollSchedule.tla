----------------------------- MODULE PollSchedule -----------------------------
(***************************************************************************)
(* When a followed fixture is refreshed, and from which feed: decide of     *)
(* app/workers/polling_policy.py, the query and the two updates of          *)
(* app/repositories/matches.py, and the tick of app/workers/poller.py as    *)
(* the minute-by-minute cron runs it.  Time is counted in units; all        *)
(* fixtures are of one date, so that a date feed is known by its priority.  *)
(* What is detected in a fixture is the business of Detection.              *)
(***************************************************************************)
EXTENDS Integers, FiniteSets

CONSTANTS
    Match,
    LiveInterval,        \* live_poll_interval_seconds, and the feeds' freshness
    PreMatchInterval,    \* pre_match_poll_interval_seconds
    UnresolvedInterval,  \* unresolved_poll_interval_seconds
    PreMatchWindow,      \* pre_match_window_minutes
    ExpectedMatch,       \* expected_match_minutes
    Grace,               \* post_match_grace_minutes
    Recovery,            \* status_recovery_hours
    DiscoveryRefresh,    \* fixture_discovery_refresh_seconds
    Kickoffs,            \* [Match -> SUBSET kickoff times discovery may store]
    Horizon,             \* bound on time
    MaxTroubles,         \* bound on missing fixtures, failures, skipped and slow runs
    MaxMoves,            \* bound on changes of a status or a kickoff
    Failed,              \* the result of a feed that was denied
    NoTime,              \* an unknown kickoff, a fixture never checked
    None

\* "scheduled" stands for every status that is neither live nor finished, the
\* exceptional ones included: the policy treats them alike.
Statuses == {"scheduled", "live", "finished"}

ASSUME ScheduleAssumption ==
    /\ {LiveInterval, PreMatchInterval, UnresolvedInterval} \subseteq Nat \ {0}
    /\ {PreMatchWindow, ExpectedMatch, Grace, Recovery} \subseteq Nat
    /\ {DiscoveryRefresh, Horizon, MaxTroubles, MaxMoves} \subseteq Nat
    /\ Kickoffs \in [Match -> SUBSET (Nat \cup {NoTime})]
    /\ NoTime \notin Int

VARIABLES
    now,
    actual,              \* the provider: status of each fixture
    start, row, checked, \* starts_at, status and last_checked_at of matches
    cache,               \* sports_api_cache of the live and the date feed
    pc, ticked,          \* the tick, and whether this unit has had its own
    at, due, live, dates,\* its clock reading, decisions left, feeds
    served, behind,      \* history: see Waiting below
    fetched,             \* history: feeds obtained from the provider this tick
    troubles, moves     \* bounded counters

world == <<now, actual>>
store == <<start, row, checked, cache>>
tick == <<pc, ticked, at, due, live, dates>>
history == <<served, behind, fetched>>
vars == <<world, store, tick, history, troubles, moves>>

Priorities == {"high", "medium", "low"}
Feeds == {"live", "date"}

----------------------------------------------------------------------------
(* The policy.                                                              *)

Decision(priority, reason, interval) ==
    [priority |-> priority, reason |-> reason, interval |-> interval]

Reasons == {"live", "unknown_kickoff", "unresolved_final_status", "near_kickoff",
            "active_window", "unresolved_start", "final_confirmation"}

Decisions == [priority : Priorities, reason : Reasons,
              interval : {LiveInterval, PreMatchInterval, UnresolvedInterval}]

ASSUME DecisionAssumption == None \notin Decisions

End(s) == s + ExpectedMatch + Grace

\* Which check a fixture of this status and kickoff deserves at time t.
Stage(status, s, t) ==
    IF status = "finished" THEN None
    ELSE IF s = NoTime
         THEN IF status = "live" THEN Decision("high", "live", LiveInterval)
              ELSE Decision("low", "unknown_kickoff", UnresolvedInterval)
    ELSE IF status = "live"
         THEN IF t > s + Recovery THEN None
              ELSE IF t <= End(s) THEN Decision("high", "live", LiveInterval)
              ELSE Decision("high", "unresolved_final_status", UnresolvedInterval)
    ELSE IF s > t + PreMatchWindow \/ s < t - Recovery THEN None
    ELSE IF t < s THEN Decision("high", "near_kickoff", PreMatchInterval)
    ELSE IF t <= s + PreMatchWindow THEN Decision("high", "active_window", LiveInterval)
    ELSE IF t <= s + ExpectedMatch THEN Decision("high", "unresolved_start", PreMatchInterval)
    ELSE IF t <= End(s) THEN Decision("medium", "final_confirmation", LiveInterval)
    ELSE Decision("high", "unresolved_final_status", UnresolvedInterval)

\* Mutant of Pollable: a window without its lower part for late answers.
PollableUntilEnd(status, s, t) ==
    \/ status = "live"
    \/ /\ status \notin {"live", "finished"}
       /\ s # NoTime => t - ExpectedMatch <= s /\ s <= t + PreMatchWindow

\* The WHERE clause of find_pollable_matches; every fixture here is followed.
Pollable(status, s, t) ==
    \/ status = "live"
    \/ /\ status \notin {"live", "finished"}
       /\ s # NoTime => t - Recovery <= s /\ s <= t + PreMatchWindow

Due(m, t) ==
    LET d == Stage(row[m], start[m], t)
    IN  IF /\ d # None
           /\ checked[m] # NoTime => t - checked[m] >= d.interval
        THEN d ELSE None

----------------------------------------------------------------------------
(* Feeds.  An answer names the status of the fixtures it lists.             *)

Answers == UNION {[S -> Statuses] : S \in SUBSET Match}

ASSUME FeedAssumption == {None, Failed} \cap Answers = {} /\ None \notin [time : Nat, answer : Answers]

LiveFixtures == {m \in Match : actual[m] = "live"}

Answer(S) == [m \in S |-> actual[m]]

\* Mutant of Fresh: a cached answer never ages.
FreshForever(feed, age) == cache[feed] # None

Fresh(feed, age) == cache[feed] # None /\ now - cache[feed].time < age

\* Mutant of DateAge: important fixtures do not read the cache.
DateAgeOfDiscovery(priority) == IF priority = "low" THEN DiscoveryRefresh ELSE 0

DateAge(priority) == IF priority = "low" THEN DiscoveryRefresh ELSE LiveInterval

LiveReason(d) == d.reason \in {"live", "active_window"}

Left == {m \in Match : due[m] # None}

Init ==
    /\ now = 0
    /\ actual = [m \in Match |-> "scheduled"]
    /\ start \in {s \in [Match -> UNION {Kickoffs[m] : m \in Match}] :
                    \A m \in Match : s[m] \in Kickoffs[m]}
    /\ row = actual
    /\ checked = [m \in Match |-> NoTime]
    /\ cache = [f \in Feeds |-> None]
    /\ pc = "idle" /\ ticked = FALSE /\ at = 0
    /\ due = [m \in Match |-> None]
    /\ live = None /\ dates = [p \in Priorities |-> None]
    /\ served = [m \in Match |-> FALSE] /\ behind = [m \in Match |-> 0]
    /\ fetched = [f \in Feeds |-> 0]
    /\ troubles = 0 /\ moves = 0

\* tick: the rows are read, the clock is read, and every row is decided upon.
BeginTick ==
    /\ pc = "idle" /\ ~ticked
    /\ ticked' = TRUE
    /\ due' = [m \in Match |->
                 IF Pollable(row[m], start[m], now) THEN Due(m, now) ELSE None]
    /\ at' = IF \A m \in Match : due'[m] = None THEN at ELSE now
    /\ served' = [m \in Match |-> due'[m] = None]
    /\ pc' = IF \A m \in Match : due'[m] = None THEN "idle"
             ELSE IF \E m \in Match : due'[m] # None /\ LiveReason(due'[m]) THEN "live"
             ELSE "fixtures"
    /\ UNCHANGED <<world, store, live, dates, behind, fetched, troubles, moves>>

\* n things go wrong.
Trouble(n) == troubles + n <= MaxTroubles /\ troubles' = troubles + n

\* _request: the cached answer while it is fresh, else one from the provider,
\* which may leave fixtures out, and which is cached.  In both cases the answer is
\* the one cached afterwards.
Obtain(feed, age, listed) ==
    \/ Fresh(feed, age) /\ UNCHANGED <<cache, fetched, troubles>>
    \/ /\ ~Fresh(feed, age)
       /\ \E omitted \in SUBSET listed :
            /\ Trouble(Cardinality(omitted))
            /\ cache' = [cache EXCEPT ![feed] = [time |-> now, answer |-> Answer(listed \ omitted)]]
       /\ fetched' = [fetched EXCEPT ![feed] = @ + 1]

\* A request that is skipped, or fails after its retries.
Denied(feed, age) == ~Fresh(feed, age) /\ Trouble(1) /\ UNCHANGED <<cache, fetched>>

\* The live feed, asked once for all fixtures.
AskLive ==
    /\ pc = "live"
    /\ pc' = "fixtures"
    /\ \/ Obtain("live", LiveInterval, LiveFixtures) /\ live' = cache'["live"].answer
       \/ Denied("live", LiveInterval) /\ live' = Failed
    /\ UNCHANGED <<world, start, row, checked, ticked, at, due, dates, served, behind, moves>>

Rank == [high |-> 0, medium |-> 1, low |-> 2]

\* The loop over what is due, most important first.
NextUp(m) ==
    /\ pc = "fixtures" /\ due[m] # None
    /\ \A n \in Left : Rank[due[m].priority] <= Rank[due[n].priority]

\* The live feed answered, and lists the fixture.
Listed(m) == live \notin {None, Failed} /\ m \in DOMAIN live

\* Only a fixture that should be in the live feed is given up with it.
GivenUp(m) == live = Failed /\ LiveReason(due[m])

\* The date feed, asked once for all fixtures of a priority.
AskDate(m) ==
    LET p == due[m].priority IN
    /\ NextUp(m) /\ ~Listed(m) /\ ~GivenUp(m) /\ dates[p] = None
    /\ \/ Obtain("date", DateAge(p), Match) /\ dates' = [dates EXCEPT ![p] = cache'["date"].answer]
       \/ Denied("date", DateAge(p)) /\ dates' = [dates EXCEPT ![p] = Failed]
    /\ UNCHANGED <<world, start, row, checked, pc, ticked, at, due, live, served, behind, moves>>

\* The fixture leaves the loop, and the last one ends the tick.
Leave(m) ==
    /\ due' = [due EXCEPT ![m] = None]
    /\ IF Left = {m}
       THEN /\ pc' = "idle" /\ at' = 0
            /\ live' = None /\ dates' = [p \in Priorities |-> None]
            /\ fetched' = [f \in Feeds |-> 0]
       ELSE UNCHANGED <<pc, at, live, dates, fetched>>
    /\ UNCHANGED <<world, start, cache, ticked, moves>>

\* process_fixture, which ends in update_match_state.
Update(m, status) ==
    /\ Leave(m)
    /\ row' = [row EXCEPT ![m] = status]
    /\ checked' = [checked EXCEPT ![m] = now]
    /\ behind' = IF status = actual[m] THEN [behind EXCEPT ![m] = 0] ELSE behind
    /\ served' = [served EXCEPT ![m] = TRUE]
    /\ UNCHANGED troubles

\* The row stays as it was, and the loop goes on to the next fixture.
Waste(m) ==
    /\ Leave(m)
    /\ UNCHANGED <<row, checked, served, behind>>

UpdateFromLive(m) == NextUp(m) /\ Listed(m) /\ Update(m, live[m])

\* The fixture is looked up in an answer of the date feed.
LooksUp(m) ==
    /\ NextUp(m) /\ ~Listed(m) /\ ~GivenUp(m)
    /\ dates[due[m].priority] \notin {None, Failed}

UpdateFromDate(m) ==
    /\ LooksUp(m) /\ m \in DOMAIN dates[due[m].priority]
    /\ Update(m, dates[due[m].priority][m])

\* Neither feed lists the fixture: mark_checked.
MarkChecked(m) ==
    /\ LooksUp(m) /\ m \notin DOMAIN dates[due[m].priority]
    /\ Leave(m)
    /\ checked' = [checked EXCEPT ![m] = now]
    /\ behind' = [behind EXCEPT ![m] = 0]
    /\ served' = [served EXCEPT ![m] = TRUE]
    /\ UNCHANGED <<row, troubles>>

\* The feed the fixture needs was denied.
PassOver(m) ==
    /\ NextUp(m) /\ ~Listed(m)
    /\ GivenUp(m) \/ dates[due[m].priority] = Failed
    /\ Waste(m) /\ UNCHANGED troubles

\* Processing the fixture raises: a notification, Redis or the database failed.
Raise(m) ==
    /\ NextUp(m)
    /\ \/ Listed(m)
       \/ LooksUp(m) /\ m \in DOMAIN dates[due[m].priority]
    /\ Waste(m) /\ Trouble(1)

Move == moves < MaxMoves /\ moves' = moves + 1

\* The provider's side, up to the final whistle.
Change(m) ==
    /\ actual[m] # "finished"
    /\ \E s \in Statuses \ {actual[m]} : actual' = [actual EXCEPT ![m] = s]
    /\ Move
    /\ behind' = [behind EXCEPT ![m] = 0]
    /\ UNCHANGED <<now, store, tick, served, fetched, troubles>>

\* upsert_match on a known fixture: discovery, between two ticks, moves the kickoff.
Reschedule(m) ==
    /\ pc = "idle"
    /\ \E s \in Kickoffs[m] \ {start[m]} : start' = [start EXCEPT ![m] = s]
    /\ Move
    /\ behind' = [behind EXCEPT ![m] = 0]
    /\ UNCHANGED <<world, row, checked, cache, tick, served, fetched, troubles>>

\* What the policy promises to keep up with: from the window before the kickoff
\* to the recovery horizon after it, and always while the kickoff is unknown.
Promised(m) ==
    /\ row[m] # "finished"
    /\ start[m] # NoTime => start[m] - PreMatchWindow <= now /\ now <= start[m] + Recovery

\* The row misses what the provider says, though it is promised.  "behind" counts
\* the units in which a row is waiting though a tick has served it, by filling it or
\* by leaving it until its interval is over: a unit without a tick, or whose tick
\* has not come to the fixture or was wasted on it, does not count.
Waiting(m) == Promised(m) /\ row[m] # actual[m]

\* Time passes, also once during a tick, and without a tick when the cron's run was
\* skipped, as the one that a running tick overlaps is.
Advance ==
    /\ now < Horizon
    /\ IF ticked /\ pc = "idle" THEN UNCHANGED troubles
       ELSE (pc # "idle" => at = now) /\ Trouble(1)
    /\ now' = now + 1
    /\ ticked' = (pc # "idle")
    /\ behind' = [m \in Match |-> IF ~Waiting(m) THEN 0
                                  ELSE IF served[m] THEN behind[m] + 1 ELSE behind[m]]
    /\ served' = [m \in Match |-> FALSE]
    /\ UNCHANGED <<actual, store, pc, at, due, live, dates, fetched, moves>>

\* The day is over: the model's horizon.
DayOver == now = Horizon /\ pc = "idle" /\ UNCHANGED vars

Next ==
    \/ BeginTick \/ AskLive \/ Advance \/ DayOver
    \/ \E m \in Match :
        \/ AskDate(m) \/ UpdateFromLive(m) \/ UpdateFromDate(m) \/ MarkChecked(m)
        \/ PassOver(m) \/ Raise(m) \/ Change(m) \/ Reschedule(m)

Spec == Init /\ [][Next]_vars

----------------------------------------------------------------------------
(* Properties.                                                              *)

Times == 0..Horizon

\* Type invariant.  A tick in progress has something left to do, and its clock is
\* at most one unit old.
TypeOK ==
    /\ now \in Times /\ actual \in [Match -> Statuses]
    /\ start \in [Match -> Nat \cup {NoTime}] /\ row \in [Match -> Statuses]
    /\ checked \in [Match -> Times \cup {NoTime}]
    /\ \A f \in Feeds : cache[f] # None => cache[f].time \in Times /\ cache[f].answer \in Answers
    /\ pc \in {"idle", "live", "fixtures"} /\ ticked \in BOOLEAN
    /\ at \in {now, now - 1} \/ pc = "idle"
    /\ due \in [Match -> Decisions \cup {None}] /\ (pc = "idle" <=> Left = {})
    /\ \A p \in Priorities : dates[p] \in Answers \cup {None, Failed}
    /\ live \in Answers \cup {None, Failed}
    /\ served \in [Match -> BOOLEAN] /\ behind \in [Match -> Nat] /\ fetched \in [Feeds -> Nat]
    /\ troubles \in 0..MaxTroubles /\ moves \in 0..MaxMoves

\* The window of the SQL query and the stages of the Python policy agree, though
\* neither is derived from the other: whatever the policy would check is read by
\* the query, and what the query reads without the policy ever checking it is a
\* match still live after the recovery horizon.
WindowsAgree ==
    \A m \in Match :
        LET stage == Stage(row[m], start[m], now)
            read == Pollable(row[m], start[m], now)
        IN  /\ stage # None => read
            /\ read /\ stage = None =>
                    row[m] = "live" /\ start[m] # NoTime /\ now > start[m] + Recovery

\* The README's intervals: every three minutes while live, at most every 15
\* before that, every 30 once the result is overdue or the kickoff unknown.
Interval(m) ==
    IF start[m] = NoTime THEN IF row[m] = "live" THEN LiveInterval ELSE UnresolvedInterval
    ELSE IF now > End(start[m]) THEN UnresolvedInterval
    ELSE IF row[m] = "live" THEN LiveInterval ELSE PreMatchInterval

\* The age of the oldest feed a row can have been filled from.
FeedAge(m) == IF start[m] = NoTime THEN DiscoveryRefresh ELSE LiveInterval

\* "Once kickoff is due, it checks every three minutes", with the other intervals
\* before and after it, up to the six hours: no order of changes, failing feeds,
\* stale cached feeds, new kickoffs and overlapping runs makes a row wait longer
\* than its interval and the age of the feed it was last filled from, in the runs
\* that did not fail for the fixture itself.
NoticedInTime == \A m \in Match : Waiting(m) => behind[m] < Interval(m) + FeedAge(m)

\* "Fixtures missing from the live feed use one shared request per date": one tick
\* obtains each feed at most once, though it asks per priority, unless the tick
\* lasts longer than a feed is fresh.
SharedFeeds == \A f \in Feeds : now - at < LiveInterval => fetched[f] <= 1
=============================================================================

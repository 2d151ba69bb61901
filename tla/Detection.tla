----------------------------- MODULE Detection -----------------------------
(***************************************************************************)
(* From a provider's account of one match to rows of the event ledger:      *)
(* process_fixture and the pending retry of app/workers/poller.py, the      *)
(* event detection of app/workers/diff.py, the keys of                      *)
(* app/workers/dedup_key.py, the ledger insert of                           *)
(* app/repositories/match_events.py, the state cache of                     *)
(* app/redis_client.py and the job queue of app/queue.py.  A poller is one  *)
(* running tick, of the persistent worker, which queues events for the      *)
(* notifier, or of a cron request, which delivers them itself.              *)
(***************************************************************************)
EXTENDS Integers, Sequences, FiniteSets

CONSTANTS
    Poller,
    Queueing,       \* pollers of the persistent worker
    Goal, Card,     \* what may happen in the match, each at most once
    Side,           \* happening -> "home" or "away"
    Openings,       \* what may have happened, and been published, at discovery
    Hazards,        \* which disturbances this instance admits
    Limit,          \* how many pending events a tick retries: 500 in the code
    MaxMishaps,     \* bound on crashes and moved kick-offs, together
    None

Sides == {"home", "away"}
AllHazards == {"notify", "crash", "redis", "disallow", "suspend", "stale", "window"}

\* "suspended" stands for every exceptional status of a match in progress, "postponed"
\* for those that come before the kick-off.
Statuses == {"scheduled", "postponed", "live", "suspended", "finished"}

\* Where the clock is against the row's starts_at: before the window that opens
\* pre_match_window_minutes ahead of it, in it, or status_recovery_hours past it.  A
\* row without a kick-off is always in it.
Windows == {"before", "open", "closed"}

\* A row of matches, and a state in the cache.
Rows == [status : Statuses, home : Nat, away : Nat]
States == [status : Statuses, home : Nat, away : Nat, events : SUBSET (Goal \cup Card)]

ASSUME DetectionAssumption ==
    /\ Queueing \subseteq Poller
    /\ Side \in [Goal \cup Card -> Sides]
    /\ Goal \cap Card = {}
    /\ Openings \subseteq Seq(Goal \cup Card)
    /\ \A s \in Openings : \A i, j \in DOMAIN s : s[i] = s[j] => i = j
    /\ Hazards \subseteq AllHazards
    /\ Limit \in Nat \ {0}
    /\ MaxMishaps \in Nat
    /\ None \notin Goal \cup Card
    /\ None \notin States

VARIABLES
    status, timeline, published, void,  \* the provider: what it reports next
    dated,          \* the date feed as stored in sports_api_cache, or None
    redis,          \* match:{id}:state, or None
    row,            \* status and score of the row of matches
    window,         \* its kick-off, as the clock stands to it
    ledger,         \* dedup keys of match_events, in the order of created_at
    delivered,      \* keys of events that were delivered
    jobs,           \* keys of events with a queued or running job
    pc, rowRead, snap, queue,           \* a poller's own state
    opening,        \* history: the timeline at discovery
    told,           \* history: fresh ledger rows standing for each goal
    blurred,        \* history: a cache loss, a disallowed goal, a suspension
    mishaps         \* bounded counter

provider == <<status, timeline, published, void>>
store == <<redis, row, ledger, delivered, jobs>>
poller == <<pc, rowRead, snap, queue>>
history == <<opening, told, blurred>>
vars == <<provider, dated, store, poller, history, mishaps, window>>

----------------------------------------------------------------------------
(* The provider's fixture, as normalize_fixture reads it.                   *)

Elements(s) == {s[i] : i \in DOMAIN s}

Standing(side) == {g \in Elements(timeline) : g \in Goal \ void /\ Side[g] = side}

\* The fixture as fetched.  The field "standing" is not part of it: it is kept
\* to know which real goal a score stands for.
Fixture ==
    [status |-> status,
     home |-> Cardinality(Standing("home")),
     away |-> Cardinality(Standing("away")),
     events |-> published \ void,
     standing |-> [side \in Sides |-> Standing(side)]]

\* The fixture lists what happened in the order of the timeline: the place of x in the
\* match, among the happenings of S, and the one with a given place.
Place(x) == CHOOSE i \in DOMAIN timeline : timeline[i] = x

Rank(S, x) == Cardinality({y \in S : Place(y) <= Place(x)})

Nth(S, n) == CHOOSE x \in S : Rank(S, x) = n

Kept(f) == [status |-> f.status, home |-> f.home, away |-> f.away, events |-> f.events]

RowOf(f) == [status |-> f.status, home |-> f.home, away |-> f.away]

----------------------------------------------------------------------------
(* diff_match and dedup_key.  A queue entry is the key of a ledger row and  *)
(* the real goal or card it stands for.                                     *)

Other(side) == IF side = "home" THEN "away" ELSE "home"

Entry(key, about) == [key |-> key, about |-> about]

\* Mutant of LifecycleEntries: no fan-out to the away team.
LifecycleEntriesHome(type) == <<Entry(<<type, "home">>, None)>>

\* _lifecycle, fanned out to both teams.
LifecycleEntries(type) ==
    <<Entry(<<type, "home">>, None), Entry(<<type, "away">>, None)>>

\* _new_events: published now and not in the baseline.
NewEvents(base, fixture, kind) == (fixture.events \ base.events) \cap kind

NewGoals(base, fixture, side) == {g \in NewEvents(base, fixture, Goal) : Side[g] = side}

\* Mutant of GoalEntries: every new detail is a goal, also one whose goal was
\* already told by its score.
GoalEntriesByDetail(base, fixture, side) ==
    LET delta == fixture[side] - base[side]
        new == NewGoals(base, fixture, side)
        known == Cardinality(new)
    IN  [i \in 1..(IF known > delta THEN known ELSE delta) |->
            Entry(IF i <= known
                  THEN <<"goal", Nth(new, i)>>
                  ELSE <<"goal", side, base[side] + i, fixture[Other(side)]>>,
                  IF i <= known THEN Nth(new, i) ELSE Nth(fixture.standing[side], base[side] + i))]

\* Mutant of GoalEntries: two goals of one poll get the key of the final score.
GoalEntriesByFinalScore(base, fixture, side) ==
    LET delta == fixture[side] - base[side]
        new == NewGoals(base, fixture, side)
        known == Cardinality(new)
        skipped == IF known > delta THEN known - delta ELSE 0
    IN  [i \in 1..delta |->
            Entry(IF skipped + i <= known
                  THEN <<"goal", Nth(new, skipped + i)>>
                  ELSE <<"goal", side, fixture[side], fixture[Other(side)]>>,
                  Nth(fixture.standing[side], base[side] + i))]

\* One goal per point scored since the baseline: by its scorer where one of the
\* latest new details is left for it, by the score it makes otherwise.
GoalEntries(base, fixture, side) ==
    LET delta == fixture[side] - base[side]
        new == NewGoals(base, fixture, side)
        known == Cardinality(new)
        skipped == IF known > delta THEN known - delta ELSE 0
    IN  [i \in 1..delta |->
            Entry(IF skipped + i <= known
                  THEN <<"goal", Nth(new, skipped + i)>>
                  ELSE <<"goal", side, base[side] + i, fixture[Other(side)]>>,
                  Nth(fixture.standing[side], base[side] + i))]

CardEntries(base, fixture) ==
    LET new == NewEvents(base, fixture, Card)
    IN  [i \in 1..Cardinality(new) |-> Entry(<<"card", Nth(new, i)>>, Nth(new, i))]

Diff(base, fixture) ==
    IF fixture.status \notin {"scheduled", "live", "finished"}
    THEN <<>>
    ELSE (IF base.status \in {"scheduled", "postponed"} /\ fixture.status = "live"
          THEN LifecycleEntries("kickoff") ELSE <<>>)
      \o (IF base.status # "finished" /\ fixture.status = "finished"
          THEN LifecycleEntries("full_time") ELSE <<>>)
      \o GoalEntries(base, fixture, "home")
      \o GoalEntries(base, fixture, "away")
      \o CardEntries(base, fixture)

----------------------------------------------------------------------------

\* Discovery has just inserted the match, with the fixture's status and score.
Init ==
    /\ opening \in Openings
    /\ timeline = opening
    /\ status = IF opening = <<>> THEN "scheduled" ELSE "live"
    /\ published = Elements(opening)
    /\ void = {}
    /\ dated = None
    /\ redis = None
    /\ row = RowOf(Fixture)
    /\ window \in IF "window" \in Hazards THEN Windows ELSE {"open"}
    /\ ledger = <<>>
    /\ delivered = {}
    /\ jobs = {}
    /\ pc = [p \in Poller |-> "idle"]
    /\ rowRead = [p \in Poller |-> None]
    /\ snap = [p \in Poller |-> None]
    /\ queue = [p \in Poller |-> <<>>]
    /\ told = [g \in Goal |-> 0]
    /\ blurred = FALSE
    /\ mishaps = 0

----------------------------------------------------------------------------
(* The match, as the provider tells it.                                     *)

KickOff ==
    /\ status \in {"scheduled", "postponed"}
    /\ status' = "live"
    /\ UNCHANGED <<dated, timeline, published, void, store, poller, history, mishaps, window>>

\* A goal counts at once; its scorer may be published with it or later.
Score(g) ==
    /\ status = "live"
    /\ g \notin Elements(timeline)
    /\ timeline' = Append(timeline, g)
    /\ published' \in {published, published \cup {g}}
    /\ UNCHANGED <<dated, status, void, store, poller, history, mishaps, window>>

Book(c) ==
    /\ status = "live"
    /\ c \notin Elements(timeline)
    /\ timeline' = Append(timeline, c)
    /\ published' = published \cup {c}
    /\ UNCHANGED <<dated, status, void, store, poller, history, mishaps, window>>

PublishScorer(g) ==
    /\ g \in Elements(timeline) \ published
    /\ g \notin void
    /\ status \in {"live", "suspended"}
    /\ published' = published \cup {g}
    /\ UNCHANGED <<dated, status, timeline, void, store, poller, history, mishaps, window>>

\* The referee takes a goal back.
Disallow(g) ==
    /\ "disallow" \in Hazards
    /\ status = "live"
    /\ g \in Elements(timeline) \ void
    /\ void' = void \cup {g}
    /\ blurred' = TRUE
    /\ UNCHANGED <<dated, status, timeline, published, store, poller, opening, told, mishaps, window>>

\* Before the kick-off, and until a new one is set.
Postpone ==
    /\ "suspend" \in Hazards
    /\ status' = CASE status = "scheduled" -> "postponed" [] status = "postponed" -> "scheduled"
                   [] OTHER -> status
    /\ status' # status
    /\ UNCHANGED <<dated, timeline, published, void, store, poller, history, mishaps, window>>

Suspend ==
    /\ "suspend" \in Hazards
    /\ status' = CASE status = "live" -> "suspended" [] status = "suspended" -> "live"
                   [] OTHER -> status
    /\ status' # status
    /\ blurred' = TRUE
    /\ UNCHANGED <<dated, timeline, published, void, store, poller, opening, told, mishaps, window>>

FullTime ==
    /\ status = "live"
    /\ status' = "finished"
    /\ UNCHANGED <<dated, timeline, published, void, store, poller, history, mishaps, window>>

ProviderStep ==
    \/ KickOff
    \/ \E g \in Goal : Score(g) \/ PublishScorer(g) \/ Disallow(g)
    \/ \E c \in Card : Book(c)
    \/ Postpone
    \/ Suspend
    \/ FullTime

----------------------------------------------------------------------------
(* A poller's tick, for this match.                                         *)

\* The minutes go by: the window opens, and one day it has closed.
Open == window = "before" /\ window' = "open" /\ UNCHANGED mishaps

Close == window = "open" /\ window' = "closed" /\ UNCHANGED mishaps

\* upsert_match, of a known fixture: discovery moves the kick-off, and nothing else.
Reschedule ==
    /\ mishaps < MaxMishaps /\ mishaps' = mishaps + 1
    /\ window' \in Windows \ {window}

Time ==
    /\ "window" \in Hazards
    /\ Open \/ Close \/ Reschedule
    /\ UNCHANGED <<provider, dated, store, poller, history>>

\* find_pollable_matches, of a match that is followed.
Selected ==
    \/ row.status = "live"
    \/ row.status # "finished" /\ window = "open"

\* Mutant of Pollable: the cached state decides, which is written first.
PollableByCache == Selected /\ window # "closed" /\ (redis = None \/ redis.status # "finished")

\* decide, of a selected row: past the recovery horizon a live match is given up too.
\* That it may not be due yet is a Fetch without an answer.
Pollable == Selected /\ window # "closed"

\* A match that is not to be polled is left to the retry of pending events.
Begin(p) ==
    /\ pc[p] = "idle"
    /\ pc' = [pc EXCEPT ![p] = IF Pollable THEN "fetch" ELSE "retry"]
    /\ rowRead' = [rowRead EXCEPT ![p] = IF Pollable THEN row ELSE None]
    /\ UNCHANGED <<provider, dated, store, snap, queue, history, mishaps, window>>

Obtain(p, fixture) ==
    /\ pc' = [pc EXCEPT ![p] = "diff"]
    /\ snap' = [snap EXCEPT ![p] = fixture]
    /\ UNCHANGED rowRead

\* The live feed; else the date feed as it is stored, or fetched and stored;
\* the fixture may be missing from both, or checked too recently to be due.
Fetch(p) ==
    /\ pc[p] = "fetch"
    /\ \/ /\ status \in {"live", "suspended"}
          /\ Obtain(p, Fixture)
          /\ UNCHANGED dated
       \/ /\ dated # None
          /\ Obtain(p, dated)
          /\ UNCHANGED dated
       \/ /\ dated = None
          /\ Obtain(p, Fixture)
          /\ dated' = IF "stale" \in Hazards THEN Fixture ELSE None
       \/ /\ pc' = [pc EXCEPT ![p] = "retry"]
          /\ rowRead' = [rowRead EXCEPT ![p] = None]
          /\ UNCHANGED <<snap, dated>>
    /\ UNCHANGED <<provider, store, queue, history, mishaps, window>>

\* Mutant of Detect: without a cached state the baseline is 0-0.
DetectFromZero(p) ==
    /\ pc[p] = "diff"
    /\ LET base == IF redis # None
                   THEN redis
                   ELSE [status |-> rowRead[p].status, home |-> 0, away |-> 0, events |-> {}]
       IN  queue' = [queue EXCEPT ![p] = Diff(base, snap[p])]
    /\ rowRead' = [rowRead EXCEPT ![p] = None]
    /\ pc' = [pc EXCEPT ![p] = "emit"]
    /\ UNCHANGED <<provider, dated, store, snap, history, mishaps, window>>

\* The cached state is the baseline, the row as read if there is none.
Detect(p) ==
    /\ pc[p] = "diff"
    /\ LET base == IF redis # None
                   THEN redis
                   ELSE [status |-> rowRead[p].status, home |-> rowRead[p].home,
                         away |-> rowRead[p].away, events |-> {}]
       IN  queue' = [queue EXCEPT ![p] = Diff(base, snap[p])]
    /\ rowRead' = [rowRead EXCEPT ![p] = None]
    /\ pc' = [pc EXCEPT ![p] = "emit"]
    /\ UNCHANGED <<provider, dated, store, snap, history, mishaps, window>>

\* Mutant of Emit: the event is queued for the workers before its row is there.
EmitEarly(p) ==
    /\ pc[p] = "emit"
    /\ queue[p] # <<>>
    /\ delivered' = delivered \cup {Head(queue[p]).key}
    /\ pc' = [pc EXCEPT ![p] = "notify"]
    /\ UNCHANGED <<provider, dated, redis, row, ledger, jobs, rowRead, snap, queue, history, mishaps, window>>

\* record_event_if_new: INSERT ... ON CONFLICT DO NOTHING.
Emit(p) ==
    LET entry == Head(queue[p]) IN
    /\ pc[p] = "emit"
    /\ queue[p] # <<>>
    /\ IF entry.key \in Elements(ledger)
       THEN /\ queue' = [queue EXCEPT ![p] = Tail(@)]
            /\ UNCHANGED <<pc, ledger, told>>
       ELSE /\ ledger' = Append(ledger, entry.key)
            /\ pc' = [pc EXCEPT ![p] = "notify"]
            /\ told' = [g \in Goal |-> IF g = entry.about THEN told[g] + 1 ELSE told[g]]
            /\ UNCHANGED queue
    /\ UNCHANGED <<provider, dated, redis, row, delivered, jobs, rowRead, snap, opening, blurred, mishaps, window>>

\* The events are queued for the notifier, each at most once, or delivered.
HandOver(p, keys) ==
    IF p \in Queueing
    THEN jobs' = jobs \cup keys /\ UNCHANGED delivered
    ELSE delivered' = delivered \cup keys /\ UNCHANGED jobs

Notify(p) ==
    /\ pc[p] = "notify"
    /\ HandOver(p, {Head(queue[p]).key})
    /\ queue' = [queue EXCEPT ![p] = Tail(@)]
    /\ pc' = [pc EXCEPT ![p] = "emit"]
    /\ UNCHANGED <<provider, dated, redis, row, ledger, rowRead, snap, history, mishaps, window>>

\* Leaving process_fixture early: the rest of the diff and the new state are
\* dropped.
CutShort(p, next) ==
    /\ pc' = [pc EXCEPT ![p] = next]
    /\ rowRead' = [rowRead EXCEPT ![p] = None]
    /\ snap' = [snap EXCEPT ![p] = None]
    /\ queue' = [queue EXCEPT ![p] = <<>>]

\* Direct delivery raises if a device failed, for now or for good, and queueing
\* raises if Redis cannot be reached; the tick goes on.
NotifyRaises(p) ==
    /\ pc[p] = "notify"
    /\ "notify" \in Hazards
    /\ HandOver(p, {Head(queue[p]).key}) \/ UNCHANGED <<delivered, jobs>>
    /\ CutShort(p, "retry")
    /\ UNCHANGED <<provider, dated, redis, row, ledger, history, mishaps, window>>

SaveRedis(p) ==
    /\ pc[p] = "emit"
    /\ queue[p] = <<>>
    /\ redis' = Kept(snap[p])
    /\ pc' = [pc EXCEPT ![p] = "save"]
    /\ UNCHANGED <<provider, dated, row, ledger, delivered, jobs, rowRead, snap, queue, history, mishaps, window>>

\* update_match_state.
SaveRow(p) ==
    /\ pc[p] = "save"
    /\ row' = RowOf(snap[p])
    /\ CutShort(p, "retry")
    /\ UNCHANGED <<provider, dated, redis, ledger, delivered, jobs, history, mishaps, window>>

\* Mutant of Retry: the pending events are left alone.
RetryNothing(p) ==
    /\ pc[p] = "retry"
    /\ pc' = [pc EXCEPT ![p] = "idle"]
    /\ UNCHANGED <<provider, dated, store, rowRead, snap, queue, history, mishaps, window>>

\* pending_events: the oldest rows that are not delivered.
Pending ==
    LET open == {i \in DOMAIN ledger : ledger[i] \notin delivered}
    IN  {ledger[i] : i \in {j \in open : Cardinality({k \in open : k < j}) < Limit}}

\* Each pending event is tried once more, and may fail again.
Retry(p) ==
    /\ pc[p] = "retry"
    /\ \E keys \in IF "notify" \in Hazards THEN SUBSET Pending ELSE {Pending} :
          HandOver(p, keys)
    /\ pc' = [pc EXCEPT ![p] = "idle"]
    /\ UNCHANGED <<provider, dated, redis, row, ledger, rowRead, snap, queue, history, mishaps, window>>

\* The notifier: a job that fails is not run again, and leaves no result that
\* would keep its event from being queued again (keep_result = 0).
RunJob(k) ==
    /\ k \in jobs
    /\ jobs' = jobs \ {k}
    /\ \/ delivered' = delivered \cup {k}
       \/ "notify" \in Hazards /\ UNCHANGED delivered
    /\ UNCHANGED <<provider, dated, redis, row, ledger, poller, history, mishaps, window>>

Crash(p) ==
    /\ "crash" \in Hazards
    /\ pc[p] # "idle"
    /\ mishaps < MaxMishaps /\ mishaps' = mishaps + 1
    /\ CutShort(p, "idle")
    /\ UNCHANGED <<provider, dated, store, history, window>>

\* The entry expires, or Redis restarts and its jobs are lost with it.
LoseCache ==
    /\ "redis" \in Hazards
    /\ redis # None \/ jobs # {}
    /\ redis' = None
    /\ jobs' \in {jobs, {}}
    /\ blurred' = TRUE
    /\ UNCHANGED <<provider, dated, row, ledger, delivered, poller, opening, told, mishaps, window>>

\* Another fixture of the day, or discovery, has the date feed fetched.
StoreFeed ==
    /\ "stale" \in Hazards
    /\ dated = None
    /\ dated' = Fixture
    /\ UNCHANGED <<provider, store, poller, history, mishaps, window>>

\* The stored feed is too old to be used.
ExpireFeed ==
    /\ dated # None
    /\ dated' = None
    /\ UNCHANGED <<provider, store, poller, history, mishaps, window>>

PollerStep(p) ==
    \/ Begin(p)
    \/ Fetch(p)
    \/ Detect(p)
    \/ Emit(p)
    \/ Notify(p)
    \/ NotifyRaises(p)
    \/ SaveRedis(p)
    \/ SaveRow(p)
    \/ Retry(p)

Next ==
    \/ ProviderStep
    \/ Time
    \/ LoseCache
    \/ StoreFeed
    \/ ExpireFeed
    \/ \E k \in jobs : RunJob(k)
    \/ \E p \in Poller : PollerStep(p) \/ Crash(p)

Spec == Init /\ [][Next]_vars

Delivers == delivered' # delivered

\* Ticks follow one another, a feed that is asked again and again has the fixture
\* again and again, the window opens, a stored feed grows old, and a push service that is
\* asked again and again does not fail forever.
Fairness ==
    /\ \A p \in Poller :
        /\ WF_vars(PollerStep(p))
        /\ SF_vars(Fetch(p) /\ pc'[p] = "diff")
    /\ WF_vars(ExpireFeed)
    /\ WF_vars(Time /\ Open)
    /\ SF_vars(((\E k \in jobs : RunJob(k)) \/ (\E p \in Poller : Retry(p))) /\ Delivers)

FairSpec == Spec /\ Fairness

----------------------------------------------------------------------------
(* Properties.                                                              *)

Keys ==
    {<<"goal", g>> : g \in Goal} \cup {<<"card", c>> : c \in Card}
        \cup ({"goal"} \X Sides \X Nat \X Nat) \cup ({"kickoff", "full_time"} \X Sides)

\* Every variable has its type.
TypeOK ==
    /\ status \in Statuses
    /\ timeline \in Seq(Goal \cup Card)
    /\ published \subseteq Goal \cup Card
    /\ void \subseteq Goal
    /\ row \in Rows
    /\ window \in Windows
    /\ redis \in States \cup {None}
    /\ Elements(ledger) \subseteq Keys
    /\ delivered \subseteq Elements(ledger)
    /\ jobs \subseteq Elements(ledger)
    /\ pc \in [Poller -> {"idle", "fetch", "diff", "emit", "notify", "save", "retry"}]
    /\ \A p \in Poller : \A e \in Elements(queue[p]) : e.key \in Keys
    /\ told \in [Goal -> Nat]
    /\ mishaps \in 0..MaxMishaps

\* architecture section 10: a user should never get two pushes for the same
\* goal.  With one poller whose notifications do not fail this holds, whether
\* the scorer is published with the goal or later, and after a cache loss, a
\* disallowed goal or a suspension.
NeverTwoAlertsForAGoal == \A g \in Goal : told[g] <= 1

Processed == redis = Kept(Fixture) /\ row = RowOf(Fixture)

\* Undisturbed, by the time the poller has caught up every goal scored since
\* discovery has its one alert, goals from before have none, and every card
\* has a row.
AlertsComplete ==
    ~ blurred /\ Processed =>
        /\ \A g \in Elements(timeline) \cap Goal :
              told[g] = IF g \in Elements(opening) THEN 0 ELSE 1
        /\ \A c \in Elements(timeline) \cap Card : <<"card", c>> \in Elements(ledger)

\* A disturbed poller may miss a goal; it never makes one up for a score that
\* was reached before discovery.
NoPhantomGoals ==
    void = {} => \A g \in Elements(opening) \cap Goal : told[g] = 0

\* The recovery horizon has passed before the row got the result: no tick asks for the
\* match any more, unless discovery moves its kick-off.
GivenUp == window = "closed" /\ row.status # "finished"

\* Full-time is in the end alerted for both teams, whatever failed between the two rows
\* and also when the match is polled no more, unless it has been given up.
FullTimeForBoth ==
    <>[](status = "finished" =>
            GivenUp \/ \A side \in Sides : <<"full_time", side>> \in delivered)

\* The row ends up with the final result: no overlapping poll, crash or cache
\* loss leaves the match live, and neither does a date feed that was stored
\* before the row was written and takes it back to an earlier state.  Only the
\* recovery horizon does, for a match still live, suspended or postponed in the row.
FinalStateReached == <>[](status = "finished" => GivenUp \/ row = RowOf(Fixture))

\* No recorded event stays undelivered, though its job failed, was lost with
\* Redis or was never queued: again and again nothing is pending.
PendingDelivered == []<>(delivered = Elements(ledger))

\* README: score increases produce one event per goal, also without details.
\* So the entry of a goal nobody was alerted of is not dropped as a duplicate.
EveryScoreIncreaseAlerted ==
    [][\A p \in Poller :
          /\ pc[p] = "emit" /\ queue[p] # <<>>
          /\ queue'[p] = Tail(queue[p])
          /\ Head(queue[p]).about \in Goal
          => told'[Head(queue[p]).about] >= 1]_vars
=============================================================================

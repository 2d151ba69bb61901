------------------------- MODULE PollScheduleProofs -------------------------
(* Theorems about PollSchedule, for every policy: any intervals, windows    *)
(* and recovery horizon, and any fixtures.                                  *)
EXTENDS PollSchedule, FiniteSetTheorems, TLAPS

\* The clock is a number, and a kickoff is a number or unknown.
ClockInv == now \in Nat /\ start \in [Match -> Nat \cup {NoTime}]

\* Time only passes, and discovery stores kickoffs it was given.
LEMMA ClockStep == ClockInv /\ [Next]_vars => ClockInv'
<1> SUFFICES ASSUME ClockInv, [Next]_vars PROVE ClockInv'
  OBVIOUS
<1> USE DEF ClockInv, world, store, tick
<1>1. CASE BeginTick
  BY <1>1 DEF BeginTick
<1>2. CASE AskLive
  BY <1>2 DEF AskLive
<1>3. CASE Advance
  BY <1>3 DEF Advance
<1>4. CASE DayOver \/ UNCHANGED vars
  BY <1>4 DEF DayOver, vars
<1>5. ASSUME NEW m \in Match, AskDate(m) PROVE ClockInv'
  BY <1>5 DEF AskDate
<1>6. ASSUME NEW m \in Match, UpdateFromLive(m) \/ UpdateFromDate(m) PROVE ClockInv'
  BY <1>6 DEF UpdateFromLive, UpdateFromDate, Update, Leave
<1>7. ASSUME NEW m \in Match, MarkChecked(m) PROVE ClockInv'
  BY <1>7 DEF MarkChecked, Leave
<1>8. ASSUME NEW m \in Match, PassOver(m) \/ Raise(m) PROVE ClockInv'
  BY <1>8 DEF PassOver, Raise, Waste, Leave
<1>9. ASSUME NEW m \in Match, Change(m) PROVE ClockInv'
  BY <1>9 DEF Change
<1>10. ASSUME NEW m \in Match, Reschedule(m) PROVE ClockInv'
  <2>1. PICK s \in Kickoffs[m] : start' = [start EXCEPT ![m] = s]
    BY <1>10 DEF Reschedule
  <2>2. s \in Nat \cup {NoTime}
    BY ScheduleAssumption
  <2> QED
    BY <1>10, <2>1, <2>2 DEF Reschedule
<1> QED
  BY <1>1, <1>2, <1>3, <1>4, <1>5, <1>6, <1>7, <1>8, <1>9, <1>10 DEF Next

\* What the policy decides is never the absence of a decision.
LEMMA Decided ==
    \A p \in Priorities, r \in Reasons,
       i \in {LiveInterval, PreMatchInterval, UnresolvedInterval} : Decision(p, r, i) # None
  BY DecisionAssumption DEF Decisions, Decision

\* The two windows, compared for one row.
LEMMA SameWindow ==
    ASSUME NEW status, NEW s \in Nat \cup {NoTime}, NEW t \in Nat
    PROVE  /\ Stage(status, s, t) # None => Pollable(status, s, t)
           /\ Pollable(status, s, t) /\ Stage(status, s, t) = None =>
                  status = "live" /\ s # NoTime /\ t > s + Recovery
<1> USE ScheduleAssumption
<1>0. NoTime \notin Nat
  OBVIOUS
<1>1. CASE status = "finished"
  BY <1>1 DEF Stage, Pollable
<1>2. CASE s = NoTime
  BY <1>1, <1>2, Decided DEF Stage, Pollable, Priorities, Reasons
<1>3. CASE status = "live" /\ s # NoTime
  BY <1>3, Decided DEF Stage, Pollable, Priorities, Reasons
<1>4. CASE status \notin {"live", "finished"} /\ s # NoTime
  <2>1. Pollable(status, s, t) <=> ~ (s > t + PreMatchWindow \/ s < t - Recovery)
    BY <1>4, <1>0 DEF Pollable
  <2>2. s > t + PreMatchWindow \/ s < t - Recovery => Stage(status, s, t) = None
    BY <1>4 DEF Stage
  <2>3. ~ (s > t + PreMatchWindow \/ s < t - Recovery) => Stage(status, s, t) # None
    BY <1>4, Decided DEF Stage, Priorities, Reasons
  <2> QED
    BY <2>1, <2>2, <2>3
<1> QED
  BY <1>1, <1>2, <1>3, <1>4

\* The query reads every row the policy would check, and beyond that only matches
\* still live after the recovery horizon, whatever the policy's constants are.
THEOREM SameWindows == Spec => []WindowsAgree
<1>1. Init => ClockInv
  BY ScheduleAssumption DEF Init, ClockInv
<1>2. ClockInv => WindowsAgree
  BY SameWindow DEF ClockInv, WindowsAgree
<1> QED
  BY <1>1, <1>2, ClockStep, PTL DEF Spec

----------------------------------------------------------------------------
(* Feeds.                                                                   *)

\* A feed that this tick obtained is in the cache since the tick began or later.
ObtainedInv == \A f \in Feeds : fetched[f] > 0 => cache[f] # None /\ cache[f].time >= at

CacheType ==
    /\ actual \in [Match -> Statuses]
    /\ cache \in [Feeds -> [time : Nat, answer : Answers] \cup {None}]
    /\ fetched \in [Feeds -> Nat]
    /\ now \in Nat /\ at \in Nat

FeedInv ==
    /\ CacheType /\ ObtainedInv /\ SharedFeeds
    /\ pc # "idle" => at <= now
    /\ pc = "idle" => \A f \in Feeds : fetched[f] = 0

\* A feed is obtained at most once while its answer stays fresh, by whatever priority
\* asks, when no priority accepts only younger answers than the others.
LEMMA ObtainOnce ==
    ASSUME FeedInv, pc # "idle", NEW feed \in Feeds, NEW age \in Nat, LiveInterval <= age,
           NEW listed \in SUBSET Match,
           Obtain(feed, age, listed) \/ Denied(feed, age), UNCHANGED <<now, at, actual>>
    PROVE  CacheType' /\ ObtainedInv' /\ SharedFeeds'
<1> USE ScheduleAssumption
<1>1. CASE UNCHANGED <<cache, fetched>>
  BY <1>1 DEF FeedInv, CacheType, ObtainedInv, SharedFeeds
<1>2. CASE ~ UNCHANGED <<cache, fetched>>
  <2>1. ~ Fresh(feed, age) /\ fetched' = [fetched EXCEPT ![feed] = @ + 1]
    BY <1>2 DEF Obtain, Denied
  <2>2. PICK omitted \in SUBSET listed :
             cache' = [cache EXCEPT ![feed] = [time |-> now, answer |-> Answer(listed \ omitted)]]
    BY <1>2 DEF Obtain, Denied
  <2> DEFINE new == [time |-> now, answer |-> Answer(listed \ omitted)]
  <2>3. Answer(listed \ omitted) \in Answers
    <3>1. Answer(listed \ omitted) \in [listed \ omitted -> Statuses]
      BY DEF FeedInv, CacheType, Answer
    <3> QED
      BY <3>1 DEF Answers
  <2>4. new \in [time : Nat, answer : Answers] /\ new # None /\ new.time = now
    BY <2>3, FeedAssumption DEF FeedInv, CacheType
  <2>5. cache' = [cache EXCEPT ![feed] = new]
    BY <2>2
  <2> HIDE DEF new
  <2>6. CacheType'
    BY <2>1, <2>4, <2>5 DEF FeedInv, CacheType
  <2>7. ObtainedInv'
    BY <2>1, <2>4, <2>5 DEF FeedInv, CacheType, ObtainedInv
  <2>8. now - at < LiveInterval => fetched[feed] = 0
    <3>1. cache[feed] # None => cache[feed].time \in Nat
      BY DEF FeedInv, CacheType
    <3> QED
      BY <2>1, <3>1 DEF FeedInv, CacheType, ObtainedInv, Fresh
  <2>9. SharedFeeds'
    BY <2>1, <2>8 DEF FeedInv, CacheType, SharedFeeds
  <2> QED
    BY <2>6, <2>7, <2>9
<1> QED
  BY <1>1, <1>2

\* A fixture that leaves the loop leaves the feeds alone, or ends the tick.
LEMMA LeaveFeeds ==
    ASSUME FeedInv, NEW m \in Match, NextUp(m), Leave(m)
    PROVE  FeedInv'
<1> USE DEF world
<1>1. UNCHANGED <<now, actual, cache>>
  BY DEF Leave
<1>2. CASE Left = {m}
  <2>1. pc' = "idle" /\ at' = 0 /\ fetched' = [f \in Feeds |-> 0]
    BY <1>2 DEF Leave
  <2> QED
    BY <1>1, <2>1, ScheduleAssumption DEF FeedInv, CacheType, ObtainedInv, SharedFeeds
<1>3. CASE Left # {m}
  BY <1>1, <1>3 DEF Leave, FeedInv, CacheType, ObtainedInv, SharedFeeds
<1> QED
  BY <1>2, <1>3

\* Every step keeps it.
LEMMA FeedStep ==
    ASSUME LiveInterval <= DiscoveryRefresh
    PROVE  FeedInv /\ [Next]_vars => FeedInv'
<1> SUFFICES ASSUME FeedInv, [Next]_vars PROVE FeedInv'
  OBVIOUS
<1> USE DEF world, store, tick
<1>1. CASE BeginTick
  <2>1. UNCHANGED <<now, actual, cache, fetched>> /\ pc = "idle" /\ at' \in {at, now}
    BY <1>1 DEF BeginTick
  <2>2. pc' # "idle" => at' = now
    BY <1>1 DEF BeginTick
  <2> QED
    BY <2>1, <2>2 DEF FeedInv, CacheType, ObtainedInv, SharedFeeds
<1>2. CASE AskLive
  <2>1. UNCHANGED <<now, at, actual>> /\ pc = "live" /\ pc' = "fixtures"
    BY <1>2 DEF AskLive
  <2>2. Obtain("live", LiveInterval, LiveFixtures) \/ Denied("live", LiveInterval)
    BY <1>2 DEF AskLive
  <2>3. "live" \in Feeds /\ LiveFixtures \in SUBSET Match /\ LiveInterval \in Nat
    BY ScheduleAssumption DEF Feeds, LiveFixtures
  <2>4. CacheType' /\ ObtainedInv' /\ SharedFeeds'
    BY <2>1, <2>2, <2>3, ObtainOnce
  <2> QED
    BY <2>1, <2>4 DEF FeedInv
<1>3. CASE Advance
  <2>1. UNCHANGED <<actual, cache, fetched, at, pc>> /\ now' = now + 1
    BY <1>3 DEF Advance
  <2> QED
    BY <2>1, ScheduleAssumption DEF FeedInv, CacheType, ObtainedInv, SharedFeeds
<1>4. CASE DayOver \/ UNCHANGED vars
  BY <1>4 DEF DayOver, vars, history, FeedInv, CacheType, ObtainedInv, SharedFeeds
<1>5. ASSUME NEW m \in Match, AskDate(m) PROVE FeedInv'
  <2>1. UNCHANGED <<now, at, actual, pc>> /\ pc = "fixtures"
    BY <1>5 DEF AskDate, NextUp
  <2>2. \E p : Obtain("date", DateAge(p), Match) \/ Denied("date", DateAge(p))
    BY <1>5 DEF AskDate
  <2>3. PICK p : Obtain("date", DateAge(p), Match) \/ Denied("date", DateAge(p))
    BY <2>2
  <2>4. DateAge(p) \in Nat /\ LiveInterval <= DateAge(p) /\ "date" \in Feeds
    BY ScheduleAssumption DEF DateAge, Feeds
  <2>5. CacheType' /\ ObtainedInv' /\ SharedFeeds'
    BY <2>1, <2>3, <2>4, ObtainOnce
  <2> QED
    BY <2>1, <2>5 DEF FeedInv
<1>6. ASSUME NEW m \in Match, UpdateFromLive(m) \/ UpdateFromDate(m) \/ MarkChecked(m) PROVE FeedInv'
  BY <1>6, LeaveFeeds DEF UpdateFromLive, UpdateFromDate, MarkChecked, LooksUp, Update
<1>7. ASSUME NEW m \in Match, PassOver(m) \/ Raise(m) PROVE FeedInv'
  BY <1>7, LeaveFeeds DEF PassOver, Raise, Waste
<1>8. ASSUME NEW m \in Match, Change(m) PROVE FeedInv'
  <2>1. UNCHANGED <<now, cache, fetched, at, pc>> /\ actual' \in [Match -> Statuses]
    BY <1>8 DEF Change, FeedInv, CacheType
  <2> QED
    BY <2>1 DEF FeedInv, CacheType, ObtainedInv, SharedFeeds
<1>9. ASSUME NEW m \in Match, Reschedule(m) PROVE FeedInv'
  BY <1>9 DEF Reschedule, FeedInv, CacheType, ObtainedInv, SharedFeeds
<1> QED
  BY <1>1, <1>2, <1>3, <1>4, <1>5, <1>6, <1>7, <1>8, <1>9 DEF Next

\* One tick obtains each feed at most once while it is fresh, whatever the fixtures,
\* their priorities and the failures of requests; the configuration must not refresh
\* the fixtures of a low priority more often than the others.
THEOREM FeedsShared ==
    ASSUME LiveInterval <= DiscoveryRefresh
    PROVE  Spec => []SharedFeeds
<1>1. Init => FeedInv
  <2> SUFFICES ASSUME Init PROVE FeedInv
    OBVIOUS
  <2>1. CacheType
    BY DEF Init, CacheType, Statuses
  <2> QED
    BY <2>1, ScheduleAssumption DEF Init, FeedInv, ObtainedInv, SharedFeeds
<1>2. FeedInv => SharedFeeds
  BY DEF FeedInv
<1>3. FeedInv /\ [Next]_vars => FeedInv'
  BY FeedStep
<1> QED
  BY <1>1, <1>2, <1>3, PTL DEF Spec

----------------------------------------------------------------------------
(* How long a row waits.                                                    *)

\* The intervals grow with the distance from the match, as in the defaults of the
\* configuration, which does not enforce it.
Ordered ==
    /\ LiveInterval <= PreMatchInterval
    /\ PreMatchInterval <= UnresolvedInterval
    /\ LiveInterval <= DiscoveryRefresh

\* An answer that lists a fixture with another status than the provider's.
Wrong(answer, m) == answer \notin {None, Failed} /\ m \in DOMAIN answer /\ answer[m] # actual[m]

WaitTypes ==
    /\ start \in [Match -> Nat \cup {NoTime}]
    /\ row \in [Match -> Statuses]
    /\ checked \in [Match -> Nat \cup {NoTime}]
    /\ served \in [Match -> BOOLEAN]
    /\ behind \in [Match -> Nat]
    /\ due \in [Match -> Decisions \cup {None}]
    /\ live \in Answers \cup {None, Failed}
    /\ dates \in [Priorities -> Answers \cup {None, Failed}]
    /\ pc = "idle" => live = None /\ dates = [p \in Priorities |-> None]

\* An answer is from the past, and from before a fixture's wait where it is wrong.
StaleInv ==
    \A f \in Feeds :
        cache[f] # None =>
            /\ cache[f].time <= now
            /\ \A m \in Match : Wrong(cache[f].answer, m) => behind[m] + cache[f].time <= now

\* A tick that still has to serve a fixture and holds a wrong answer for it found the
\* answer fresh.
HeldInv ==
    pc # "idle" =>
        \A m \in Match : due[m] # None =>
            /\ ~ served[m]
            /\ due[m].priority = "low" => start[m] = NoTime
            /\ Wrong(live, m) => behind[m] < LiveInterval
            /\ \A p \in Priorities : Wrong(dates[p], m) => behind[m] < DateAge(p)

\* A row that was filled has waited for no longer than since then and, before that,
\* the age of the feed.
CheckedInv ==
    \A m \in Match :
        checked[m] # NoTime =>
            checked[m] <= now /\ behind[m] < FeedAge(m) + (now - checked[m])

\* A row that is left waiting in this unit may wait for one more unit.
ServedInv ==
    \A m \in Match : served[m] /\ Waiting(m) => behind[m] + 1 < Interval(m) + FeedAge(m)

BoundInv == \A m \in Match : behind[m] < Interval(m) + FeedAge(m)

WaitInv ==
    /\ FeedInv
    /\ WaitTypes
    /\ StaleInv
    /\ HeldInv
    /\ CheckedInv
    /\ ServedInv
    /\ BoundInv

\* Intervals and ages are positive.
LEMMA AgeFacts ==
    ASSUME Ordered, WaitTypes, now \in Nat, NEW m \in Match
    PROVE  /\ Interval(m) \in Nat \ {0}
           /\ FeedAge(m) \in Nat \ {0}
           /\ LiveInterval <= FeedAge(m)
           /\ \A p \in Priorities : /\ DateAge(p) \in Nat \ {0}
                                    /\ (p = "low" => start[m] = NoTime)
                                          => DateAge(p) <= FeedAge(m)
  BY ScheduleAssumption DEF Ordered, WaitTypes, Interval, FeedAge, DateAge

\* A fixture's interval does not get shorter while time passes.
LEMMA IntervalGrows ==
    ASSUME Ordered, WaitTypes, now \in Nat, now' = now + 1, UNCHANGED <<start, row>>,
           NEW m \in Match
    PROVE  Interval(m) <= Interval(m)' /\ FeedAge(m)' = FeedAge(m)
<1>1. start[m] # NoTime => End(start[m]) \in Nat
  BY ScheduleAssumption DEF WaitTypes, End
<1> QED
  BY <1>1, ScheduleAssumption DEF Ordered, Interval, FeedAge, End

\* What the policy decides is one of its decisions, is due no later than the
\* interval, and is of low priority only without a kickoff; and what is promised it
\* never leaves undecided.
LEMMA StageFacts ==
    ASSUME Ordered, WaitTypes, now \in Nat, NEW m \in Match
    PROVE  LET d == Stage(row[m], start[m], now)
           IN  /\ d # None => /\ d \in Decisions
                              /\ d.interval \in Nat /\ d.interval <= Interval(m)
                              /\ d.priority = "low" => start[m] = NoTime
               /\ Waiting(m) => d # None
<1> USE ScheduleAssumption
<1> DEFINE s == start[m]
           d == Stage(row[m], s, now)
<1>0. NoTime \notin Nat /\ s \in Nat \cup {NoTime}
  BY DEF WaitTypes
<1>1. CASE row[m] = "finished"
  BY <1>1 DEF Stage, Waiting, Promised
<1>2. CASE row[m] # "finished" /\ s = NoTime
  BY <1>2, Decided DEF Stage, Interval, Decisions, Decision, Priorities, Reasons
<1>3. CASE row[m] = "live" /\ s # NoTime
  <2>1. CASE now > s + Recovery
    BY <1>0, <1>3, <2>1 DEF Stage, Waiting, Promised
  <2>2. CASE ~ (now > s + Recovery)
    <3>1. CASE now <= End(s)
      BY <1>0, <1>3, <2>2, <3>1, Decided DEF Stage, Interval, Decisions, Decision, Priorities, Reasons, End
    <3>2. CASE ~ (now <= End(s))
      BY <1>0, <1>3, <2>2, <3>2, Decided DEF Stage, Interval, Decisions, Decision, Priorities, Reasons, End
    <3> QED
      BY <3>1, <3>2
  <2> QED
    BY <2>1, <2>2
<1>4. CASE row[m] \notin {"live", "finished"} /\ s # NoTime
  <2>1. CASE s > now + PreMatchWindow \/ s < now - Recovery
    BY <1>0, <1>4, <2>1 DEF Stage, Waiting, Promised
  <2>2. CASE ~ (s > now + PreMatchWindow \/ s < now - Recovery)
    <3>1. d # None /\ d \in Decisions /\ d.interval \in Nat /\ d.priority # "low"
      BY <1>0, <1>4, <2>2, Decided DEF Stage, Decisions, Decision, Priorities, Reasons
    <3>2. d.interval <= Interval(m)
      BY <1>0, <1>4, <2>2 DEF Stage, Decision, Interval, End, Ordered
    <3> QED
      BY <3>1, <3>2
  <2> QED
    BY <2>1, <2>2
<1> QED
  BY <1>0, <1>1, <1>2, <1>3, <1>4

\* A feed as a tick obtains it is right, or found fresh; and the cache is as old as
\* its wrong answers.
LEMMA ObtainRight ==
    ASSUME WaitInv, UNCHANGED <<now, actual, behind>>, NEW feed \in Feeds, NEW age \in Nat,
           NEW listed \in SUBSET Match,
           Obtain(feed, age, listed) \/ Denied(feed, age)
    PROVE  /\ StaleInv'
           /\ Obtain(feed, age, listed) =>
                 \A m \in Match : Wrong(cache'[feed].answer, m) => behind[m] < age
<1>0. /\ now \in Nat /\ behind \in [Match -> Nat]
      /\ cache \in [Feeds -> [time : Nat, answer : Answers] \cup {None}]
  BY DEF WaitInv, FeedInv, CacheType, WaitTypes
<1>1. CASE UNCHANGED cache
  <2>1. StaleInv'
    BY <1>1 DEF WaitInv, StaleInv, Wrong
  <2>2. ASSUME Obtain(feed, age, listed), NEW m \in Match, Wrong(cache[feed].answer, m),
               Fresh(feed, age)
        PROVE  behind[m] < age
    <3>1. cache[feed] # None /\ now - cache[feed].time < age /\ cache[feed].time \in Nat
      BY <1>0, <2>2 DEF Fresh
    <3>2. behind[m] + cache[feed].time <= now
      BY <2>2, <3>1 DEF WaitInv, StaleInv
    <3> QED
      BY <1>0, <3>1, <3>2
  <2>3. ASSUME Obtain(feed, age, listed), ~ Fresh(feed, age)
        PROVE  \A m \in Match : ~ Wrong(cache'[feed].answer, m)
    <3>1. PICK omitted \in SUBSET listed :
             cache' = [cache EXCEPT ![feed] = [time |-> now, answer |-> Answer(listed \ omitted)]]
      BY <2>3 DEF Obtain
    <3>2. cache'[feed].answer = Answer(listed \ omitted)
      BY <1>0, <3>1
    <3> QED
      BY <3>2 DEF Wrong, Answer
  <2> QED
    BY <1>1, <2>1, <2>2, <2>3
<1>2. CASE ~ UNCHANGED cache
  <2>1. PICK omitted \in SUBSET listed :
             cache' = [cache EXCEPT ![feed] = [time |-> now, answer |-> Answer(listed \ omitted)]]
    BY <1>2 DEF Obtain, Denied
  <2>2. cache'[feed].answer = Answer(listed \ omitted)
    BY <1>0, <2>1
  <2>3. cache'[feed].time = now /\ \A m \in Match : ~ Wrong(cache'[feed].answer, m)
    BY <1>0, <2>1, <2>2 DEF Wrong, Answer
  <2>4. \A f \in Feeds : f # feed => cache'[f] = cache[f]
    BY <1>0, <2>1
  <2>5. StaleInv'
    BY <1>0, <2>3, <2>4 DEF WaitInv, StaleInv, Wrong
  <2> QED
    BY <2>3, <2>5
<1> QED
  BY <1>1, <1>2

\* What is obtained is an answer.
LEMMA ObtainAnswer ==
    ASSUME WaitInv, NEW feed \in Feeds, NEW age \in Nat, NEW listed \in SUBSET Match,
           Obtain(feed, age, listed)
    PROVE  cache'[feed].answer \in Answers
<1>1. /\ now \in Nat /\ actual \in [Match -> Statuses]
      /\ cache \in [Feeds -> [time : Nat, answer : Answers] \cup {None}]
  BY DEF WaitInv, FeedInv, CacheType
<1>2. CASE Fresh(feed, age)
  BY <1>1, <1>2 DEF Obtain, Fresh
<1>3. CASE ~ Fresh(feed, age)
  <2>1. PICK omitted \in SUBSET listed :
           cache' = [cache EXCEPT ![feed] = [time |-> now, answer |-> Answer(listed \ omitted)]]
    BY <1>3 DEF Obtain
  <2>2. cache'[feed].answer = Answer(listed \ omitted)
    BY <1>1, <2>1
  <2>3. Answer(listed \ omitted) \in [listed \ omitted -> Statuses]
    BY <1>1 DEF Answer
  <2> QED
    BY <2>2, <2>3 DEF Answers
<1> QED
  BY <1>2, <1>3

\* Obtaining the live feed.
LEMMA WaitAskLive ==
    ASSUME Ordered, WaitInv, FeedInv', AskLive
    PROVE  WaitInv'
<1>1. UNCHANGED <<now, actual, start, row, checked, due, dates, served, behind>>
      /\ pc = "live" /\ pc' = "fixtures"
  BY DEF AskLive, world
<1>2. /\ "live" \in Feeds /\ LiveInterval \in Nat /\ LiveFixtures \in SUBSET Match
      /\ Obtain("live", LiveInterval, LiveFixtures) \/ Denied("live", LiveInterval)
  BY ScheduleAssumption DEF AskLive, Feeds, LiveFixtures
<1>3. /\ StaleInv'
      /\ Obtain("live", LiveInterval, LiveFixtures) =>
            \A m \in Match : Wrong(cache'["live"].answer, m) => behind[m] < LiveInterval
  BY <1>1, <1>2, ObtainRight
<1>4. \/ live' = Failed
      \/ Obtain("live", LiveInterval, LiveFixtures) /\ live' = cache'["live"].answer
  BY DEF AskLive
<1>5. \A m \in Match : Wrong(live', m) => behind[m] < LiveInterval
  BY <1>3, <1>4 DEF Wrong
<1>6. HeldInv'
  BY <1>1, <1>5 DEF WaitInv, HeldInv, Wrong, DateAge
<1>7. WaitTypes'
  <2>1. live' \in Answers \cup {None, Failed}
    BY <1>2, <1>4, ObtainAnswer
  <2> QED
    BY <1>1, <2>1 DEF WaitInv, WaitTypes
<1>8. CheckedInv' /\ ServedInv' /\ BoundInv'
  BY <1>1 DEF WaitInv, CheckedInv, ServedInv, BoundInv, FeedAge, Interval, Waiting, Promised
<1> QED
  BY <1>3, <1>6, <1>7, <1>8 DEF WaitInv

\* Obtaining the date feed.
LEMMA WaitAskDate ==
    ASSUME Ordered, WaitInv, FeedInv', NEW n \in Match, AskDate(n)
    PROVE  WaitInv'
<1> DEFINE q == due[n].priority
           age == DateAge(q)
<1>1. UNCHANGED <<now, actual, start, row, checked, due, pc, live, served, behind>>
      /\ pc = "fixtures" /\ due[n] # None
  BY DEF AskDate, world, NextUp
<1>2. q \in Priorities
  BY <1>1 DEF WaitInv, WaitTypes, Decisions
<1>3. "date" \in Feeds /\ age \in Nat
  BY ScheduleAssumption DEF Feeds, DateAge
<1>4. \/ Denied("date", age) /\ dates' = [dates EXCEPT ![q] = Failed]
      \/ Obtain("date", age, Match) /\ dates' = [dates EXCEPT ![q] = cache'["date"].answer]
  BY DEF AskDate
<1> HIDE DEF q, age
<1>5. /\ StaleInv'
      /\ Obtain("date", age, Match) =>
            \A m \in Match : Wrong(cache'["date"].answer, m) => behind[m] < age
  BY <1>1, <1>3, <1>4, ObtainRight
<1>6. dates \in [Priorities -> Answers \cup {None, Failed}]
  BY DEF WaitInv, WaitTypes
<1>7. \A m \in Match : Wrong(dates'[q], m) => behind[m] < age
  BY <1>2, <1>4, <1>5, <1>6 DEF Wrong
<1>8. \A p \in Priorities : p # q => dates'[p] = dates[p]
  BY <1>4, <1>6
<1>9. HeldInv'
  <2>1. ASSUME NEW m \in Match, due[m] # None, NEW p \in Priorities, Wrong(dates'[p], m)
        PROVE  behind[m] < DateAge(p)
    <3>1. CASE p = q
      BY <1>7, <2>1, <3>1 DEF age
    <3>2. CASE p # q
      BY <1>1, <1>8, <2>1, <3>2 DEF WaitInv, HeldInv
    <3> QED
      BY <3>1, <3>2
  <2> QED
    BY <1>1, <2>1 DEF WaitInv, HeldInv, Wrong, DateAge
<1>10. dates' \in [Priorities -> Answers \cup {None, Failed}]
  <2>1. Obtain("date", age, Match) => cache'["date"].answer \in Answers
    BY <1>3, ObtainAnswer
  <2> QED
    BY <1>4, <1>6, <2>1
<1>11. WaitTypes'
  BY <1>1, <1>10 DEF WaitInv, WaitTypes
<1>12. CheckedInv' /\ ServedInv' /\ BoundInv'
  BY <1>1 DEF WaitInv, CheckedInv, ServedInv, BoundInv, FeedAge, Interval, Waiting, Promised
<1> QED
  BY <1>5, <1>9, <1>11, <1>12 DEF WaitInv

\* What happens to the other fixtures when one of them moves, in the provider's
\* account, in the row or in the loop.
Untouched(m) ==
    /\ actual'[m] = actual[m] /\ start'[m] = start[m] /\ row'[m] = row[m]
    /\ checked'[m] = checked[m] /\ served'[m] = served[m] /\ behind'[m] = behind[m]
    /\ due'[m] = due[m]

\* A fixture that is served, or starts to wait, within a unit: the others go on as
\* they were.
LEMMA WaitOne ==
    ASSUME Ordered, WaitInv, FeedInv', WaitTypes', UNCHANGED <<now, cache>>, NEW n \in Match,
           \A m \in Match \ {n} : Untouched(m),
           pc' # "idle" => pc # "idle" /\ UNCHANGED <<live, dates>>,
           \A f \in Feeds : cache[f] # None /\ Wrong(cache[f].answer, n)' =>
               behind'[n] + cache[f].time <= now,
           pc' # "idle" /\ due'[n] # None =>
               /\ due'[n] = due[n] /\ start'[n] = start[n] /\ ~ served'[n]
               /\ behind'[n] = 0 \/ (behind'[n] = behind[n] /\ actual'[n] = actual[n]),
           checked'[n] # NoTime =>
               checked'[n] <= now /\ behind'[n] < FeedAge(n)' + (now - checked'[n]),
           served'[n] /\ Waiting(n)' => behind'[n] + 1 < Interval(n)' + FeedAge(n)',
           behind'[n] < Interval(n)' + FeedAge(n)'
    PROVE  WaitInv'
<1> USE DEF Untouched
<1>1. StaleInv'
  BY DEF WaitInv, StaleInv, Wrong
<1>2. CheckedInv'
  BY DEF WaitInv, CheckedInv, FeedAge
<1>3. ServedInv'
  BY DEF WaitInv, ServedInv, FeedAge, Interval, Waiting, Promised
<1>4. BoundInv'
  BY DEF WaitInv, BoundInv, FeedAge, Interval
<1>5. HeldInv'
  <2> SUFFICES ASSUME pc' # "idle", NEW m \in Match, due'[m] # None
               PROVE  /\ ~ served'[m]
                      /\ due'[m].priority = "low" => start'[m] = NoTime
                      /\ Wrong(live, m)' => behind'[m] < LiveInterval
                      /\ \A p \in Priorities : Wrong(dates[p], m)' => behind'[m] < DateAge(p)
    BY DEF HeldInv, DateAge
  <2>1. \A p \in Priorities : DateAge(p) > 0
    BY ScheduleAssumption DEF DateAge, Ordered
  <2>2. CASE m = n
    <3>1. ~ served'[m] /\ (due'[m].priority = "low" => start'[m] = NoTime)
      BY <2>2 DEF WaitInv, HeldInv
    <3>2. CASE behind'[n] = 0
      BY <2>1, <2>2, <3>1, <3>2, ScheduleAssumption
    <3>3. CASE behind'[n] = behind[n] /\ actual'[n] = actual[n]
      <4>1. /\ Wrong(live, m)' => behind'[m] < LiveInterval
            /\ \A p \in Priorities : Wrong(dates[p], m)' => behind'[m] < DateAge(p)
        BY <2>2, <3>3 DEF WaitInv, HeldInv, Wrong
      <4> QED
        BY <3>1, <4>1
    <3> QED
      BY <2>2, <3>2, <3>3
  <2>3. CASE m # n
    <3>1. ~ served'[m] /\ (due'[m].priority = "low" => start'[m] = NoTime)
      BY <2>3 DEF WaitInv, HeldInv
    <3>2. /\ Wrong(live, m)' => behind'[m] < LiveInterval
          /\ \A p \in Priorities : Wrong(dates[p], m)' => behind'[m] < DateAge(p)
      BY <2>3 DEF WaitInv, HeldInv, Wrong
    <3> QED
      BY <3>1, <3>2
  <2> QED
    BY <2>2, <2>3
<1> QED
  BY <1>1, <1>2, <1>3, <1>4, <1>5 DEF WaitInv

\* A fixture's status or kickoff changes, which starts a new wait.
LEMMA WaitNews ==
    ASSUME Ordered, WaitInv, FeedInv', NEW n \in Match, Change(n) \/ Reschedule(n)
    PROVE  WaitInv'
<1>1. /\ UNCHANGED <<now, cache, row, checked, pc, due, live, dates, served>>
      /\ behind' = [behind EXCEPT ![n] = 0]
  BY DEF Change, Reschedule, world, store, tick
<1>2. WaitTypes
  BY DEF WaitInv
<1>3. start' \in [Match -> Nat \cup {NoTime}]
  <2>1. CASE Change(n)
    BY <1>2, <2>1 DEF Change, store, WaitTypes
  <2>2. CASE Reschedule(n)
    <3>1. PICK s \in Kickoffs[n] : start' = [start EXCEPT ![n] = s]
      BY <2>2 DEF Reschedule
    <3>2. s \in Nat \cup {NoTime}
      BY ScheduleAssumption
    <3> QED
      BY <1>2, <3>1, <3>2 DEF WaitTypes
  <2> QED
    BY <2>1, <2>2
<1>4. WaitTypes'
  BY <1>1, <1>2, <1>3 DEF WaitTypes
<1>5. behind'[n] = 0
  BY <1>1, <1>2 DEF WaitTypes
<1>6. \A m \in Match \ {n} : Untouched(m)
  <2>1. actual \in [Match -> Statuses]
    BY DEF WaitInv, FeedInv, CacheType
  <2> QED
    BY <1>1, <1>2, <2>1 DEF Untouched, WaitTypes, Change, Reschedule, world, store
<1>7. pc' # "idle" => start' = start
  BY <1>1 DEF Change, Reschedule, store
<1>8. now \in Nat /\ \A f \in Feeds : cache[f] # None => cache[f].time \in Nat
  BY DEF WaitInv, FeedInv, CacheType
<1>9. Interval(n)' \in Nat \ {0} /\ FeedAge(n)' \in Nat \ {0}
  BY <1>1, <1>4, <1>8, ScheduleAssumption DEF Ordered, WaitTypes, Interval, FeedAge
<1>10. \A f \in Feeds : cache[f] # None => behind'[n] + cache[f].time <= now
  BY <1>5, <1>8 DEF WaitInv, StaleInv
<1>11. checked'[n] # NoTime => checked'[n] <= now /\ behind'[n] < FeedAge(n)' + (now - checked'[n])
  <2>1. checked[n] # NoTime => checked[n] \in Nat /\ checked[n] <= now
    BY <1>2 DEF WaitTypes, WaitInv, CheckedInv
  <2> QED
    BY <1>1, <1>5, <1>8, <1>9, <2>1
<1>12. behind'[n] + 1 < Interval(n)' + FeedAge(n)' /\ behind'[n] < Interval(n)' + FeedAge(n)'
  BY <1>5, <1>9
<1>13. pc' # "idle" /\ due'[n] # None => due'[n] = due[n] /\ ~ served'[n]
  BY <1>1 DEF WaitInv, HeldInv
<1> QED
  BY <1>1, <1>4, <1>5, <1>6, <1>7, <1>10, <1>11, <1>12, <1>13, WaitOne

\* A fixture leaves the loop.
LEMMA LeaveKeeps ==
    ASSUME WaitInv, NEW n \in Match, NextUp(n), Leave(n)
    PROVE  /\ UNCHANGED <<now, actual, start, cache>>
           /\ due'[n] = None /\ \A m \in Match \ {n} : due'[m] = due[m]
           /\ due' \in [Match -> Decisions \cup {None}]
           /\ live' \in Answers \cup {None, Failed}
           /\ dates' \in [Priorities -> Answers \cup {None, Failed}]
           /\ pc' = "idle" => live' = None /\ dates' = [p \in Priorities |-> None]
           /\ pc' # "idle" => pc # "idle" /\ UNCHANGED <<live, dates>>
<1>1. due \in [Match -> Decisions \cup {None}] /\ due' = [due EXCEPT ![n] = None]
      /\ live \in Answers \cup {None, Failed}
      /\ dates \in [Priorities -> Answers \cup {None, Failed}]
  BY DEF WaitInv, WaitTypes, Leave
<1>2. pc = "fixtures"
  BY DEF NextUp
<1>3. \/ pc' = "idle" /\ live' = None /\ dates' = [p \in Priorities |-> None]
      \/ UNCHANGED <<pc, live, dates>>
  BY DEF Leave
<1> QED
  BY <1>1, <1>2, <1>3 DEF Leave, world

\* A row is filled, or marked as checked.
LEMMA WaitServe ==
    ASSUME Ordered, WaitInv, FeedInv', NEW n \in Match, NextUp(n), Leave(n),
           checked' = [checked EXCEPT ![n] = now],
           served' = [served EXCEPT ![n] = TRUE],
           row' \in [Match -> Statuses], \A m \in Match \ {n} : row'[m] = row[m],
           behind' \in {behind, [behind EXCEPT ![n] = 0]},
           behind'[n] < FeedAge(n)
    PROVE  WaitInv'
<1>1. /\ UNCHANGED <<now, actual, start, cache>>
      /\ due'[n] = None /\ \A m \in Match \ {n} : due'[m] = due[m]
      /\ due' \in [Match -> Decisions \cup {None}]
      /\ live' \in Answers \cup {None, Failed}
      /\ dates' \in [Priorities -> Answers \cup {None, Failed}]
      /\ pc' = "idle" => live' = None /\ dates' = [p \in Priorities |-> None]
      /\ pc' # "idle" => pc # "idle" /\ UNCHANGED <<live, dates>>
  BY LeaveKeeps
<1>2. WaitTypes /\ now \in Nat
  BY DEF WaitInv, FeedInv, CacheType
<1>3. behind' \in [Match -> Nat] /\ behind'[n] <= behind[n]
  BY <1>2 DEF WaitTypes
<1>4. WaitTypes'
  BY <1>1, <1>2, <1>3 DEF WaitTypes
<1>5. \A m \in Match \ {n} : Untouched(m)
  BY <1>1, <1>2 DEF Untouched, WaitTypes
<1>6. Interval(n)' \in Nat \ {0} /\ FeedAge(n)' \in Nat \ {0} /\ FeedAge(n)' = FeedAge(n)
  BY <1>1, <1>2, <1>4, ScheduleAssumption DEF Ordered, WaitTypes, Interval, FeedAge
<1>7. ASSUME NEW f \in Feeds, cache[f] # None, Wrong(cache[f].answer, n)
      PROVE  behind'[n] + cache[f].time <= now
  <2>1. cache[f].time \in Nat /\ behind[n] \in Nat /\ behind'[n] \in Nat
    BY <1>2, <1>3, <1>7 DEF WaitInv, FeedInv, CacheType, WaitTypes
  <2>2. behind[n] + cache[f].time <= now
    BY <1>7 DEF WaitInv, StaleInv
  <2> QED
    BY <1>2, <1>3, <2>1, <2>2
<1>8. checked'[n] = now
  BY <1>2 DEF WaitTypes
<1>9. behind'[n] < FeedAge(n)' + (now - now) /\ behind'[n] + 1 < Interval(n)' + FeedAge(n)'
      /\ behind'[n] < Interval(n)' + FeedAge(n)'
  BY <1>2, <1>3, <1>6
<1>10. \A f \in Feeds : cache[f] # None /\ Wrong(cache[f].answer, n)' =>
          behind'[n] + cache[f].time <= now
  BY <1>1, <1>7 DEF Wrong
<1> QED
  BY <1>1, <1>2, <1>4, <1>5, <1>8, <1>9, <1>10, WaitOne

\* An answer that is wrong about a fixture was fresh, so the row has not waited long.
LEMMA WaitUpdate ==
    ASSUME Ordered, WaitInv, FeedInv', NEW n \in Match, UpdateFromLive(n) \/ UpdateFromDate(n)
    PROVE  WaitInv'
<1> DEFINE q == due[n].priority
<1>1. NextUp(n) /\ Leave(n) /\ pc # "idle" /\ due[n] # None /\ q \in Priorities
  BY DEF UpdateFromLive, UpdateFromDate, LooksUp, NextUp, Update, WaitInv, WaitTypes, Decisions
<1>2. /\ WaitTypes /\ now \in Nat /\ actual \in [Match -> Statuses]
      /\ behind[n] \in Nat
  BY DEF WaitInv, FeedInv, CacheType, WaitTypes
<1>3. PICK answer : /\ answer \notin {None, Failed} /\ n \in DOMAIN answer /\ Update(n, answer[n])
                    /\ answer = live \/ answer = dates[q]
  BY DEF UpdateFromLive, UpdateFromDate, Listed, LooksUp
<1>4. Wrong(answer, n) => behind[n] < FeedAge(n)
  <2>1. /\ Wrong(live, n) => behind[n] < LiveInterval
        /\ Wrong(dates[q], n) => behind[n] < DateAge(q)
        /\ q = "low" => start[n] = NoTime
    BY <1>1 DEF WaitInv, HeldInv
  <2>2. FeedAge(n) \in Nat \ {0} /\ LiveInterval <= FeedAge(n) /\ DateAge(q) \in Nat
        /\ DateAge(q) <= FeedAge(n)
    BY <1>1, <1>2, <2>1, AgeFacts
  <2> HIDE DEF q
  <2> QED
    BY <1>2, <1>3, <2>1, <2>2, ScheduleAssumption
<1>5. /\ row' = [row EXCEPT ![n] = answer[n]] /\ checked' = [checked EXCEPT ![n] = now]
      /\ served' = [served EXCEPT ![n] = TRUE]
      /\ behind' = IF answer[n] = actual[n] THEN [behind EXCEPT ![n] = 0] ELSE behind
  BY <1>3 DEF Update
<1>6. answer[n] \in Statuses
  <2>1. answer \in Answers
    BY <1>1, <1>2, <1>3 DEF WaitTypes
  <2> QED
    BY <1>3, <2>1 DEF Answers
<1>7. row' \in [Match -> Statuses] /\ \A m \in Match \ {n} : row'[m] = row[m]
  BY <1>2, <1>5, <1>6 DEF WaitTypes
<1>8. behind'[n] < FeedAge(n) /\ behind' \in {behind, [behind EXCEPT ![n] = 0]}
  <2>1. FeedAge(n) \in Nat \ {0}
    BY <1>2, AgeFacts
  <2>2. CASE answer[n] = actual[n]
    BY <1>2, <1>5, <2>1, <2>2 DEF WaitTypes
  <2>3. CASE answer[n] # actual[n]
    <3>1. Wrong(answer, n)
      BY <1>3, <2>3 DEF Wrong
    <3> QED
      BY <1>4, <1>5, <2>3, <3>1
  <2> QED
    BY <2>2, <2>3
<1> QED
  BY <1>1, <1>5, <1>7, <1>8, WaitServe

\* A fixture that neither feed lists.
LEMMA WaitMark ==
    ASSUME Ordered, WaitInv, FeedInv', NEW n \in Match, MarkChecked(n)
    PROVE  WaitInv'
<1>1. /\ NextUp(n) /\ Leave(n) /\ row' = row
      /\ checked' = [checked EXCEPT ![n] = now]
      /\ served' = [served EXCEPT ![n] = TRUE]
      /\ behind' = [behind EXCEPT ![n] = 0]
  BY DEF MarkChecked, LooksUp
<1>2. WaitTypes /\ now \in Nat
  BY DEF WaitInv, FeedInv, CacheType
<1>3. behind'[n] = 0 /\ row' \in [Match -> Statuses]
  BY <1>1, <1>2 DEF WaitTypes
<1>4. behind'[n] < FeedAge(n)
  <2>1. FeedAge(n) \in Nat \ {0}
    BY <1>2, AgeFacts
  <2> QED
    BY <1>3, <2>1
<1> QED
  BY <1>1, <1>3, <1>4, WaitServe

\* A fixture the tick was wasted on has not been served.
LEMMA WaitWaste ==
    ASSUME Ordered, WaitInv, FeedInv', NEW n \in Match, PassOver(n) \/ Raise(n)
    PROVE  WaitInv'
<1>1. /\ NextUp(n) /\ Leave(n)
      /\ UNCHANGED <<row, checked, served, behind>>
  BY DEF PassOver, Raise, Waste
<1>2. /\ UNCHANGED <<now, actual, start, cache>>
      /\ due'[n] = None /\ \A m \in Match \ {n} : due'[m] = due[m]
      /\ due' \in [Match -> Decisions \cup {None}]
      /\ live' \in Answers \cup {None, Failed}
      /\ dates' \in [Priorities -> Answers \cup {None, Failed}]
      /\ pc' = "idle" => live' = None /\ dates' = [p \in Priorities |-> None]
      /\ pc' # "idle" => pc # "idle" /\ UNCHANGED <<live, dates>>
  BY <1>1, LeaveKeeps
<1>3. WaitTypes'
  BY <1>1, <1>2 DEF WaitInv, WaitTypes
<1>4. \A m \in Match \ {n} : Untouched(m)
  BY <1>1, <1>2 DEF Untouched
<1>5. \A f \in Feeds : cache[f] # None /\ Wrong(cache[f].answer, n)' =>
          behind'[n] + cache[f].time <= now
  BY <1>1, <1>2 DEF Wrong, WaitInv, StaleInv
<1>6. checked'[n] # NoTime =>
          checked'[n] <= now /\ behind'[n] < FeedAge(n)' + (now - checked'[n])
  BY <1>1, <1>2 DEF WaitInv, CheckedInv, FeedAge
<1>7. served'[n] /\ Waiting(n)' => behind'[n] + 1 < Interval(n)' + FeedAge(n)'
  BY <1>1, <1>2 DEF WaitInv, ServedInv, FeedAge, Interval, Waiting, Promised
<1>8. behind'[n] < Interval(n)' + FeedAge(n)'
  BY <1>1, <1>2 DEF WaitInv, BoundInv, FeedAge, Interval
<1> QED
  BY <1>2, <1>3, <1>4, <1>5, <1>6, <1>7, <1>8, WaitOne

\* A tick that begins leaves a row that is promised for less than its interval.
LEMMA WaitBegin ==
    ASSUME Ordered, WaitInv, FeedInv', BeginTick
    PROVE  WaitInv'
<1>1. /\ UNCHANGED <<now, actual, start, row, checked, cache, live, dates, behind>>
      /\ pc = "idle"
      /\ \A m \in Match :
            /\ due'[m] = IF Pollable(row[m], start[m], now) THEN Due(m, now) ELSE None
            /\ served'[m] = (due'[m] = None)
      /\ due' \in [Match -> Decisions \cup {None}] => served' \in [Match -> BOOLEAN]
  BY DEF BeginTick, world, store
<1>2. /\ WaitTypes /\ now \in Nat
      /\ start \in [Match -> Nat \cup {NoTime}]
  BY DEF WaitInv, FeedInv, CacheType, WaitTypes
<1>3. ASSUME NEW m \in Match
      PROVE  /\ due'[m] \in Decisions \cup {None}
             /\ due'[m] # None => (due'[m].priority = "low" => start[m] = NoTime)
  BY <1>1, <1>2, StageFacts DEF Due
<1>4. due' \in [Match -> Decisions \cup {None}]
  <2>1. due' = [m \in Match |-> IF Pollable(row[m], start[m], now) THEN Due(m, now) ELSE None]
    BY DEF BeginTick
  <2> QED
    BY <1>1, <1>3, <2>1
<1>5. live = None /\ dates = [p \in Priorities |-> None]
  BY <1>1, <1>2 DEF WaitTypes
<1>6. WaitTypes'
  BY <1>1, <1>2, <1>4, <1>5 DEF WaitTypes
<1>7. StaleInv' /\ CheckedInv' /\ BoundInv'
  BY <1>1 DEF WaitInv, StaleInv, Wrong, CheckedInv, BoundInv, FeedAge, Interval
<1>8. HeldInv'
  BY <1>1, <1>3, <1>5 DEF HeldInv, Wrong
<1>9. ASSUME NEW m \in Match, due'[m] = None, Waiting(m)
      PROVE  behind[m] + 1 < Interval(m) + FeedAge(m)
  <2> DEFINE d == Stage(row[m], start[m], now)
  <2>1. d # None /\ d.interval \in Nat /\ d.interval <= Interval(m)
    BY <1>2, <1>9, StageFacts
  <2>2. Pollable(row[m], start[m], now)
    BY <1>2, <2>1, SameWindow
  <2>3. checked[m] # NoTime /\ ~ (now - checked[m] >= d.interval)
    BY <1>1, <1>9, <2>1, <2>2 DEF Due
  <2>4. checked[m] \in Nat /\ checked[m] <= now /\ behind[m] \in Nat
        /\ behind[m] < FeedAge(m) + (now - checked[m])
    BY <1>2, <2>3 DEF WaitTypes, WaitInv, CheckedInv
  <2>5. Interval(m) \in Nat /\ FeedAge(m) \in Nat
    BY <1>2, AgeFacts
  <2> HIDE DEF d
  <2> QED
    BY <1>2, <2>1, <2>3, <2>4, <2>5
<1>10. ServedInv'
  BY <1>1, <1>9 DEF ServedInv, Waiting, Promised, Interval, FeedAge
<1> QED
  BY <1>6, <1>7, <1>8, <1>10 DEF WaitInv

\* Time passes: what has been served waits one unit more, which it may.
LEMMA WaitAdvance ==
    ASSUME Ordered, WaitInv, FeedInv', Advance
    PROVE  WaitInv'
<1>1. /\ UNCHANGED <<actual, start, row, checked, cache, pc, due, live, dates>>
      /\ now' = now + 1
      /\ behind' = [m \in Match |-> IF ~ Waiting(m) THEN 0
                                    ELSE IF served[m] THEN behind[m] + 1 ELSE behind[m]]
      /\ served' = [m \in Match |-> FALSE]
  BY DEF Advance, store
<1>2. WaitTypes /\ now \in Nat
  BY DEF WaitInv, FeedInv, CacheType
<1>3. ASSUME NEW m \in Match
      PROVE  /\ behind[m] \in Nat /\ behind'[m] \in Nat
             /\ behind'[m] <= behind[m] + 1
             /\ ~ served[m] => behind'[m] <= behind[m]
             /\ behind'[m] = behind[m] + 1 => served[m] /\ Waiting(m)
             /\ behind'[m] <= behind[m] \/ behind'[m] = behind[m] + 1
             /\ served'[m] = FALSE
  <2>1. behind[m] \in Nat /\ served'[m] = FALSE
    BY <1>1, <1>2 DEF WaitTypes
  <2>2. CASE ~ Waiting(m)
    BY <1>1, <2>1, <2>2
  <2>3. CASE Waiting(m) /\ served[m]
    BY <1>1, <2>1, <2>3
  <2>4. CASE Waiting(m) /\ ~ served[m]
    BY <1>1, <2>1, <2>4
  <2> QED
    BY <2>2, <2>3, <2>4
<1>4. WaitTypes'
  <2>1. behind' \in [Match -> Nat]
    BY <1>1, <1>3
  <2> QED
    BY <1>1, <1>2, <2>1 DEF WaitTypes
<1>5. StaleInv'
  <2> SUFFICES ASSUME NEW f \in Feeds, cache[f] # None
               PROVE  /\ cache[f].time <= now + 1
                      /\ \A m \in Match :
                            Wrong(cache[f].answer, m) => behind'[m] + cache[f].time <= now + 1
    BY <1>1 DEF StaleInv, Wrong
  <2>1. cache[f].time \in Nat /\ cache[f].time <= now
    BY DEF WaitInv, FeedInv, CacheType, StaleInv
  <2>2. \A m \in Match : Wrong(cache[f].answer, m) => behind[m] + cache[f].time <= now
    BY DEF WaitInv, StaleInv
  <2>3. \A m \in Match : behind[m] \in Nat /\ behind'[m] \in Nat /\ behind'[m] <= behind[m] + 1
    BY <1>3
  <2> QED
    BY <1>2, <2>1, <2>2, <2>3
<1>6. HeldInv'
  <2> SUFFICES ASSUME pc # "idle", NEW m \in Match, due[m] # None
               PROVE  /\ due[m].priority = "low" => start[m] = NoTime
                      /\ Wrong(live, m) => behind'[m] < LiveInterval
                      /\ \A p \in Priorities : Wrong(dates[p], m) => behind'[m] < DateAge(p)
    BY <1>1, <1>3 DEF HeldInv, Wrong, DateAge
  <2>1. behind[m] \in Nat /\ behind'[m] \in Nat /\ behind'[m] <= behind[m]
    BY <1>3 DEF WaitInv, HeldInv
  <2>2. /\ due[m].priority = "low" => start[m] = NoTime
        /\ Wrong(live, m) => behind[m] < LiveInterval
        /\ \A p \in Priorities : Wrong(dates[p], m) => behind[m] < DateAge(p)
    BY DEF WaitInv, HeldInv
  <2>3. LiveInterval \in Nat /\ \A p \in Priorities : DateAge(p) \in Nat
    BY ScheduleAssumption DEF DateAge
  <2> QED
    BY <2>1, <2>2, <2>3
<1>7. \A m \in Match : /\ Interval(m) \in Nat /\ Interval(m)' \in Nat
                       /\ Interval(m) <= Interval(m)'
                       /\ FeedAge(m)' = FeedAge(m) /\ FeedAge(m) \in Nat
  <2>1. \A m \in Match : Interval(m) \in Nat /\ FeedAge(m) \in Nat
    BY <1>2, AgeFacts
  <2>2. \A m \in Match : Interval(m) <= Interval(m)' /\ FeedAge(m)' = FeedAge(m)
    BY <1>1, <1>2, IntervalGrows
  <2>3. \A m \in Match : Interval(m)' \in Nat
    BY ScheduleAssumption DEF Interval
  <2> QED
    BY <2>1, <2>2, <2>3
<1>8. CheckedInv'
  <2> SUFFICES ASSUME NEW m \in Match, checked[m] # NoTime
               PROVE  /\ checked[m] <= now + 1
                      /\ behind'[m] < FeedAge(m) + ((now + 1) - checked[m])
    BY <1>1, <1>7 DEF CheckedInv
  <2>1. checked[m] \in Nat /\ checked[m] <= now
        /\ behind[m] < FeedAge(m) + (now - checked[m])
    BY <1>2 DEF WaitTypes, WaitInv, CheckedInv
  <2>2. /\ behind[m] \in Nat /\ behind'[m] \in Nat /\ behind'[m] <= behind[m] + 1
        /\ FeedAge(m) \in Nat
    BY <1>3, <1>7
  <2> QED
    BY <1>2, <2>1, <2>2
<1>9. ServedInv'
  BY <1>3 DEF ServedInv
<1>10. BoundInv'
  <2> SUFFICES ASSUME NEW m \in Match PROVE behind'[m] < Interval(m)' + FeedAge(m)'
    BY DEF BoundInv
  <2>0. /\ behind[m] \in Nat /\ behind'[m] \in Nat
        /\ Interval(m) \in Nat /\ Interval(m)' \in Nat /\ Interval(m) <= Interval(m)'
        /\ FeedAge(m)' = FeedAge(m) /\ FeedAge(m) \in Nat
    BY <1>3, <1>7
  <2>1. CASE behind'[m] <= behind[m]
    <3>1. behind[m] < Interval(m) + FeedAge(m)
      BY DEF WaitInv, BoundInv
    <3> QED
      BY <2>0, <2>1, <3>1
  <2>2. CASE behind'[m] = behind[m] + 1
    <3>1. behind[m] + 1 < Interval(m) + FeedAge(m)
      BY <1>3, <2>2 DEF WaitInv, ServedInv
    <3> QED
      BY <2>0, <2>2, <3>1
  <2> QED
    BY <1>3, <2>1, <2>2
<1> QED
  BY <1>4, <1>5, <1>6, <1>8, <1>9, <1>10 DEF WaitInv

\* Every step keeps it.
LEMMA WaitStep ==
    ASSUME Ordered
    PROVE  WaitInv /\ [Next]_vars => WaitInv'
<1> SUFFICES ASSUME WaitInv, [Next]_vars PROVE WaitInv'
  OBVIOUS
<1>1. FeedInv'
  BY FeedStep DEF WaitInv, Ordered
<1>2. CASE BeginTick \/ AskLive \/ Advance
  BY <1>1, <1>2, WaitBegin, WaitAskLive, WaitAdvance
<1>3. CASE DayOver \/ UNCHANGED vars
  <2>1. UNCHANGED <<now, actual, start, row, checked, cache, pc, due, live, dates, served, behind>>
    BY <1>3 DEF DayOver, vars, world, store, tick, history
  <2>2. WaitTypes' /\ StaleInv' /\ HeldInv'
    BY <2>1 DEF WaitInv, WaitTypes, StaleInv, HeldInv, Wrong, DateAge
  <2>3. CheckedInv' /\ ServedInv' /\ BoundInv'
    BY <2>1 DEF WaitInv, CheckedInv, ServedInv, BoundInv, FeedAge, Interval, Waiting, Promised
  <2> QED
    BY <1>1, <2>2, <2>3 DEF WaitInv
<1>4. ASSUME NEW m \in Match, AskDate(m) PROVE WaitInv'
  BY <1>1, <1>4, WaitAskDate
<1>5. ASSUME NEW m \in Match, UpdateFromLive(m) \/ UpdateFromDate(m) PROVE WaitInv'
  BY <1>1, <1>5, WaitUpdate
<1>6. ASSUME NEW m \in Match, MarkChecked(m) PROVE WaitInv'
  BY <1>1, <1>6, WaitMark
<1>7. ASSUME NEW m \in Match, PassOver(m) \/ Raise(m) PROVE WaitInv'
  BY <1>1, <1>7, WaitWaste
<1>8. ASSUME NEW m \in Match, Change(m) \/ Reschedule(m) PROVE WaitInv'
  BY <1>1, <1>8, WaitNews
<1> QED
  BY <1>2, <1>3, <1>4, <1>5, <1>6, <1>7, <1>8 DEF Next

\* Nothing waits at the start.
LEMMA WaitInit ==
    ASSUME Ordered
    PROVE  Init => WaitInv
<1> SUFFICES ASSUME Init PROVE WaitInv
  OBVIOUS
<1>1. FeedInv
  <2>1. CacheType
    BY DEF Init, CacheType, Statuses
  <2> QED
    BY <2>1, ScheduleAssumption DEF Init, FeedInv, ObtainedInv, SharedFeeds
<1>2. start \in [Match -> Nat \cup {NoTime}]
  <2>1. \A m \in Match : start[m] \in Kickoffs[m] /\ Kickoffs[m] \in SUBSET (Nat \cup {NoTime})
    BY ScheduleAssumption DEF Init
  <2>2. start \in [Match -> UNION {Kickoffs[m] : m \in Match}]
    BY DEF Init
  <2> QED
    BY <2>1, <2>2
<1>3. WaitTypes
  BY <1>2 DEF Init, WaitTypes, Statuses
<1>4. StaleInv /\ HeldInv /\ CheckedInv
  BY DEF Init, StaleInv, HeldInv, CheckedInv
<1>5. \A m \in Match : Interval(m) \in Nat \ {0} /\ FeedAge(m) \in Nat \ {0}
  BY <1>1, <1>3, AgeFacts DEF FeedInv, CacheType
<1>6. ServedInv /\ BoundInv
  BY <1>5 DEF Init, ServedInv, BoundInv
<1> QED
  BY <1>1, <1>3, <1>4, <1>6 DEF WaitInv

\* A row that is promised does not miss the provider's status for longer than its
\* interval and the age of a feed, not counting the runs that failed for it, however
\* many fixtures, failures, slow runs and moved kickoffs there are; the configuration
\* must keep the intervals in the order of its defaults.
THEOREM ChangesNoticed ==
    ASSUME Ordered
    PROVE  Spec => []NoticedInTime
<1>1. Init => WaitInv
  BY WaitInit
<1>2. WaitInv => NoticedInTime
  BY DEF WaitInv, BoundInv, NoticedInTime
<1>3. WaitInv /\ [Next]_vars => WaitInv'
  BY WaitStep
<1> QED
  BY <1>1, <1>2, <1>3, PTL DEF Spec

----------------------------------------------------------------------------
(* Type correctness.                                                        *)

CacheEntries == [time : Times, answer : Answers]

Obtained == Answers \cup {None, Failed}

\* TypeOK says nothing of the domains of the functions it takes apart, nor of the
\* clock reading between two ticks.
ScheduleInv ==
    /\ TypeOK
    /\ cache \in [Feeds -> CacheEntries \cup {None}]
    /\ dates \in [Priorities -> Obtained]

\* An answer lists fixtures with statuses.
LEMMA AnswerTyped ==
    ASSUME actual \in [Match -> Statuses], NEW S \in SUBSET Match
    PROVE  Answer(S) \in Answers
<1>1. Answer(S) \in [S -> Statuses]
  BY DEF Answer
<1> QED
  BY <1>1 DEF Answers

\* What goes wrong is counted.
LEMMA TroubleTyped ==
    ASSUME ScheduleInv, NEW n \in Nat, Trouble(n)
    PROVE  troubles' \in 0..MaxTroubles
  BY ScheduleAssumption DEF ScheduleInv, TypeOK, Trouble

\* A feed as it is obtained, and what is left of the bounds; only finitely many
\* fixtures can be missing from it.
LEMMA ObtainTyped ==
    ASSUME IsFiniteSet(Match), ScheduleInv, NEW feed \in Feeds, NEW age,
           NEW listed \in SUBSET Match, Obtain(feed, age, listed)
    PROVE  /\ cache' \in [Feeds -> CacheEntries \cup {None}]
           /\ cache'[feed].answer \in Answers
           /\ fetched' \in [Feeds -> Nat] /\ troubles' \in 0..MaxTroubles
<1>1. CASE Fresh(feed, age) /\ UNCHANGED <<cache, fetched, troubles>>
  BY <1>1 DEF ScheduleInv, TypeOK, Fresh
<1>2. CASE ~ (Fresh(feed, age) /\ UNCHANGED <<cache, fetched, troubles>>)
  <2>1. PICK omitted \in SUBSET listed :
            /\ Trouble(Cardinality(omitted))
            /\ cache' = [cache EXCEPT ![feed] = [time |-> now, answer |-> Answer(listed \ omitted)]]
    BY <1>2 DEF Obtain
  <2>2. Cardinality(omitted) \in Nat
    BY FS_Subset, FS_CardinalityType
  <2>3. Answer(listed \ omitted) \in Answers
    BY AnswerTyped DEF ScheduleInv, TypeOK
  <2>4. [time |-> now, answer |-> Answer(listed \ omitted)] \in CacheEntries
    BY <2>3 DEF ScheduleInv, TypeOK, CacheEntries
  <2>5. /\ cache' \in [Feeds -> CacheEntries \cup {None}]
        /\ cache'[feed] = [time |-> now, answer |-> Answer(listed \ omitted)]
    BY <2>1, <2>4 DEF ScheduleInv
  <2>6. fetched' \in [Feeds -> Nat]
    BY <1>2 DEF Obtain, ScheduleInv, TypeOK
  <2>7. troubles' \in 0..MaxTroubles
    BY <2>1, <2>2, TroubleTyped
  <2> QED
    BY <2>3, <2>5, <2>6, <2>7
<1> QED
  BY <1>1, <1>2

\* A denied request costs a trouble.
LEMMA DeniedTyped ==
    ASSUME ScheduleInv, NEW feed, NEW age, Denied(feed, age)
    PROVE  UNCHANGED <<cache, fetched>> /\ troubles' \in 0..MaxTroubles
  BY TroubleTyped DEF Denied

\* A tick that begins has decisions of the policy left, or is over.
LEMMA BeginTyped ==
    ASSUME ScheduleInv, BeginTick
    PROVE  ScheduleInv'
<1>1. UNCHANGED <<now, actual, start, row, checked, cache, live, dates, behind, fetched, troubles, moves>>
  BY DEF BeginTick, world, store
<1>2. \A m \in Match : Stage(row[m], start[m], now) \in Decisions \cup {None}
  BY DEF Stage, Decision, Decisions, Priorities, Reasons
<1>3. \A m \in Match : Due(m, now) \in Decisions \cup {None}
  BY <1>2 DEF Due
<1>4. due' \in [Match -> Decisions \cup {None}]
  BY <1>3 DEF BeginTick
<1>5. /\ pc' \in {"idle", "live", "fixtures"} /\ ticked' = TRUE
      /\ served' \in [Match -> BOOLEAN]
      /\ pc' = "idle" <=> \A m \in Match : due'[m] = None
      /\ pc' # "idle" => at' = now
  BY DEF BeginTick
<1>6. pc' = "idle" <=> Left' = {}
  BY <1>5 DEF Left
<1> QED
  BY <1>1, <1>4, <1>5, <1>6 DEF ScheduleInv, TypeOK

\* The live feed.
LEMMA AskLiveTyped ==
    ASSUME IsFiniteSet(Match), ScheduleInv, AskLive
    PROVE  ScheduleInv'
<1>1. UNCHANGED <<now, actual, start, row, checked, ticked, at, due, dates, served, behind, moves>>
      /\ pc = "live" /\ pc' = "fixtures"
  BY DEF AskLive, world
<1>2. "live" \in Feeds /\ LiveFixtures \in SUBSET Match
  BY DEF Feeds, LiveFixtures
<1>3. /\ cache' \in [Feeds -> CacheEntries \cup {None}]
      /\ live' \in Obtained
      /\ fetched' \in [Feeds -> Nat] /\ troubles' \in 0..MaxTroubles
  <2>1. CASE Obtain("live", LiveInterval, LiveFixtures) /\ live' = cache'["live"].answer
    BY <1>2, <2>1, ObtainTyped DEF Obtained
  <2>2. CASE Denied("live", LiveInterval) /\ live' = Failed
    BY <2>2, DeniedTyped DEF Obtained, ScheduleInv, TypeOK
  <2> QED
    BY <2>1, <2>2 DEF AskLive
<1>4. Left' = Left
  BY <1>1 DEF Left
<1>5. \A f \in Feeds : cache'[f] # None => cache'[f].time \in Times /\ cache'[f].answer \in Answers
  BY <1>3 DEF CacheEntries
<1> QED
  BY <1>1, <1>3, <1>4, <1>5 DEF ScheduleInv, TypeOK, Obtained

\* The date feed.
LEMMA AskDateTyped ==
    ASSUME IsFiniteSet(Match), ScheduleInv, NEW m \in Match, AskDate(m)
    PROVE  ScheduleInv'
<1> DEFINE p == due[m].priority
           age == DateAge(p)
<1>1. UNCHANGED <<now, actual, start, row, checked, pc, ticked, at, due, live, served, behind, moves>>
  BY DEF AskDate, world
<1>2. "date" \in Feeds
  BY DEF Feeds
<1>3. \/ Obtain("date", age, Match) /\ dates' = [dates EXCEPT ![p] = cache'["date"].answer]
      \/ Denied("date", age) /\ dates' = [dates EXCEPT ![p] = Failed]
  BY DEF AskDate
<1> HIDE DEF p, age
<1>4. /\ cache' \in [Feeds -> CacheEntries \cup {None}]
      /\ dates' \in [Priorities -> Obtained]
      /\ fetched' \in [Feeds -> Nat] /\ troubles' \in 0..MaxTroubles
  <2>1. CASE Obtain("date", age, Match) /\ dates' = [dates EXCEPT ![p] = cache'["date"].answer]
    <3>1. /\ cache' \in [Feeds -> CacheEntries \cup {None}]
          /\ cache'["date"].answer \in Answers
          /\ fetched' \in [Feeds -> Nat] /\ troubles' \in 0..MaxTroubles
      BY <1>2, <2>1, ObtainTyped
    <3>2. cache'["date"].answer \in Obtained
      BY <3>1 DEF Obtained
    <3> QED
      BY <2>1, <3>1, <3>2 DEF ScheduleInv
  <2>2. CASE Denied("date", age) /\ dates' = [dates EXCEPT ![p] = Failed]
    <3>1. UNCHANGED <<cache, fetched>> /\ troubles' \in 0..MaxTroubles
      BY <2>2, DeniedTyped
    <3>2. Failed \in Obtained
      BY DEF Obtained
    <3> QED
      BY <2>2, <3>1, <3>2 DEF ScheduleInv, TypeOK
  <2> QED
    BY <1>3, <2>1, <2>2
<1>5. Left' = Left
  BY <1>1 DEF Left
<1>6. \A f \in Feeds : cache'[f] # None => cache'[f].time \in Times /\ cache'[f].answer \in Answers
  BY <1>4 DEF CacheEntries
<1>7. \A q \in Priorities : dates'[q] \in Answers \cup {None, Failed}
  BY <1>4 DEF Obtained
<1> QED
  BY <1>1, <1>4, <1>5, <1>6, <1>7 DEF ScheduleInv, TypeOK

\* A fixture leaves the loop, with whatever becomes of its row.
LEMMA LeaveTyped ==
    ASSUME ScheduleInv, NEW m \in Match, NextUp(m), Leave(m),
           row' \in [Match -> Statuses], checked' \in [Match -> Times \cup {NoTime}],
           served' \in [Match -> BOOLEAN], behind' \in [Match -> Nat],
           troubles' \in 0..MaxTroubles
    PROVE  ScheduleInv'
<1>1. UNCHANGED <<now, actual, start, cache, ticked, moves>>
  BY DEF Leave, world
<1>2. due' = [due EXCEPT ![m] = None] /\ due' \in [Match -> Decisions \cup {None}]
  BY DEF Leave, ScheduleInv, TypeOK
<1>3. Left' = Left \ {m} /\ m \in Left /\ pc = "fixtures"
  BY <1>2 DEF Left, NextUp, ScheduleInv, TypeOK
<1>4. CASE Left = {m}
  <2>1. /\ pc' = "idle" /\ live' = None /\ dates' = [p \in Priorities |-> None]
        /\ fetched' = [f \in Feeds |-> 0]
    BY <1>4 DEF Leave
  <2> QED
    BY <1>1, <1>2, <1>3, <1>4, <2>1 DEF ScheduleInv, TypeOK, Obtained
<1>5. CASE Left # {m}
  <2>1. UNCHANGED <<pc, at, live, dates, fetched>>
    BY <1>5 DEF Leave
  <2>2. Left' # {}
    BY <1>3, <1>5
  <2> QED
    BY <1>1, <1>2, <1>3, <2>1, <2>2 DEF ScheduleInv, TypeOK, Obtained
<1> QED
  BY <1>4, <1>5

\* Time passes.
LEMMA AdvanceTyped ==
    ASSUME ScheduleInv, Advance
    PROVE  ScheduleInv'
<1> USE ScheduleAssumption
<1>1. /\ UNCHANGED <<actual, start, row, checked, cache, pc, due, at, live, dates, fetched, moves>>
      /\ now' = now + 1 /\ now' \in Times /\ now' - 1 = now
  BY DEF Advance, store, ScheduleInv, TypeOK, Times
<1>2. pc # "idle" => at = now
  BY DEF Advance
<1>3. troubles' \in 0..MaxTroubles
  BY TroubleTyped DEF Advance, ScheduleInv, TypeOK
<1>4. ticked' \in BOOLEAN /\ served' \in [Match -> BOOLEAN]
  BY DEF Advance
<1>5. behind' \in [Match -> Nat]
  BY DEF Advance, ScheduleInv, TypeOK
<1>6. Left' = Left
  BY <1>1 DEF Left
<1> QED
  BY <1>1, <1>2, <1>3, <1>4, <1>5, <1>6 DEF ScheduleInv, TypeOK

\* A status or a kickoff changes.
LEMMA MoveTyped ==
    ASSUME ScheduleInv, NEW m \in Match, Change(m) \/ Reschedule(m)
    PROVE  ScheduleInv'
<1> USE ScheduleAssumption
<1>1. UNCHANGED <<now, row, checked, cache, tick, served, fetched, troubles>>
  BY DEF Change, Reschedule, world, store
<1>2. actual' \in [Match -> Statuses]
  BY DEF Change, Reschedule, world, ScheduleInv, TypeOK
<1>3. start' \in [Match -> Nat \cup {NoTime}]
  <2>1. CASE Change(m)
    BY <2>1 DEF Change, store, ScheduleInv, TypeOK
  <2>2. CASE Reschedule(m)
    <3>1. PICK s \in Kickoffs[m] : start' = [start EXCEPT ![m] = s]
      BY <2>2 DEF Reschedule
    <3>2. s \in Nat \cup {NoTime}
      OBVIOUS
    <3> QED
      BY <3>1, <3>2 DEF ScheduleInv, TypeOK
  <2> QED
    BY <2>1, <2>2
<1>4. behind' \in [Match -> Nat]
  BY DEF Change, Reschedule, ScheduleInv, TypeOK
<1>5. moves' \in 0..MaxMoves
  BY DEF Change, Reschedule, Move, ScheduleInv, TypeOK
<1>6. Left' = Left
  BY <1>1 DEF Left, tick
<1> QED
  BY <1>1, <1>2, <1>3, <1>4, <1>5, <1>6 DEF ScheduleInv, TypeOK, tick

\* A row is filled, marked or passed over.
LEMMA ServeTyped ==
    ASSUME ScheduleInv, NEW m \in Match,
           \/ UpdateFromLive(m) \/ UpdateFromDate(m) \/ MarkChecked(m)
           \/ PassOver(m) \/ Raise(m)
    PROVE  ScheduleInv'
<1> USE DEF ScheduleInv, TypeOK
<1>1. ASSUME NEW status \in Statuses, NextUp(m), Update(m, status) PROVE ScheduleInv'
  <2>1. /\ Leave(m) /\ UNCHANGED troubles
        /\ row' = [row EXCEPT ![m] = status] /\ checked' = [checked EXCEPT ![m] = now]
        /\ served' = [served EXCEPT ![m] = TRUE] /\ behind' \in [Match -> Nat]
    BY <1>1 DEF Update
  <2> QED
    BY <1>1, <2>1, LeaveTyped
<1>2. CASE UpdateFromLive(m)
  <2>1. live \in Answers /\ m \in DOMAIN live
    BY <1>2 DEF UpdateFromLive, Listed
  <2>2. live[m] \in Statuses
    BY <2>1 DEF Answers
  <2> QED
    BY <1>1, <1>2, <2>2 DEF UpdateFromLive
<1>3. CASE UpdateFromDate(m)
  <2> DEFINE answer == dates[due[m].priority]
  <2>1. /\ NextUp(m) /\ due[m] # None /\ answer \notin {None, Failed}
        /\ m \in DOMAIN answer /\ Update(m, answer[m])
    BY <1>3 DEF UpdateFromDate, LooksUp, NextUp
  <2>2. due[m].priority \in Priorities
    BY <2>1 DEF Decisions
  <2>3. answer \in Answers
    BY <2>1, <2>2
  <2>4. answer[m] \in Statuses
    BY <2>1, <2>3 DEF Answers
  <2> QED
    BY <1>1, <2>1, <2>4
<1>4. CASE MarkChecked(m)
  <2>1. /\ NextUp(m) /\ Leave(m) /\ UNCHANGED <<row, troubles>>
        /\ checked' = [checked EXCEPT ![m] = now] /\ behind' = [behind EXCEPT ![m] = 0]
        /\ served' = [served EXCEPT ![m] = TRUE]
    BY <1>4 DEF MarkChecked, LooksUp
  <2> QED
    BY <2>1, LeaveTyped
<1>5. CASE PassOver(m)
  BY <1>5, LeaveTyped DEF PassOver, Waste
<1>6. CASE Raise(m)
  BY <1>6, LeaveTyped, TroubleTyped DEF Raise, Waste
<1> QED
  BY <1>2, <1>3, <1>4, <1>5, <1>6

\* Every step keeps the types.
LEMMA ScheduleStep ==
    ASSUME IsFiniteSet(Match)
    PROVE  ScheduleInv /\ [Next]_vars => ScheduleInv'
<1> SUFFICES ASSUME ScheduleInv, [Next]_vars PROVE ScheduleInv'
  OBVIOUS
<1>1. CASE UNCHANGED vars
  BY <1>1 DEF vars, world, store, tick, history, ScheduleInv, TypeOK, Left
<1>2. CASE DayOver
  BY <1>1, <1>2 DEF DayOver
<1> QED
  BY <1>1, <1>2, BeginTyped, AskLiveTyped, AdvanceTyped, AskDateTyped, ServeTyped, MoveTyped DEF Next

\* The types, for any policy: a tick in progress has a fixture left to decide upon
\* and a clock reading at most one unit old, and whatever is cached or held is an
\* answer of statuses from within the horizon.  A feed can miss any of the fixtures,
\* which are finitely many.
THEOREM ScheduleTypes ==
    ASSUME IsFiniteSet(Match)
    PROVE  Spec => []TypeOK
<1>1. Init => ScheduleInv
  <2> SUFFICES ASSUME Init PROVE ScheduleInv
    OBVIOUS
  <2> USE ScheduleAssumption
  <2>1. actual \in [Match -> Statuses] /\ row = actual
    BY DEF Init, Statuses
  <2>2. start \in [Match -> Nat \cup {NoTime}]
    BY DEF Init
  <2>3. now \in Times /\ troubles \in 0..MaxTroubles /\ moves \in 0..MaxMoves
    BY DEF Init, Times
  <2>4. Left = {} /\ due \in [Match -> Decisions \cup {None}]
    BY DEF Init, Left
  <2> QED
    BY <2>1, <2>2, <2>3, <2>4 DEF Init, ScheduleInv, TypeOK, Obtained
<1>2. ScheduleInv => TypeOK
  BY DEF ScheduleInv
<1> QED
  BY <1>1, <1>2, ScheduleStep, PTL DEF Spec
=============================================================================

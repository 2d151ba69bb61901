------------------------------ MODULE Discovery ------------------------------
(***************************************************************************)
(* How the fixtures of followed teams come to be stored: discover and       *)
(* discover_team of app/workers/discovery.py, the date feeds that a         *)
(* SportsApiClient shares among teams (get_team_fixtures of                 *)
(* app/sports_api/client.py), and the follow of                             *)
(* app/services/subscription_service.py, which discovers at once.  The pass *)
(* has a client of its own; all follows share the client of the API.  The   *)
(* provider lists the same fixtures throughout.                             *)
(***************************************************************************)
EXTENDS Integers, FiniteSets

CONSTANTS
    Team, Fixture,
    Plays, Day,       \* the teams and the date of a fixture
    LastDay,          \* fixture_discovery_days - 1, today being day 0
    PlanDays,         \* the dates the plan gives access to
    MaxCrashes,       \* bound on cancelled, crashed or failing jobs
    None

Days == 0..LastDay
Follow == Team                    \* one follow request for each team
Job == Follow \cup {"pass"}
Client == {"worker", "api"}

ASSUME DiscoveryAssumption ==
    /\ Plays \in [Fixture -> SUBSET Team]
    /\ LastDay \in Nat /\ Day \in [Fixture -> Days] /\ PlanDays \subseteq Days
    /\ MaxCrashes \in Nat
    /\ "pass" \notin Team /\ None \notin Team \cup Days

VARIABLES
    followed,                \* teams with a subscription
    fresh,                   \* teams discovered less than six hours ago
    stored,                  \* matches
    byDate, errors, limit,   \* a client: dates it has the feed of, dates that
                             \* failed, and the first date the plan excludes
    pc, todo, team, day, got, failed, seen,  \* a job's own state
    asked,                   \* history: requests of this pass for each date
    crashes                  \* bounded counter

database == <<followed, fresh, stored>>
feeds == <<byDate, errors, limit>>
job == <<pc, todo, team, day, got, failed, seen>>
vars == <<database, feeds, job, asked, crashes>>

ClientOf(j) == IF j = "pass" THEN "worker" ELSE "api"

Init ==
    /\ followed = {} /\ fresh = {} /\ stored = {}
    /\ byDate = [c \in Client |-> {}]
    /\ errors = [c \in Client |-> {}]
    /\ limit = [c \in Client |-> None]
    /\ pc = [j \in Job |-> "idle"]
    /\ todo = {} /\ seen = {}
    /\ team = None
    /\ day = [j \in Job |-> 0]
    /\ got = [j \in Job |-> {}]
    /\ failed = [j \in Job |-> FALSE]
    /\ asked = [d \in Days |-> 0]
    /\ crashes = 0

TeamOf(j) == IF j = "pass" THEN team ELSE j

Goto(j, label) == pc' = [pc EXCEPT ![j] = label]

\* Mutant of BeginDiscovery: errors outlive the pass.
BeginDiscoveryKeepingErrors(c) ==
    /\ byDate' = [byDate EXCEPT ![c] = {}]
    /\ limit' = [limit EXCEPT ![c] = None]
    /\ UNCHANGED errors

\* begin_fixture_discovery.
BeginDiscovery(c) ==
    /\ byDate' = [byDate EXCEPT ![c] = {}]
    /\ errors' = [errors EXCEPT ![c] = {}]
    /\ limit' = [limit EXCEPT ![c] = None]

\* discover_team begins to collect the fixtures of one team.
Collect(j) ==
    /\ Goto(j, "collect")
    /\ day' = [day EXCEPT ![j] = 0]
    /\ got' = [got EXCEPT ![j] = {}]
    /\ failed' = [failed EXCEPT ![j] = FALSE]

\* create: the subscription is committed, then the team is discovered with feeds of
\* its own.
StartFollow(t) ==
    /\ pc[t] = "idle" /\ t \notin followed
    /\ followed' = followed \cup {t}
    /\ BeginDiscovery("api")
    /\ Collect(t)
    /\ UNCHANGED <<fresh, stored, todo, team, seen, asked, crashes>>

\* discover: the followed teams are read once, with the time of their discovery.
StartPass ==
    /\ pc["pass"] = "idle" /\ followed # {}
    /\ BeginDiscovery("worker")
    /\ todo' = followed \ fresh
    /\ Goto("pass", "next")
    /\ UNCHANGED <<database, team, day, got, failed, seen, asked, crashes>>

NextTeam ==
    /\ pc["pass"] = "next"
    /\ \E t \in todo : team' = t /\ todo' = todo \ {t}
    /\ Collect("pass")
    /\ UNCHANGED <<database, feeds, seen, asked, crashes>>

\* discover_team returns or raises: the pass goes on to the next team, the follow is
\* answered, with a warning if it raised.
Return(j) == Goto(j, IF j = "pass" THEN "next" ELSE "idle")

----------------------------------------------------------------------------
(* get_team_fixtures, one date after the other.                             *)

\* The team's fixtures in the feed of a date.
Ours(j, d) == {f \in Fixture : Day[f] = d /\ TeamOf(j) \in Plays[f]}

\* The client knows of a date: past the plan's boundary, failed, or fetched.
Beyond(c, d) == d > LastDay \/ (limit[c] # None /\ d >= limit[c])

Collecting(j) == pc[j] = "collect"

\* All dates are done, up to the boundary of the plan.
EndDates(j) ==
    /\ Collecting(j) /\ Beyond(ClientOf(j), day[j])
    /\ Goto(j, "store") /\ day' = [day EXCEPT ![j] = 0]
    /\ UNCHANGED <<database, feeds, todo, team, got, failed, seen, asked, crashes>>

\* A date's feed fails: what valid dates gave is stored before the failure is raised.
Fail(j) ==
    /\ Goto(j, IF got[j] # {} THEN "store" ELSE IF j = "pass" THEN "next" ELSE "idle")
    /\ failed' = [failed EXCEPT ![j] = got[j] # {}]
    /\ day' = [day EXCEPT ![j] = 0]
    /\ UNCHANGED <<todo, team, got, seen>>

\* Mutant of KnownError: the failure of a date is not remembered.
KnownErrorNever(j) == FALSE

KnownError(j) == day[j] \in errors[ClientOf(j)]

\* The date has failed before on this client, for this or another team.
FailAgain(j) ==
    /\ Collecting(j) /\ ~Beyond(ClientOf(j), day[j]) /\ KnownError(j)
    /\ Fail(j)
    /\ UNCHANGED <<database, feeds, asked, crashes>>

Missing(j) ==
    /\ Collecting(j) /\ ~Beyond(ClientOf(j), day[j]) /\ ~KnownError(j)
    /\ day[j] \notin byDate[ClientOf(j)]

\* The feed is there already, shared by an earlier team.
ShareFeed(j) ==
    /\ Collecting(j) /\ ~Beyond(ClientOf(j), day[j]) /\ ~KnownError(j) /\ ~Missing(j)
    /\ got' = [got EXCEPT ![j] = @ \cup Ours(j, day[j])]
    /\ day' = [day EXCEPT ![j] = @ + 1]
    /\ UNCHANGED <<database, feeds, pc, todo, team, failed, seen, asked, crashes>>

\* The request goes out; while it is awaited other jobs use the client.
AskDate(j) ==
    /\ Missing(j)
    /\ Goto(j, "asking")
    /\ asked' = IF j = "pass" THEN [asked EXCEPT ![day[j]] = @ + 1] ELSE asked
    /\ UNCHANGED <<database, feeds, todo, team, day, got, failed, seen, crashes>>

\* The feed of a date arrives, from the response cache or from the provider, and is
\* shared and collected from.
Arrive(j) ==
    /\ pc[j] = "asking" /\ day[j] \in PlanDays
    /\ byDate' = [byDate EXCEPT ![ClientOf(j)] = @ \cup {day[j]}]
    /\ got' = [got EXCEPT ![j] = @ \cup Ours(j, day[j])]
    /\ day' = [day EXCEPT ![j] = @ + 1]
    /\ Goto(j, "collect")
    /\ UNCHANGED <<database, errors, limit, todo, team, failed, seen, asked, crashes>>

\* The provider refuses the date for the plan, and this client has a valid feed.
AtBoundary(j, planned) == planned /\ byDate[ClientOf(j)] # {}

\* The request fails; "planned" when the error says that the plan has no access.
Refused(j) ==
    LET c == ClientOf(j)
        d == day[j]
    IN  /\ pc[j] = "asking"
        /\ \E planned \in BOOLEAN :
            /\ planned => d \notin PlanDays
            /\ IF AtBoundary(j, planned)
               THEN /\ limit' = [limit EXCEPT ![c] = d]
                    /\ Goto(j, "store") /\ day' = [day EXCEPT ![j] = 0]
                    /\ UNCHANGED <<errors, todo, team, got, failed, seen>>
               ELSE /\ errors' = [errors EXCEPT ![c] = @ \cup {d}]
                    /\ Fail(j)
                    /\ UNCHANGED limit
        /\ UNCHANGED <<database, byDate, asked, crashes>>

----------------------------------------------------------------------------
(* The fixtures are stored one by one, and only then is the team marked.    *)

ToStore(j) == IF j = "pass" THEN got[j] \ seen ELSE got[j]

\* upsert_team for both sides and upsert_match.
Upsert(j) ==
    /\ pc[j] = "store"
    /\ \E f \in ToStore(j) :
        /\ stored' = stored \cup {f}
        /\ got' = [got EXCEPT ![j] = @ \ {f}]
        /\ seen' = IF j = "pass" THEN seen \cup {f} ELSE seen
    /\ UNCHANGED <<followed, fresh, feeds, pc, todo, team, day, failed, asked, crashes>>

\* Mutant of Marks: a team is marked although a date failed.
MarksAnyway(j) == TRUE

Marks(j) == ~failed[j]

\* The end of discover_team: mark_discovered, or the failure that was put off.
EndTeam(j) ==
    /\ pc[j] = "store" /\ ToStore(j) = {}
    /\ fresh' = IF Marks(j) THEN fresh \cup {TeamOf(j)} ELSE fresh
    /\ got' = [got EXCEPT ![j] = {}]
    /\ failed' = [failed EXCEPT ![j] = FALSE]
    /\ Return(j)
    /\ UNCHANGED <<followed, stored, feeds, todo, team, day, seen, asked, crashes>>

\* Every team is done: the pass is over.
EndPass ==
    /\ pc["pass"] = "next" /\ todo = {}
    /\ asked' = [d \in Days |-> 0]
    /\ team' = None /\ seen' = {}
    /\ Goto("pass", "idle")
    /\ UNCHANGED <<database, feeds, todo, day, got, failed, crashes>>

----------------------------------------------------------------------------

\* The invocation is cancelled, or a statement fails: nothing is marked, and what is
\* stored stays.
Crash(j) ==
    /\ pc[j] # "idle" /\ crashes < MaxCrashes
    /\ crashes' = crashes + 1
    /\ Goto(j, "idle")
    /\ got' = [got EXCEPT ![j] = {}]
    /\ failed' = [failed EXCEPT ![j] = FALSE]
    /\ day' = [day EXCEPT ![j] = 0]
    /\ IF j = "pass"
       THEN todo' = {} /\ team' = None /\ seen' = {} /\ asked' = [d \in Days |-> 0]
       ELSE UNCHANGED <<todo, team, seen, asked>>
    /\ UNCHANGED <<database, feeds>>

\* Six hours after a team's discovery.
Age(t) ==
    /\ t \in fresh
    /\ fresh' = fresh \ {t}
    /\ UNCHANGED <<followed, stored, feeds, job, asked, crashes>>

Next ==
    \/ StartPass \/ NextTeam \/ EndPass
    \/ \E t \in Team : StartFollow(t) \/ Age(t)
    \/ \E j \in Job :
        \/ EndDates(j) \/ FailAgain(j) \/ ShareFeed(j) \/ AskDate(j) \/ Arrive(j)
        \/ Refused(j) \/ Upsert(j) \/ EndTeam(j) \/ Crash(j)

PassStep ==
    \/ NextTeam \/ EndPass
    \/ EndDates("pass") \/ FailAgain("pass") \/ ShareFeed("pass") \/ AskDate("pass")
    \/ Arrive("pass") \/ Refused("pass") \/ Upsert("pass") \/ EndTeam("pass")

\* The cron keeps starting passes, a pass goes on, and a date that is asked for again
\* and again arrives at last.
Fairness ==
    /\ WF_vars(StartPass) /\ WF_vars(PassStep)
    /\ \A d \in PlanDays : SF_vars(Arrive("pass") /\ day["pass"] = d)

Spec == Init /\ [][Next]_vars /\ Fairness

----------------------------------------------------------------------------
(* Properties.                                                              *)

\* Type invariant.  A client's boundary lies beyond the plan's dates.
TypeOK ==
    /\ stored \subseteq Fixture
    /\ followed \subseteq Team /\ fresh \subseteq followed
    /\ byDate \in [Client -> SUBSET PlanDays] /\ errors \in [Client -> SUBSET Days]
    /\ limit \in [Client -> (Days \ PlanDays) \cup {None}]
    /\ pc \in [Job -> {"idle", "next", "collect", "asking", "store"}]
    /\ todo \subseteq Team /\ team \in Team \cup {None} /\ day \in [Job -> 0..LastDay + 1]
    /\ got \in [Job -> SUBSET Fixture] /\ failed \in [Job -> BOOLEAN] /\ seen \subseteq Fixture
    /\ asked \in [Days -> Nat] /\ crashes \in 0..MaxCrashes

\* "Following a team discovers today's ongoing and tomorrow's upcoming fixtures": a
\* team that counts as discovered has every fixture stored that the provider knew
\* and the plan gives access to, whatever happened to the feeds it shared with other
\* teams and follows, so that nothing is lost for the six hours it is left alone.
MarkedComplete ==
    \A t \in fresh, f \in Fixture : t \in Plays[f] /\ Day[f] \in PlanDays => f \in stored

\* "Discovery refresh, any number of followed teams: at most 2 shared date requests":
\* a pass asks for each date at most once, also when the request fails.
DateAskedOnce == \A d \in Days : asked[d] <= 1

\* "Team followed, but fixtures could not be refreshed. We will retry automatically":
\* every fixture of a followed team is stored in the end.  Neither a failed or
\* cancelled follow or pass, nor the failures a client remembers, nor a mark of the
\* team that came too early keeps it out for ever.
EventuallyStored ==
    \A f \in Fixture : \A t \in Plays[f] : Day[f] \in PlanDays => (t \in followed ~> f \in stored)
=============================================================================

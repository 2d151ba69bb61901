-------------------------- MODULE DiscoveryProofs --------------------------
(* Theorems about Discovery, for any teams, fixtures and days, and any      *)
(* number of follows beside the pass.                                       *)
EXTENDS Discovery, TLAPS

\* A job that works on a team works on a followed one, and asks only for the pass's dates.
ActiveInv ==
    /\ todo \subseteq followed
    /\ \A j \in Job : pc[j] \in {"collect", "asking", "store"} => TeamOf(j) \in followed
    /\ \A j \in Job : pc[j] = "asking" => day[j] \in Days
    /\ \A t \in Team : pc[t] # "next"

Typed == TypeOK /\ ActiveInv

\* What a job has collected: the team's fixtures of the dates behind it, and when it
\* stores and has met no failure, those of all dates of the plan.
Collected(j) ==
    /\ pc[j] \in {"collect", "asking"} =>
          \A f \in Fixture : TeamOf(j) \in Plays[f] /\ Day[f] < day[j] => f \in got[j]
    /\ pc[j] = "store" /\ ~ failed[j] =>
          \A f \in Fixture : TeamOf(j) \in Plays[f] /\ Day[f] \in PlanDays => f \in got[j] \cup stored

CollectedInv ==
    /\ \A j \in Job : Collected(j)
    /\ seen \subseteq stored
    /\ MarkedComplete

\* A date that the pass has asked for is on its way, or the client knows of it.
Known(d) ==
    \/ pc["pass"] = "asking" /\ day["pass"] = d
    \/ d \in byDate["worker"] \cup errors["worker"]
    \/ limit["worker"] # None /\ limit["worker"] <= d

\* The pass asks for a date before the boundary it knows.
Ahead == pc["pass"] = "asking" => limit["worker"] = None \/ day["pass"] < limit["worker"]

AskedInv ==
    /\ Ahead
    /\ pc["pass"] = "idle" => \A d \in Days : asked[d] = 0
    /\ \A d \in Days : asked[d] > 0 => Known(d)
    /\ DateAskedOnce

\* The plan gives access to the dates up to some date.
PlanFromToday == \A d \in PlanDays, e \in Days : e <= d => e \in PlanDays

\* The pass is a job, and no team is the pass.
LEMMA Jobs == /\ "pass" \in Job /\ Team \subseteq Job
              /\ \A t \in Team : t # "pass" /\ TeamOf(t) = t /\ ClientOf(t) = "api"
              /\ TeamOf("pass") = team /\ ClientOf("pass") = "worker"
              /\ \A j \in Job : ClientOf(j) \in Client
              /\ {"worker", "api"} = Client
  BY DiscoveryAssumption DEF Job, Follow, TeamOf, ClientOf, Client

----------------------------------------------------------------------------
(* Types.                                                                   *)

\* A failure leaves a job's own state in its type.
LEMMA FailTyped ==
    ASSUME Typed, NEW j \in Job, Fail(j), pc[j] \in {"collect", "asking"}
    PROVE  /\ pc' \in [Job -> {"idle", "next", "collect", "asking", "store"}]
           /\ failed' \in [Job -> BOOLEAN] /\ day' \in [Job -> 0..LastDay + 1]
           /\ UNCHANGED <<todo, team, got, seen>>
           /\ \A k \in Job \ {j} : pc'[k] = pc[k] /\ failed'[k] = failed[k] /\ day'[k] = day[k]
           /\ pc'[j] = (IF got[j] # {} THEN "store" ELSE IF j = "pass" THEN "next" ELSE "idle")
           /\ day'[j] = 0
           /\ failed'[j] <=> got[j] # {}
<1> DEFINE b == got[j] # {}
<1>1. b \in BOOLEAN
  OBVIOUS
<1>2. failed' = [failed EXCEPT ![j] = b]
  BY DEF Fail
<1>3. failed \in [Job -> BOOLEAN]
  BY DEF Typed, TypeOK
<1> HIDE DEF b
<1>4. failed' \in [Job -> BOOLEAN] /\ (failed'[j] <=> b) /\ \A k \in Job \ {j} : failed'[k] = failed[k]
  BY <1>1, <1>2, <1>3, Zenon
<1>5. 0 \in 0..LastDay + 1
  BY DiscoveryAssumption
<1> QED
  BY <1>4, <1>5 DEF b, Fail, Goto, Typed, TypeOK

\* The two ways a request fails: at the end of the plan, or for the date.
AtPlanEnd(j) ==
    /\ day[j] \in Days \ PlanDays /\ limit' = [limit EXCEPT ![ClientOf(j)] = day[j]]
    /\ Goto(j, "store") /\ day' = [day EXCEPT ![j] = 0]
    /\ UNCHANGED <<errors, todo, team, got, failed, seen>>

FailedDate(j) ==
    /\ day[j] \in Days /\ errors' = [errors EXCEPT ![ClientOf(j)] = @ \cup {day[j]}]
    /\ Fail(j) /\ UNCHANGED limit

\* There is no other.
LEMMA RefusedCases ==
    ASSUME Typed, NEW j \in Job, Refused(j)
    PROVE  /\ pc[j] = "asking" /\ UNCHANGED <<database, byDate, asked, crashes>>
           /\ AtPlanEnd(j) \/ FailedDate(j)
<1>1. pc[j] = "asking" /\ day[j] \in Days /\ UNCHANGED <<database, byDate, asked, crashes>>
  BY DEF Refused, Typed, ActiveInv
<1>2. PICK planned \in BOOLEAN :
        /\ planned => day[j] \notin PlanDays
        /\ IF AtBoundary(j, planned)
           THEN /\ limit' = [limit EXCEPT ![ClientOf(j)] = day[j]]
                /\ Goto(j, "store") /\ day' = [day EXCEPT ![j] = 0]
                /\ UNCHANGED <<errors, todo, team, got, failed, seen>>
           ELSE /\ errors' = [errors EXCEPT ![ClientOf(j)] = @ \cup {day[j]}]
                /\ Fail(j)
                /\ UNCHANGED limit
  BY DEF Refused
<1>3. CASE AtBoundary(j, planned)
  <2>1. day[j] \notin PlanDays
    BY <1>2, <1>3 DEF AtBoundary
  <2> QED
    BY <1>1, <1>2, <1>3, <2>1 DEF AtPlanEnd
<1>4. CASE ~ AtBoundary(j, planned)
  BY <1>1, <1>2, <1>4 DEF FailedDate
<1> QED
  BY <1>1, <1>3, <1>4

\* A job begins to collect.
LEMMA CollectTyped ==
    ASSUME Typed, NEW j \in Job, Collect(j)
    PROVE  /\ pc' \in [Job -> {"idle", "next", "collect", "asking", "store"}]
           /\ failed' \in [Job -> BOOLEAN] /\ day' \in [Job -> 0..LastDay + 1]
           /\ got' \in [Job -> SUBSET Fixture]
           /\ pc'[j] = "collect" /\ day'[j] = 0 /\ got'[j] = {}
           /\ \A k \in Job \ {j} : /\ pc'[k] = pc[k] /\ failed'[k] = failed[k]
                                   /\ day'[k] = day[k] /\ got'[k] = got[k]
  BY DiscoveryAssumption DEF Collect, Goto, Typed, TypeOK

\* Before anything happened.
LEMMA InitTyped == Init => Typed
  BY DiscoveryAssumption DEF Init, Typed, TypeOK, ActiveInv, Job, Follow

\* Every step keeps the types.
LEMMA TypedStep == Typed /\ [Next]_vars => Typed'
<1> SUFFICES ASSUME Typed, [Next]_vars PROVE Typed'
  OBVIOUS
<1> USE Jobs, DiscoveryAssumption DEF database, feeds, job
<1>1. ASSUME NEW t \in Team, StartFollow(t) PROVE Typed'
  <2>1. Collect(t)
    BY <1>1 DEF StartFollow
  <2>2. /\ followed' = followed \cup {t} /\ pc[t] = "idle"
        /\ UNCHANGED <<fresh, stored, todo, team, seen, asked, crashes>>
        /\ BeginDiscovery("api")
    BY <1>1 DEF StartFollow
  <2> QED
    BY <2>1, <2>2, CollectTyped DEF BeginDiscovery, Typed, TypeOK, ActiveInv, TeamOf
<1>2. CASE StartPass
  BY <1>2 DEF StartPass, BeginDiscovery, Goto, Typed, TypeOK, ActiveInv, TeamOf
<1>3. CASE NextTeam
  BY <1>3, CollectTyped DEF NextTeam, Typed, TypeOK, ActiveInv, TeamOf
<1>4. CASE EndPass
  BY <1>4 DEF EndPass, Goto, Typed, TypeOK, ActiveInv, TeamOf
<1>5. ASSUME NEW t \in Team, Age(t) PROVE Typed'
  BY <1>5 DEF Age, Typed, TypeOK, ActiveInv, TeamOf
<1>6. ASSUME NEW j \in Job, EndDates(j) PROVE Typed'
  BY <1>6 DEF EndDates, Collecting, Goto, Typed, TypeOK, ActiveInv, TeamOf
<1>7. ASSUME NEW j \in Job, FailAgain(j) PROVE Typed'
  BY <1>7, FailTyped DEF FailAgain, Collecting, Typed, TypeOK, ActiveInv, TeamOf
<1>8. ASSUME NEW j \in Job, ShareFeed(j) PROVE Typed'
  <2>1. /\ pc[j] = "collect" /\ day[j] <= LastDay /\ day' = [day EXCEPT ![j] = @ + 1]
        /\ UNCHANGED <<database, feeds, pc, todo, team, failed, seen, asked, crashes>>
    BY <1>8 DEF ShareFeed, Collecting, Beyond, Typed, TypeOK
  <2>2. got' \in [Job -> SUBSET Fixture]
    BY <1>8 DEF ShareFeed, Ours, Typed, TypeOK
  <2>3. day' \in [Job -> 0..LastDay + 1]
    BY <2>1 DEF Typed, TypeOK
  <2>4. \A k \in Job : pc[k] = "asking" => day'[k] = day[k]
    BY <2>1 DEF Typed, TypeOK
  <2>5. TypeOK'
    BY <2>1, <2>2, <2>3 DEF Typed, TypeOK
  <2>6. ActiveInv'
    BY <2>1, <2>4 DEF Typed, ActiveInv, TeamOf
  <2> QED
    BY <2>5, <2>6 DEF Typed
<1>9. ASSUME NEW j \in Job, AskDate(j) PROVE Typed'
  BY <1>9 DEF AskDate, Missing, Collecting, Beyond, Days, Goto, Typed, TypeOK, ActiveInv, TeamOf
<1>10. ASSUME NEW j \in Job, Arrive(j) PROVE Typed'
  <2>1. /\ pc[j] = "asking" /\ day[j] \in PlanDays /\ pc' = [pc EXCEPT ![j] = "collect"]
        /\ day' = [day EXCEPT ![j] = @ + 1]
        /\ UNCHANGED <<database, errors, limit, todo, team, failed, seen, asked, crashes>>
    BY <1>10 DEF Arrive, Goto
  <2>2. got' \in [Job -> SUBSET Fixture]
    BY <1>10 DEF Arrive, Ours, Typed, TypeOK
  <2>3. byDate' \in [Client -> SUBSET PlanDays]
    BY <1>10 DEF Arrive, Typed, TypeOK
  <2>4. day' \in [Job -> 0..LastDay + 1] /\ \A k \in Job \ {j} : day'[k] = day[k]
    BY <2>1 DEF Days, Typed, TypeOK
  <2>5. TypeOK'
    BY <2>1, <2>2, <2>3, <2>4 DEF Typed, TypeOK
  <2>6. ActiveInv'
    BY <2>1, <2>4 DEF Typed, TypeOK, ActiveInv, TeamOf
  <2> QED
    BY <2>5, <2>6 DEF Typed
<1>11. ASSUME NEW j \in Job, Refused(j) PROVE Typed'
  <2>1. pc[j] = "asking" /\ UNCHANGED <<database, byDate, asked, crashes>>
    BY <1>11, RefusedCases
  <2>2. CASE AtPlanEnd(j)
    BY <2>1, <2>2 DEF AtPlanEnd, Goto, Typed, TypeOK, ActiveInv, TeamOf
  <2>3. CASE FailedDate(j)
    BY <2>1, <2>3, FailTyped DEF FailedDate, Typed, TypeOK, ActiveInv, TeamOf
  <2> QED
    BY <1>11, <2>2, <2>3, RefusedCases
<1>12. ASSUME NEW j \in Job, Upsert(j) PROVE Typed'
  BY <1>12 DEF Upsert, ToStore, Typed, TypeOK, ActiveInv, TeamOf
<1>13. ASSUME NEW j \in Job, EndTeam(j) PROVE Typed'
  BY <1>13 DEF EndTeam, Return, Goto, Typed, TypeOK, ActiveInv, TeamOf
<1>14. ASSUME NEW j \in Job, Crash(j) PROVE Typed'
  BY <1>14 DEF Crash, Goto, Typed, TypeOK, ActiveInv, TeamOf
<1>15. CASE UNCHANGED vars
  BY <1>15 DEF vars, Typed, TypeOK, ActiveInv, TeamOf
<1> QED
  BY <1>1, <1>2, <1>3, <1>4, <1>5, <1>6, <1>7, <1>8, <1>9, <1>10, <1>11, <1>12, <1>13, <1>14,
     <1>15 DEF Next

----------------------------------------------------------------------------
(* What is marked is stored.                                                *)

\* A job that another one's step leaves alone has what it had.
LEMMA OtherJob ==
    ASSUME NEW k \in Job, Collected(k), stored \subseteq stored', TeamOf(k)' = TeamOf(k),
           pc'[k] = pc[k], day'[k] = day[k], failed'[k] = failed[k], got'[k] = got[k]
    PROVE  Collected(k)'
  BY DEF Collected

\* A job that is at no team has collected nothing.
LEMMA NoTeam ==
    ASSUME NEW k \in Job, pc'[k] \notin {"collect", "asking", "store"}
    PROVE  Collected(k)'
  BY DEF Collected

\* One date more is collected.
LEMMA OneDateMore ==
    ASSUME Typed, NEW j \in Job, Collected(j), pc[j] \in {"collect", "asking"},
           pc'[j] = "collect", day'[j] = day[j] + 1, got'[j] = got[j] \cup Ours(j, day[j]),
           UNCHANGED team
    PROVE  Collected(j)'
<1>1. day[j] \in Int /\ \A f \in Fixture : Day[f] \in Int
  BY DiscoveryAssumption DEF Typed, TypeOK, Days
<1>2. ASSUME NEW f \in Fixture, TeamOf(j) \in Plays[f], Day[f] < day[j] + 1 PROVE f \in got'[j]
  BY <1>1, <1>2 DEF Collected, Ours
<1> QED
  BY <1>2 DEF Collected, TeamOf

\* The dates before one that the plan excludes are all of the plan's.
LEMMA AllDates ==
    ASSUME PlanFromToday, Typed, NEW j \in Job, Collected(j), pc[j] \in {"collect", "asking"},
           NEW d \in Int, d \in Days \ PlanDays \/ d > LastDay, d <= day[j],
           pc'[j] = "store", got'[j] = got[j], UNCHANGED <<team, stored>>
    PROVE  Collected(j)'
<1>1. ASSUME NEW f \in Fixture, TeamOf(j) \in Plays[f], Day[f] \in PlanDays PROVE f \in got[j]
  <2>1. Day[f] \in Int /\ day[j] \in Int /\ Day[f] <= LastDay /\ LastDay \in Int
    BY DiscoveryAssumption DEF Typed, TypeOK, Days
  <2>2. Day[f] < d
    BY <1>1, <2>1 DEF PlanFromToday
  <2> QED
    BY <1>1, <2>1, <2>2 DEF Collected
<1> QED
  BY <1>1 DEF Collected, TeamOf

\* A failure is remembered, or ends the work on the team.
LEMMA FailCollected ==
    ASSUME Typed, CollectedInv, NEW j \in Job, Fail(j), pc[j] \in {"collect", "asking"},
           UNCHANGED database
    PROVE  CollectedInv'
<1> USE DEF database
<1>1. Collected(j)'
  BY FailTyped, NoTeam DEF Collected
<1>2. ASSUME NEW k \in Job \ {j} PROVE Collected(k)'
  BY FailTyped, OtherJob DEF CollectedInv, TeamOf
<1>3. UNCHANGED seen
  BY FailTyped
<1> QED
  BY <1>1, <1>2, <1>3 DEF CollectedInv, MarkedComplete

\* Before anything happened.
LEMMA InitCollected == Init => CollectedInv
  BY DEF Init, CollectedInv, Collected, MarkedComplete

\* Every step keeps it.
LEMMA CollectedStep ==
    ASSUME PlanFromToday PROVE Typed /\ CollectedInv /\ [Next]_vars => CollectedInv'
<1> SUFFICES ASSUME Typed, CollectedInv, [Next]_vars PROVE CollectedInv'
  OBVIOUS
<1> USE Jobs DEF database, feeds, job
<1>0. \A f \in Fixture : ~ (Day[f] < 0)
  BY DiscoveryAssumption DEF Days
<1>1. ASSUME NEW t \in Team, StartFollow(t) PROVE CollectedInv'
  <2>1. Collect(t) /\ UNCHANGED <<fresh, stored, team, seen>>
    BY <1>1 DEF StartFollow
  <2>2. Collected(t)'
    BY <1>0, <2>1, CollectTyped DEF Collected
  <2>3. ASSUME NEW k \in Job \ {t} PROVE Collected(k)'
    BY <2>1, CollectTyped, OtherJob DEF CollectedInv, TeamOf
  <2> QED
    BY <2>1, <2>2, <2>3 DEF CollectedInv, MarkedComplete
<1>2. CASE StartPass
  <2>1. UNCHANGED <<fresh, stored, team, seen, day, got, failed>> /\ pc' = [pc EXCEPT !["pass"] = "next"]
    BY <1>2 DEF StartPass, Goto
  <2>2. \A k \in Job : Collected(k)'
    BY <2>1 DEF Typed, TypeOK, CollectedInv, Collected, TeamOf
  <2> QED
    BY <2>1, <2>2 DEF CollectedInv, MarkedComplete
<1>3. CASE NextTeam
  <2>1. Collect("pass") /\ UNCHANGED <<fresh, stored, seen>>
    BY <1>3 DEF NextTeam
  <2>2. Collected("pass")'
    BY <1>0, <2>1, CollectTyped DEF Collected
  <2>3. ASSUME NEW k \in Job \ {"pass"} PROVE Collected(k)'
    BY <2>1, CollectTyped, OtherJob DEF CollectedInv, TeamOf
  <2> QED
    BY <2>1, <2>2, <2>3 DEF CollectedInv, MarkedComplete
<1>4. CASE EndPass
  <2>1. UNCHANGED <<fresh, stored, day, got, failed>> /\ seen' = {} /\ pc' = [pc EXCEPT !["pass"] = "idle"]
    BY <1>4 DEF EndPass, Goto
  <2>2. Collected("pass")'
    BY <2>1, NoTeam DEF Typed, TypeOK
  <2>3. ASSUME NEW k \in Job \ {"pass"} PROVE Collected(k)'
    BY <2>1, OtherJob DEF Typed, TypeOK, CollectedInv, TeamOf
  <2> QED
    BY <2>1, <2>2, <2>3 DEF CollectedInv, MarkedComplete
<1>5. ASSUME NEW t \in Team, Age(t) PROVE CollectedInv'
  BY <1>5 DEF Age, CollectedInv, Collected, TeamOf, MarkedComplete
<1>6. ASSUME NEW j \in Job, EndDates(j) PROVE CollectedInv'
  <2>1. /\ pc[j] = "collect" /\ Beyond(ClientOf(j), day[j]) /\ pc' = [pc EXCEPT ![j] = "store"]
        /\ day' = [day EXCEPT ![j] = 0] /\ UNCHANGED <<fresh, stored, team, got, failed, seen>>
    BY <1>6 DEF EndDates, Collecting, Goto
  <2>2. PICK d \in Int : (d \in Days \ PlanDays \/ d > LastDay) /\ d <= day[j]
    BY <2>1, DiscoveryAssumption DEF Beyond, Typed, TypeOK, Days
  <2>3. Collected(j)'
    BY <2>1, <2>2, AllDates DEF Typed, TypeOK, CollectedInv
  <2>4. ASSUME NEW k \in Job \ {j} PROVE Collected(k)'
    BY <2>1, OtherJob DEF Typed, TypeOK, CollectedInv, TeamOf
  <2> QED
    BY <2>1, <2>3, <2>4 DEF CollectedInv, MarkedComplete
<1>7. ASSUME NEW j \in Job, FailAgain(j) PROVE CollectedInv'
  BY <1>7, FailCollected DEF FailAgain, Collecting
<1>8. ASSUME NEW j \in Job, ShareFeed(j) PROVE CollectedInv'
  <2>1. /\ pc[j] = "collect" /\ got' = [got EXCEPT ![j] = @ \cup Ours(j, day[j])]
        /\ day' = [day EXCEPT ![j] = @ + 1] /\ UNCHANGED <<fresh, stored, pc, team, failed, seen>>
    BY <1>8 DEF ShareFeed, Collecting
  <2>2. Collected(j)'
    BY <2>1, OneDateMore DEF Typed, TypeOK, CollectedInv
  <2>3. ASSUME NEW k \in Job \ {j} PROVE Collected(k)'
    BY <2>1, OtherJob DEF Typed, TypeOK, CollectedInv, TeamOf
  <2> QED
    BY <2>1, <2>2, <2>3 DEF CollectedInv, MarkedComplete
<1>9. ASSUME NEW j \in Job, AskDate(j) PROVE CollectedInv'
  <2>1. /\ pc[j] = "collect" /\ pc' = [pc EXCEPT ![j] = "asking"]
        /\ UNCHANGED <<fresh, stored, team, day, got, failed, seen>>
    BY <1>9 DEF AskDate, Missing, Collecting, Goto
  <2> QED
    BY <2>1 DEF Typed, TypeOK, CollectedInv, Collected, TeamOf, MarkedComplete
<1>10. ASSUME NEW j \in Job, Arrive(j) PROVE CollectedInv'
  <2>1. /\ pc[j] = "asking" /\ got' = [got EXCEPT ![j] = @ \cup Ours(j, day[j])]
        /\ day' = [day EXCEPT ![j] = @ + 1] /\ pc' = [pc EXCEPT ![j] = "collect"]
        /\ UNCHANGED <<fresh, stored, team, failed, seen>>
    BY <1>10 DEF Arrive, Goto
  <2>2. Collected(j)'
    BY <2>1, OneDateMore DEF Typed, TypeOK, CollectedInv
  <2>3. ASSUME NEW k \in Job \ {j} PROVE Collected(k)'
    BY <2>1, OtherJob DEF Typed, TypeOK, CollectedInv, TeamOf
  <2> QED
    BY <2>1, <2>2, <2>3 DEF CollectedInv, MarkedComplete
<1>11. ASSUME NEW j \in Job, Refused(j) PROVE CollectedInv'
  <2>1. pc[j] = "asking" /\ UNCHANGED database
    BY <1>11, RefusedCases
  <2>2. CASE AtPlanEnd(j)
    <3>1. /\ day[j] \in Days \ PlanDays /\ day[j] \in Int /\ pc' = [pc EXCEPT ![j] = "store"]
          /\ day' = [day EXCEPT ![j] = 0] /\ UNCHANGED <<team, got, failed, seen>>
      BY <2>2, DiscoveryAssumption DEF AtPlanEnd, Goto, Days
    <3>2. Collected(j)'
      BY <2>1, <3>1, AllDates DEF Typed, TypeOK, CollectedInv
    <3>3. ASSUME NEW k \in Job \ {j} PROVE Collected(k)'
      BY <2>1, <3>1, OtherJob DEF Typed, TypeOK, CollectedInv, TeamOf
    <3> QED
      BY <2>1, <3>1, <3>2, <3>3 DEF CollectedInv, MarkedComplete
  <2>3. CASE FailedDate(j)
    BY <2>1, <2>3, FailCollected DEF FailedDate
  <2> QED
    BY <1>11, <2>2, <2>3, RefusedCases
<1>12. ASSUME NEW j \in Job, Upsert(j) PROVE CollectedInv'
  <2>1. PICK f \in ToStore(j) : /\ stored' = stored \cup {f} /\ got' = [got EXCEPT ![j] = @ \ {f}]
                                 /\ seen' = IF j = "pass" THEN seen \cup {f} ELSE seen
    BY <1>12 DEF Upsert
  <2>2. pc[j] = "store" /\ UNCHANGED <<fresh, pc, team, day, failed>>
    BY <1>12 DEF Upsert
  <2>3. \A k \in Job : Collected(k)'
    BY <2>1, <2>2 DEF Typed, TypeOK, CollectedInv, Collected, TeamOf
  <2> QED
    BY <2>1, <2>2, <2>3 DEF CollectedInv, MarkedComplete
<1>13. ASSUME NEW j \in Job, EndTeam(j) PROVE CollectedInv'
  <2>1. /\ pc[j] = "store" /\ ToStore(j) = {}
        /\ fresh' = (IF ~ failed[j] THEN fresh \cup {TeamOf(j)} ELSE fresh)
        /\ got' = [got EXCEPT ![j] = {}] /\ failed' = [failed EXCEPT ![j] = FALSE]
        /\ pc' = [pc EXCEPT ![j] = IF j = "pass" THEN "next" ELSE "idle"]
        /\ UNCHANGED <<stored, team, day, seen>>
    BY <1>13 DEF EndTeam, Marks, Return, Goto
  <2>2. Collected(j)'
    BY <2>1, NoTeam DEF Typed, TypeOK
  <2>3. ASSUME NEW k \in Job \ {j} PROVE Collected(k)'
    BY <2>1, OtherJob DEF Typed, TypeOK, CollectedInv, TeamOf
  <2>4. got[j] \subseteq stored
    BY <2>1 DEF ToStore, CollectedInv
  <2>5. MarkedComplete'
    BY <2>1, <2>4 DEF MarkedComplete, CollectedInv, Collected
  <2> QED
    BY <2>1, <2>2, <2>3, <2>5 DEF CollectedInv
<1>14. ASSUME NEW j \in Job, Crash(j) PROVE CollectedInv'
  <2>1. /\ pc' = [pc EXCEPT ![j] = "idle"] /\ got' = [got EXCEPT ![j] = {}]
        /\ failed' = [failed EXCEPT ![j] = FALSE] /\ day' = [day EXCEPT ![j] = 0]
        /\ UNCHANGED <<fresh, stored>> /\ seen' \in {seen, {}}
        /\ j # "pass" => UNCHANGED team
    BY <1>14 DEF Crash, Goto
  <2>2. Collected(j)'
    BY <2>1, NoTeam DEF Typed, TypeOK
  <2>3. ASSUME NEW k \in Job \ {j} PROVE Collected(k)'
    BY <2>1, OtherJob DEF Typed, TypeOK, CollectedInv, TeamOf
  <2> QED
    BY <2>1, <2>2, <2>3 DEF CollectedInv, MarkedComplete
<1>15. CASE UNCHANGED vars
  BY <1>15 DEF vars, CollectedInv, Collected, TeamOf, MarkedComplete
<1> QED
  BY <1>1, <1>2, <1>3, <1>4, <1>5, <1>6, <1>7, <1>8, <1>9, <1>10, <1>11, <1>12, <1>13, <1>14,
     <1>15 DEF Next

----------------------------------------------------------------------------
(* The requests of a pass.                                                  *)

\* A step that asks for nothing and forgets nothing the worker's client knows.
LEMMA StillKnown ==
    ASSUME AskedInv, UNCHANGED asked,
           pc'["pass"] = "idle" => pc["pass"] = "idle",
           \A d \in Days : Known(d) => Known(d)',
           Ahead => Ahead'
    PROVE  AskedInv'
  BY DEF AskedInv, DateAskedOnce

\* A follow uses the client of the API.
LEMMA FollowsApart ==
    ASSUME AskedInv, UNCHANGED asked,
           pc'["pass"] = pc["pass"], day'["pass"] = day["pass"],
           byDate'["worker"] = byDate["worker"], errors'["worker"] = errors["worker"],
           limit'["worker"] = limit["worker"]
    PROVE  AskedInv'
  BY StillKnown DEF Ahead, Known

\* A pass that is over starts again from no request.
LEMMA Forgotten ==
    ASSUME asked' = [d \in Days |-> 0], pc'["pass"] = "idle" PROVE AskedInv'
  BY DEF AskedInv, Ahead, DateAskedOnce

\* Before anything happened.
LEMMA InitAsked == Init => AskedInv
  BY Jobs DEF Init, AskedInv, Ahead, DateAskedOnce

\* Every step keeps it.
LEMMA AskedStep == Typed /\ AskedInv /\ [Next]_vars => AskedInv'
<1> SUFFICES ASSUME Typed, AskedInv, [Next]_vars PROVE AskedInv'
  OBVIOUS
<1> USE Jobs DEF database, feeds, job
<1>1. ASSUME NEW t \in Team, StartFollow(t) PROVE AskedInv'
  <2>1. Collect(t) /\ BeginDiscovery("api") /\ UNCHANGED asked
    BY <1>1 DEF StartFollow
  <2> QED
    BY <2>1, CollectTyped, FollowsApart DEF BeginDiscovery, Typed, TypeOK
<1>2. CASE StartPass
  BY <1>2 DEF StartPass, Goto, AskedInv, Ahead, DateAskedOnce, Typed, TypeOK
<1>3. CASE NextTeam
  <2>1. pc["pass"] = "next" /\ Collect("pass") /\ UNCHANGED <<byDate, errors, limit, asked>>
    BY <1>3 DEF NextTeam
  <2> QED
    BY <2>1, CollectTyped, StillKnown DEF Ahead, Known
<1>4. CASE EndPass
  BY <1>4, Forgotten DEF EndPass, Goto, Typed, TypeOK
<1>5. ASSUME NEW t \in Team, Age(t) PROVE AskedInv'
  BY <1>5, FollowsApart DEF Age
<1>6. ASSUME NEW j \in Job, EndDates(j) PROVE AskedInv'
  <2>1. /\ pc[j] = "collect" /\ pc' = [pc EXCEPT ![j] = "store"] /\ day' = [day EXCEPT ![j] = 0]
        /\ UNCHANGED <<byDate, errors, limit, asked>>
    BY <1>6 DEF EndDates, Collecting, Goto
  <2> QED
    BY <2>1, StillKnown DEF Ahead, Known, Typed, TypeOK
<1>7. ASSUME NEW j \in Job, FailAgain(j) PROVE AskedInv'
  <2>1. pc[j] = "collect" /\ Fail(j) /\ UNCHANGED <<byDate, errors, limit, asked>>
    BY <1>7 DEF FailAgain, Collecting
  <2> QED
    BY <2>1, FailTyped, StillKnown DEF Ahead, Known
<1>8. ASSUME NEW j \in Job, ShareFeed(j) PROVE AskedInv'
  <2>1. /\ pc[j] = "collect" /\ day' = [day EXCEPT ![j] = @ + 1]
        /\ UNCHANGED <<byDate, errors, limit, pc, asked>>
    BY <1>8 DEF ShareFeed, Collecting
  <2> QED
    BY <2>1, StillKnown DEF Ahead, Known, Typed, TypeOK
<1>9. ASSUME NEW j \in Job, AskDate(j) PROVE AskedInv'
  <2>1. /\ pc[j] = "collect" /\ pc' = [pc EXCEPT ![j] = "asking"]
        /\ asked' = (IF j = "pass" THEN [asked EXCEPT ![day[j]] = @ + 1] ELSE asked)
        /\ UNCHANGED <<byDate, errors, limit, day>>
    BY <1>9 DEF AskDate, Missing, Collecting, Goto
  <2>2. CASE j # "pass"
    BY <2>1, <2>2, FollowsApart DEF Typed, TypeOK
  <2>3. CASE j = "pass"
    <3>1. ~ Known(day["pass"]) /\ day["pass"] \in Days
      BY <1>9, <2>1, <2>3, DiscoveryAssumption
      DEF AskDate, Missing, Collecting, Beyond, KnownError, Known, Days, Typed, TypeOK
    <3>2. asked[day["pass"]] = 0
      BY <3>1 DEF AskedInv, Typed, TypeOK
    <3>3. \A d \in Days : Known(d) => Known(d)'
      BY <2>1 DEF Known
    <3>4. Known(day["pass"])'
      BY <2>1, <2>3 DEF Known, Typed, TypeOK
    <3>5. pc'["pass"] # "idle"
      BY <2>1, <2>3 DEF Typed, TypeOK
    <3>6. Ahead'
      BY <1>9, <2>1, <2>3, <3>1, DiscoveryAssumption
      DEF AskDate, Missing, Beyond, Ahead, Days, Typed, TypeOK
    <3> QED
      BY <2>1, <2>3, <3>1, <3>2, <3>3, <3>4, <3>5, <3>6 DEF AskedInv, DateAskedOnce, Known, Typed, TypeOK
  <2> QED
    BY <2>2, <2>3
<1>10. ASSUME NEW j \in Job, Arrive(j) PROVE AskedInv'
  <2>1. /\ pc[j] = "asking" /\ byDate' = [byDate EXCEPT ![ClientOf(j)] = @ \cup {day[j]}]
        /\ day' = [day EXCEPT ![j] = @ + 1] /\ pc' = [pc EXCEPT ![j] = "collect"]
        /\ UNCHANGED <<errors, limit, asked>>
    BY <1>10 DEF Arrive, Goto
  <2>2. CASE j # "pass"
    <3>1. ClientOf(j) # "worker"
      BY <2>2 DEF ClientOf
    <3> QED
      BY <2>1, <2>2, <3>1, FollowsApart DEF Typed, TypeOK
  <2>3. CASE j = "pass"
    BY <2>1, <2>3, StillKnown DEF Ahead, Known, Typed, TypeOK
  <2> QED
    BY <2>2, <2>3
<1>11. ASSUME NEW j \in Job, Refused(j) PROVE AskedInv'
  <2>1. pc[j] = "asking" /\ UNCHANGED <<byDate, asked>>
    BY <1>11, RefusedCases
  <2>2. CASE j # "pass"
    <3>1. ClientOf(j) # "worker"
      BY <2>2 DEF ClientOf
    <3>2. pc'["pass"] = pc["pass"] /\ day'["pass"] = day["pass"]
      BY <1>11, <2>1, <2>2, RefusedCases, FailTyped DEF AtPlanEnd, FailedDate, Goto, Typed, TypeOK
    <3>3. errors'["worker"] = errors["worker"] /\ limit'["worker"] = limit["worker"]
      BY <1>11, <3>1, RefusedCases DEF AtPlanEnd, FailedDate, Typed, TypeOK
    <3> QED
      BY <2>1, <3>2, <3>3, FollowsApart
  <2>3. CASE j = "pass"
    <3>1. CASE AtPlanEnd(j)
      <4>1. /\ day["pass"] \in Days /\ limit' = [limit EXCEPT !["worker"] = day["pass"]]
            /\ pc' = [pc EXCEPT !["pass"] = "store"] /\ UNCHANGED errors
        BY <2>3, <3>1 DEF AtPlanEnd, Goto
      <4>2. limit'["worker"] = day["pass"] /\ day["pass"] # None
        BY <4>1, DiscoveryAssumption DEF Typed, TypeOK
      <4>3. limit["worker"] # None => day["pass"] <= limit["worker"]
        BY <2>1, <2>3, DiscoveryAssumption DEF AskedInv, Ahead, Days, Typed, TypeOK
      <4>4. \A d \in Days : Known(d) => Known(d)'
        BY <2>1, <4>1, <4>2, <4>3, DiscoveryAssumption DEF Known, Days, Typed, TypeOK
      <4> QED
        BY <2>1, <2>3, <4>1, <4>4, StillKnown DEF Ahead, Typed, TypeOK
    <3>2. CASE FailedDate(j)
      BY <2>1, <2>3, <3>2, FailTyped, StillKnown DEF FailedDate, Ahead, Known, Typed, TypeOK
    <3> QED
      BY <1>11, <3>1, <3>2, RefusedCases
  <2> QED
    BY <2>2, <2>3
<1>12. ASSUME NEW j \in Job, Upsert(j) PROVE AskedInv'
  BY <1>12, FollowsApart DEF Upsert
<1>13. ASSUME NEW j \in Job, EndTeam(j) PROVE AskedInv'
  <2>1. /\ pc[j] = "store" /\ pc' = [pc EXCEPT ![j] = IF j = "pass" THEN "next" ELSE "idle"]
        /\ UNCHANGED <<byDate, errors, limit, day, asked>>
    BY <1>13 DEF EndTeam, Return, Goto
  <2> QED
    BY <2>1, StillKnown DEF Ahead, Known, Typed, TypeOK
<1>14. ASSUME NEW j \in Job, Crash(j) PROVE AskedInv'
  <2>1. /\ pc' = [pc EXCEPT ![j] = "idle"] /\ day' = [day EXCEPT ![j] = 0]
        /\ UNCHANGED <<byDate, errors, limit>>
        /\ IF j = "pass" THEN asked' = [d \in Days |-> 0] ELSE UNCHANGED asked
    BY <1>14 DEF Crash, Goto
  <2> QED
    BY <2>1, Forgotten, FollowsApart DEF Typed, TypeOK
<1>15. CASE UNCHANGED vars
  BY <1>15, FollowsApart DEF vars
<1> QED
  BY <1>1, <1>2, <1>3, <1>4, <1>5, <1>6, <1>7, <1>8, <1>9, <1>10, <1>11, <1>12, <1>13, <1>14,
     <1>15 DEF Next

----------------------------------------------------------------------------

\* The variables keep their types, and a client's boundary lies beyond the plan's dates.
THEOREM DiscoveryTypeCorrect == Spec => []TypeOK
<1>1. Typed => TypeOK
  BY DEF Typed
<1> QED
  BY <1>1, InitTyped, TypedStep, PTL DEF Spec

\* A pass asks for each date at most once, also when the request fails or the plan
\* excludes the date, and however many follows ask for it beside the pass.
THEOREM AskedOnce == Spec => []DateAskedOnce
<1>1. Init => Typed /\ AskedInv
  BY InitTyped, InitAsked
<1>2. Typed /\ AskedInv => DateAskedOnce
  BY DEF AskedInv
<1>3. Typed /\ AskedInv /\ [Next]_vars => Typed' /\ AskedInv'
  BY TypedStep, AskedStep
<1> QED
  BY <1>1, <1>2, <1>3, PTL DEF Spec

\* A team counts as discovered only when all its fixtures of the plan's dates are
\* stored, whatever follows clear the feeds it shares, requests fail and jobs crash;
\* provided that the plan excludes late dates only, as the client's boundary assumes.
THEOREM MarkedStored == ASSUME PlanFromToday PROVE Spec => []MarkedComplete
<1>1. Init => Typed /\ CollectedInv
  BY InitTyped, InitCollected
<1>2. Typed /\ CollectedInv => MarkedComplete
  BY DEF CollectedInv
<1>3. Typed /\ CollectedInv /\ [Next]_vars => Typed' /\ CollectedInv'
  BY TypedStep, CollectedStep
<1> QED
  BY <1>1, <1>2, <1>3, PTL DEF Spec
=============================================================================

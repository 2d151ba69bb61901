-------------------------------- MODULE Pages --------------------------------
(***************************************************************************)
(* The pages of one browser tab of a signed-in user: the router of          *)
(* frontend/src/App.jsx shows one of them at a time, and what an earlier    *)
(* one has sent is still served while the next one is used.                 *)
(***************************************************************************)
EXTENDS MatchPage, SearchPage, SettingsPage, DashboardPage

CONSTANTS MaxVisits      \* bound on pages opened

VARIABLES visits         \* bounded counter

ASSUME PagesAssumption ==
    /\ {MaxMounts, MaxReads, MaxMutations, MaxSearches, MaxDashReads, MaxVisits} \subseteq Nat \ {0}
    /\ {MaxForeign, MaxElsewhere, MaxFollows, MaxSaves} \subseteq Nat
    /\ Playing \subseteq Team
    /\ Nothing \notin Query \cup BOOLEAN \cup Nat \cup Rows \cup Lists \cup Searches
    /\ None \notin BOOLEAN \cup Nat \cup {Nothing}

vars == <<visits, subsVars, matchVars, searchVars, settingsVars, dashVars>>

Init == SubsInit /\ MatchInit /\ SearchInit /\ SettingsInit /\ DashInit /\ visits = 0

\* Mutant of NoPage: the dashboard stays while another page is opened.
NoPageOrDashboard == mount = None /\ ~open /\ ~settingsOpen

\* No page is on screen.
NoPage == mount = None /\ ~open /\ ~settingsOpen /\ ~dashOpen

\* A step of one page, and of the requests it has sent.
OnMatch(step) == step /\ UNCHANGED <<subsVars, searchVars, settingsVars, dashVars>>
OnSearch(step) == step /\ UNCHANGED <<matchVars, settingsVars, dashVars>>
OnSettings(step) == step /\ UNCHANGED <<matchVars, searchVars, dashVars>>
OnDashboard(step) == step /\ UNCHANGED <<matchVars, searchVars, settingsVars>>

\* A link is followed: the page that was left is gone by then.
Visit ==
    /\ NoPage /\ visits < MaxVisits /\ visits' = visits + 1
    /\ \/ OnMatch(Open) \/ OnSearch(OpenSearch)
       \/ OnSettings(OpenSettings) \/ OnDashboard(OpenDashboard)

\* What the user and the timers of the page do.
Use ==
    /\ \/ OnMatch(Close \/ Load \/ Toggle)
       \/ OnSearch(SearchNext) \/ OnSettings(SettingsNext) \/ OnDashboard(DashNext)
    /\ UNCHANGED visits

\* Requests are served and answered, those of earlier visits too.
Serve ==
    /\ \/ OnMatch(MatchServe)
       \/ OnSearch(FollowServe) \/ OnSettings(SettingsServe)
    /\ UNCHANGED visits

\* The user's other devices.
OtherDevice ==
    /\ \/ OnMatch(MuteElsewhere)
       \/ \E t \in Team : Elsewhere(t) /\ UNCHANGED <<matchVars, searchVars, settingsVars, dashVars>>
    /\ UNCHANGED visits

Next == Visit \/ Use \/ Serve \/ OtherDevice

Spec == Init /\ [][Next]_vars

----------------------------------------------------------------------------

\* Type invariant of the pages; at most one of them is on screen.
TypeOK ==
    /\ SubsTypeOK /\ MatchTypeOK /\ SearchTypeOK /\ SettingsTypeOK /\ DashTypeOK
    /\ visits \in 0..MaxVisits
    /\ mount # None => ~(open \/ settingsOpen \/ dashOpen)
    /\ open => ~(settingsOpen \/ dashOpen)
    /\ ~(settingsOpen /\ dashOpen)

\* No indicator is stuck, and none is missing: a page shows that it waits for an answer
\* exactly while the answer it would accept is on its way.
NoStuckIndicator == WaitingHonest /\ LoadingHonest /\ RefreshingHonest
=============================================================================

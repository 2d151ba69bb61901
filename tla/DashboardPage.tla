----------------------------- MODULE DashboardPage -----------------------------
(***************************************************************************)
(* The dashboard, frontend/src/pages/Dashboard.jsx: the matches of the      *)
(* followed teams, polled with createLatestRequest of lib/latestRequest.js  *)
(* and kept while a read fails.  What an answer holds is told apart by the  *)
(* version of the subscriptions it was read from.                           *)
(***************************************************************************)
EXTENDS Subscriptions

CONSTANTS MaxDashReads   \* bound on reads of one visit

VARIABLES
    dashOpen,
    matches,         \* the version shown, Nothing before the first answer
    updating,        \* refreshing of the page
    dashRead,        \* number of the latest read
    dashReads,       \* reads on their way
    seen             \* history: the version at the opening, or the last one shown

dashVars == <<dashOpen, matches, updating, dashRead, dashReads, seen>>

DashInit ==
    /\ dashOpen = FALSE /\ matches = Nothing /\ updating = FALSE
    /\ dashRead = 0 /\ dashReads = {} /\ seen = 0

\* The effect of a mount, with its first read.
OpenDashboard ==
    /\ ~dashOpen /\ dashOpen' = TRUE
    /\ updating' = TRUE
    /\ dashRead' = 1 /\ dashReads' = {[n |-> 1, answer |-> Nothing]}
    /\ seen' = version
    /\ gone' = {}
    /\ UNCHANGED <<rowVars, kept, elsewhere, matches>>

\* The cleanup: the read is cancelled and the timers are stopped.
CloseDashboard ==
    /\ dashOpen /\ dashOpen' = FALSE
    /\ matches' = Nothing /\ updating' = FALSE
    /\ dashRead' = 0 /\ dashReads' = {} /\ seen' = 0
    /\ UNCHANGED subsVars

\* load, every 15 seconds, when the tab becomes visible, and from two buttons.  The
\* read before it is aborted, and its answer may come all the same.
Refresh ==
    /\ dashOpen /\ dashRead < MaxDashReads
    /\ dashRead' = dashRead + 1
    /\ dashReads' = dashReads \cup {[n |-> dashRead + 1, answer |-> Nothing]}
    /\ updating' = TRUE
    /\ UNCHANGED <<subsVars, dashOpen, matches, seen>>

\* find_live_matches_for_user
ServeDashboard(r) ==
    /\ r \in dashReads /\ r.answer = Nothing
    /\ dashReads' = (dashReads \ {r}) \cup {[r EXCEPT !.answer = version]}
    /\ UNCHANGED <<subsVars, dashOpen, matches, updating, dashRead, seen>>

\* Mutant of LatestRead: an answer is taken that was read before the one shown.
AnyRead(r) == r.n \in 1..dashRead

\* isCurrent of the request.
LatestRead(r) == r.n = dashRead

\* The answer, or a failure, which leaves the matches that are shown.
EndRefresh(r) ==
    /\ r \in dashReads
    /\ dashReads' = dashReads \ {r}
    /\ IF LatestRead(r)
       THEN /\ updating' = FALSE
            /\ matches' \in {matches} \cup ({r.answer} \ {Nothing})
            /\ seen' = IF matches' = Nothing \/ matches' < seen THEN seen ELSE matches'
       ELSE UNCHANGED <<updating, matches, seen>>
    /\ UNCHANGED <<subsVars, dashOpen, dashRead>>

DashNext == CloseDashboard \/ Refresh \/ \E r \in dashReads : ServeDashboard(r) \/ EndRefresh(r)

----------------------------------------------------------------------------

DashTypeOK ==
    /\ {dashOpen, updating} \subseteq BOOLEAN
    /\ {matches} \subseteq (0..version) \cup {Nothing} /\ seen \in 0..version
    /\ dashRead \in 0..MaxDashReads
    /\ dashReads \subseteq [n : 1..MaxDashReads, answer : (0..version) \cup {Nothing}]

\* The page says that it refreshes exactly while the read it awaits is on its way.
RefreshingHonest == updating <=> \E r \in dashReads : LatestRead(r)

\* The dashboard goes forward only: no answer that was overtaken by a later read brings
\* back matches of a team that was seen to be unfollowed, or hides those of a team seen
\* to be followed, and none is older than the visit.
DashboardForward == matches # Nothing => matches = seen
=============================================================================

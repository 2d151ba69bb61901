------------------------------ MODULE SearchPage ------------------------------
(***************************************************************************)
(* The team search page, frontend/src/pages/Search.jsx: the debounced,      *)
(* cancellable search of lib/teamSearch.js, the choice of a suggestion, and *)
(* the follow of a team, with the controller of lib/teamFollow.js.  Every   *)
(* query finds every team, and an answer does not say which are followed.   *)
(***************************************************************************)
EXTENDS Subscriptions

CONSTANTS
    Query,           \* queries of three characters and more
    MaxSearches,     \* bound on searches and cancellations of one visit
    MaxFollows       \* bound on follows, of all visits

VARIABLES
    open,            \* the page is mounted
    q,               \* the query typed, Nothing while it is too short
    debounce,        \* the 350 ms timer is running
    sequence,        \* of the search controller
    active,          \* the search that is on: its number and query, or Nothing
    replies,         \* answers on their way, also to searches that were cancelled
    loading,
    results,         \* the query the teams shown belong to, or Nothing
    marked,          \* the teams among them that are shown as followed
    follows,         \* follow requests on their way; "mine" are those of this visit
    lastFollow       \* number of the last one

typing == <<q, debounce, sequence, active, replies, loading>>
following == <<follows, lastFollow>>
searchVars == <<open, typing, results, marked, following>>

Searches == [id : 1..MaxSearches, query : Query]

Follows == [n : 1..MaxFollows, team : Team, stored : BOOLEAN, mine : BOOLEAN]

SearchInit ==
    /\ open = FALSE /\ q = Nothing /\ debounce = FALSE
    /\ sequence = 0 /\ active = Nothing /\ replies = {}
    /\ loading = FALSE /\ results = Nothing /\ marked = {}
    /\ follows = {} /\ lastFollow = 0

\* A new controller, and an empty page.
OpenSearch ==
    /\ ~open /\ open' = TRUE
    /\ gone' = {}
    /\ UNCHANGED <<rowVars, kept, elsewhere, typing, results, marked, following>>

\* The cleanup of the effect: the timer and the search are cancelled, and the page
\* is forgotten.  Follows are not cancelled, and nobody waits for their answer.
CloseSearch ==
    /\ open /\ open' = FALSE
    /\ q' = Nothing /\ debounce' = FALSE
    /\ sequence' = 0 /\ active' = Nothing /\ replies' = {}
    /\ loading' = FALSE /\ results' = Nothing /\ marked' = {}
    /\ follows' = {[f EXCEPT !.mine = FALSE] : f \in {g \in follows : ~g.stored}}
    /\ UNCHANGED <<subsVars, lastFollow>>

\* Mutant of Cancel: the search is stopped, and its number stays valid.
CancelKeepingNumber == sequence' = sequence /\ active' = Nothing

\* cancel of the controller.
Cancel == sequence' = sequence + 1 /\ active' = Nothing

\* The effect of a new text in the field, which may be the same query with other
\* spaces: the search for the old one is cancelled, everything shown for it is cleared,
\* and the timer is set for a query that is long enough.
Type ==
    /\ open /\ sequence < MaxSearches
    /\ q' \in Query \cup {Nothing}
    /\ debounce' = (q' # Nothing)
    /\ IF q = Nothing THEN UNCHANGED <<sequence, active>> ELSE Cancel
    /\ loading' = FALSE /\ results' = Nothing /\ marked' = {}
    /\ UNCHANGED <<subsVars, open, replies, following>>

\* start of the controller, from the timer or from the form, which stops the timer.
Start ==
    /\ open /\ q # Nothing /\ sequence < MaxSearches
    /\ sequence' = sequence + 1
    /\ active' = [id |-> sequence + 1, query |-> q]
    /\ replies' = replies \cup {active'}
    /\ debounce' = FALSE
    /\ loading' = TRUE
    /\ UNCHANGED <<subsVars, open, q, results, marked, following>>

Latest(r) == r.id = sequence

\* The end of the latest search, whatever its outcome.
Finish == active' = Nothing /\ loading' = FALSE

\* An answer arrives; the transport may ignore that it was aborted.
Answered(r) ==
    /\ r \in replies
    /\ replies' = replies \ {r}
    /\ IF Latest(r) THEN results' = r.query /\ marked' = {} /\ Finish
       ELSE UNCHANGED <<results, marked, active, loading>>
    /\ UNCHANGED <<subsVars, open, q, debounce, sequence, following>>

\* The request fails.
Failed(r) ==
    /\ r \in replies
    /\ replies' = replies \ {r}
    /\ IF Latest(r) THEN Finish ELSE UNCHANGED <<active, loading>>
    /\ UNCHANGED <<subsVars, open, q, debounce, sequence, results, marked, following>>

\* The 15 seconds are over: the search ends, the answer may still come.  The number
\* stays, but the race is over for that answer.
TimeOut ==
    /\ active # Nothing
    /\ replies' = replies \ {active}
    /\ Finish
    /\ UNCHANGED <<subsVars, open, q, debounce, sequence, results, marked, following>>

\* select: a suggestion is chosen from the results, and any search is cancelled.
Select ==
    /\ open /\ results # Nothing /\ sequence < MaxSearches
    /\ debounce' = FALSE
    /\ Cancel
    /\ loading' = FALSE
    /\ UNCHANGED <<subsVars, open, q, replies, results, marked, following>>

----------------------------------------------------------------------------

\* follow of the controller: a team that is shown as followed, or whose follow is on
\* its way, is left alone; others are shown as followed at once.
Follow(t) ==
    /\ open /\ results # Nothing
    /\ t \notin marked /\ ~\E f \in follows : f.mine /\ f.team = t
    /\ lastFollow < MaxFollows /\ lastFollow' = lastFollow + 1
    /\ follows' = follows \cup {[n |-> lastFollow + 1, team |-> t, stored |-> FALSE, mine |-> TRUE]}
    /\ marked' = marked \cup {t}
    /\ UNCHANGED <<subsVars, open, typing, results>>

\* create of the service stores the follow, and looks for fixtures before it answers.
StoreFollow(f) ==
    /\ f \in follows /\ ~f.stored
    /\ CreateSubscription(f.team)
    /\ follows' = (follows \ {f}) \cup (IF f.mine THEN {[f EXCEPT !.stored = TRUE]} ELSE {})
    /\ UNCHANGED <<kept, gone, elsewhere, open, typing, results, marked, lastFollow>>

\* The answer: the warning it may hold changes nothing here.
AckFollow(f) ==
    /\ f \in follows /\ f.stored
    /\ follows' = follows \ {f}
    /\ UNCHANGED <<subsVars, open, typing, results, marked, lastFollow>>

\* Mutant of Rollback: the team stays shown as followed.
RollbackNot(f) == UNCHANGED marked

\* onRollback, which finds nothing to take back once the page was left.
Rollback(f) == marked' = IF f.mine THEN marked \ {f.team} ELSE marked

\* The follow fails: lost before or after it was stored, or lost to the page only and
\* still on its way to the server.
FailFollow(f) ==
    /\ f \in follows
    /\ \/ follows' = follows \ {f}
       \/ /\ f.mine /\ ~f.stored
          /\ follows' = (follows \ {f}) \cup {[f EXCEPT !.mine = FALSE]}
    /\ Rollback(f)
    /\ UNCHANGED <<subsVars, open, typing, results, lastFollow>>

SearchNext ==
    \/ CloseSearch \/ Type \/ Start \/ TimeOut \/ Select
    \/ \E r \in replies : Answered(r) \/ Failed(r)
    \/ \E t \in Team : Follow(t)

FollowServe == \E f \in follows : StoreFollow(f) \/ AckFollow(f) \/ FailFollow(f)

----------------------------------------------------------------------------

SearchTypeOK ==
    /\ open \in BOOLEAN /\ q \in Query \cup {Nothing} /\ debounce \in BOOLEAN
    /\ sequence \in 0..MaxSearches /\ active \in Searches \cup {Nothing}
    /\ replies \subseteq Searches /\ loading \in BOOLEAN /\ results \in Query \cup {Nothing}
    /\ marked \subseteq Team /\ follows \subseteq Follows /\ lastFollow \in 0..MaxFollows

\* The page says that it is loading exactly while a search is on whose answer it
\* awaits.
LoadingHonest == /\ loading <=> active # Nothing
                 /\ active # Nothing => active \in replies /\ active.query = q

\* The teams shown are those of the query that stands in the field: no late answer
\* to an earlier query, cancelled or not, is shown for the new one.
ResultsAnswerQuery == results # Nothing => results = q

\* A team is shown as followed only while its follow is on its way, or stored: a
\* failure takes it back, also of the second follow of one team, and whatever searches
\* came between.  Only an unfollow that reaches the server since the page was opened, from
\* another device or an earlier page, makes it wrong.
FollowHonest ==
    \A t \in marked : \/ subs[t] # Nothing \/ t \in gone
                      \/ \E f \in follows : f.mine /\ f.team = t
=============================================================================

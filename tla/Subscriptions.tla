----------------------------- MODULE Subscriptions -----------------------------
(***************************************************************************)
(* The subscriptions of one user, as the routes of                          *)
(* app/routers/subscriptions.py, app/services/subscription_service.py and   *)
(* app/repositories/subscriptions.py read and write them.  One preference   *)
(* stands for the three: a PATCH names one of them and leaves the others.   *)
(***************************************************************************)
EXTENDS Integers

CONSTANTS
    Team,
    MaxElsewhere,    \* bound on changes from the user's other devices
    Nothing

VARIABLES
    subs,            \* the row of each team, or Nothing
    lastId,          \* ids handed out so far
    version,         \* history: how often a row was inserted or deleted
    kept,            \* history: the preference of a team that the user last saw
                     \* saved, Nothing once something else has written
    gone,            \* history: teams unfollowed since the current page was opened
    elsewhere        \* bounded counter

rowVars == <<subs, lastId, version>>
subsVars == <<rowVars, kept, gone, elsewhere>>

Rows == [id : Nat \ {0}, on : BOOLEAN]

\* The user may follow a team already, with a preference saved earlier.
SubsInit ==
    /\ subs \in [Team -> {[id |-> 1, on |-> b] : b \in BOOLEAN} \cup {Nothing}]
    /\ \A t, u \in Team : t # u /\ subs[t] # Nothing => subs[u] = Nothing
    /\ lastId = 1 /\ version = 0
    /\ kept = [t \in Team |-> IF subs[t] = Nothing THEN Nothing ELSE subs[t].on]
    /\ gone = {} /\ elsewhere = 0

\* Mutant of CreateSubscription: the conflict takes the preferences of the request.
CreateSubscriptionReplacing(t) ==
    /\ subs' = [subs EXCEPT ![t] = IF @ = Nothing THEN [id |-> lastId + 1, on |-> TRUE]
                                   ELSE [@ EXCEPT !.on = TRUE]]
    /\ lastId' = IF subs[t] = Nothing THEN lastId + 1 ELSE lastId
    /\ version' = IF subs[t] = Nothing THEN version + 1 ELSE version

\* create_subscription: a new row with everything on, or the row that is there.
CreateSubscription(t) ==
    IF subs[t] = Nothing
    THEN /\ subs' = [subs EXCEPT ![t] = [id |-> lastId + 1, on |-> TRUE]]
         /\ lastId' = lastId + 1
         /\ version' = version + 1
    ELSE UNCHANGED rowVars

\* The row with this id is still there.
Exists(t, id) == subs[t] # Nothing /\ subs[t].id = id

\* update_subscription, by id; no row is an answer of 404.
UpdateSubscription(t, id, value) ==
    /\ subs' = IF Exists(t, id) THEN [subs EXCEPT ![t].on = value] ELSE subs
    /\ UNCHANGED <<lastId, version>>

\* delete_subscription, by id.
DeleteSubscription(t, id) ==
    /\ IF Exists(t, id)
       THEN subs' = [subs EXCEPT ![t] = Nothing] /\ version' = version + 1
       ELSE UNCHANGED <<subs, version>>
    /\ UNCHANGED lastId

\* Another device follows, unfollows or changes the preference.
Elsewhere(t) ==
    /\ elsewhere < MaxElsewhere /\ elsewhere' = elsewhere + 1
    /\ kept' = [kept EXCEPT ![t] = Nothing]
    /\ IF subs[t] = Nothing
       THEN CreateSubscription(t) /\ UNCHANGED gone
       ELSE \/ DeleteSubscription(t, subs[t].id) /\ gone' = gone \cup {t}
            \/ UpdateSubscription(t, subs[t].id, ~subs[t].on) /\ UNCHANGED gone

SubsTypeOK ==
    /\ subs \in [Team -> Rows \cup {Nothing}] /\ lastId \in Nat /\ version \in Nat
    /\ \A t \in Team : subs[t] # Nothing => subs[t].id <= lastId
    /\ kept \in [Team -> BOOLEAN \cup {Nothing}] /\ gone \subseteq Team
    /\ elsewhere \in 0..MaxElsewhere
=============================================================================

----------------------------- MODULE SettingsPage -----------------------------
(***************************************************************************)
(* The settings page, frontend/src/pages/Settings.jsx: the list of          *)
(* followed teams, read once per visit, and the changes saved row by row,   *)
(* which go on when the page is left.                                       *)
(***************************************************************************)
EXTENDS Subscriptions

CONSTANTS MaxSaves         \* bound on changes, of all visits

VARIABLES
    settingsOpen,
    listing,         \* the read of this visit: "off", "sent" or "answered"
    answer,          \* and its answer
    listed,          \* subs of the page, Nothing before the first answer
    saves,           \* changes on their way; "mine" are those of this visit
    lastSave         \* number of the last change

settingsVars == <<settingsOpen, listing, answer, listed, saves, lastSave>>

Lists == [Team -> Rows \cup {Nothing}]

\* A change is the new preference, or Nothing for an unfollow.
Saves == [n : 1..MaxSaves, team : Team, id : Nat \ {0}, change : BOOLEAN \cup {Nothing},
          state : {"sent", "done", "missing"}, mine : BOOLEAN]

SettingsInit ==
    /\ settingsOpen = FALSE /\ listing = "off" /\ answer = Nothing /\ listed = Nothing
    /\ saves = {} /\ lastSave = 0

\* The effect of a mount, and its cleanup: the read is cancelled, changes are not.
OpenSettings ==
    /\ ~settingsOpen /\ settingsOpen' = TRUE
    /\ listing' = "sent"
    /\ gone' = {}
    /\ UNCHANGED <<rowVars, kept, elsewhere, answer, listed, saves, lastSave>>

CloseSettings ==
    /\ settingsOpen /\ settingsOpen' = FALSE
    /\ listing' = "off" /\ answer' = Nothing /\ listed' = Nothing
    /\ saves' = {[s EXCEPT !.mine = FALSE] : s \in {c \in saves : c.state = "sent"}}
    /\ UNCHANGED <<subsVars, lastSave>>

\* load again, from the button that stands there while nothing is listed.
Reload ==
    /\ settingsOpen /\ listing = "off" /\ listed = Nothing
    /\ listing' = "sent"
    /\ UNCHANGED <<subsVars, settingsOpen, answer, listed, saves, lastSave>>

\* list_subscriptions
ServeListing ==
    /\ listing = "sent"
    /\ listing' = "answered" /\ answer' = subs
    /\ UNCHANGED <<subsVars, settingsOpen, listed, saves, lastSave>>

\* The answer, or a failure, which leaves a button to try again.
EndListing ==
    /\ listing # "off"
    /\ listing' = "off" /\ answer' = Nothing
    /\ listed' \in {listed, answer}
    /\ UNCHANGED <<subsVars, settingsOpen, saves, lastSave>>

----------------------------------------------------------------------------

Saving(t) == \E s \in saves : s.mine /\ s.team = t

\* save, from toggle or unfollow: one change of a row at a time.
Save(t, change) ==
    /\ settingsOpen /\ listed # Nothing /\ listed[t] # Nothing
    /\ ~Saving(t)
    /\ lastSave < MaxSaves /\ lastSave' = lastSave + 1
    /\ saves' = saves \cup {[n |-> lastSave + 1, team |-> t, id |-> listed[t].id,
                             change |-> change, state |-> "sent", mine |-> TRUE]}
    /\ UNCHANGED <<subsVars, settingsOpen, listing, answer, listed>>

Change(t) == Save(t, Nothing) \/ Save(t, ~listed[t].on)

Served(s) == IF Exists(s.team, s.id) THEN "done" ELSE "missing"

\* update and remove of the service; 404 when the row has gone.  Nobody waits for the
\* answer to a change of an earlier visit.
ServeSave(s) ==
    /\ s \in saves /\ s.state = "sent"
    /\ IF s.change = Nothing THEN DeleteSubscription(s.team, s.id)
       ELSE UpdateSubscription(s.team, s.id, s.change)
    /\ saves' = (saves \ {s}) \cup
                (IF s.mine THEN {[s EXCEPT !.state = Served(s)]} ELSE {})
    /\ kept' = [kept EXCEPT ![s.team] = Nothing]
    /\ gone' = IF s.change = Nothing THEN gone \cup {s.team} ELSE gone
    /\ UNCHANGED <<elsewhere, settingsOpen, listing, answer, listed, lastSave>>

\* The change is acknowledged: the page shows it, and the row may be changed again.
EndSave(s) ==
    /\ s \in saves /\ s.state = "done"
    /\ saves' = saves \ {s}
    /\ listed' = [listed EXCEPT ![s.team] =
                    IF s.change = Nothing THEN Nothing ELSE [@ EXCEPT !.on = s.change]]
    /\ kept' = IF s.change # Nothing /\ Exists(s.team, s.id) /\ subs[s.team].on = s.change
               THEN [kept EXCEPT ![s.team] = s.change] ELSE kept
    /\ UNCHANGED <<rowVars, gone, elsewhere, settingsOpen, listing, answer, lastSave>>

\* The change fails: not found, lost before or after it was served, or lost to the
\* page only and still on its way to the server.
FailSave(s) ==
    /\ s \in saves
    /\ \/ saves' = saves \ {s}
       \/ /\ s.state = "sent" /\ s.mine
          /\ saves' = (saves \ {s}) \cup {[s EXCEPT !.mine = FALSE]}
    /\ UNCHANGED <<subsVars, settingsOpen, listing, answer, listed, lastSave>>

SettingsNext ==
    \/ CloseSettings \/ Reload \/ EndListing
    \/ \E t \in Team : Change(t)

SettingsServe ==
    \/ ServeListing
    \/ \E s \in saves : ServeSave(s) \/ EndSave(s) \/ FailSave(s)

----------------------------------------------------------------------------

SettingsTypeOK ==
    /\ settingsOpen \in BOOLEAN /\ listing \in {"off", "sent", "answered"}
    /\ {answer, listed} \subseteq Lists \cup {Nothing}
    /\ saves \subseteq Saves /\ lastSave \in 0..MaxSaves

\* "Existing preferences are preserved": a preference that the user saw saved is the
\* one stored, and the one a settings page shows, now and on later visits, until the
\* user or another device writes again.  Following the team once more, which the
\* search page offers for teams already followed, does not turn it back.
SavedPreferenceKept ==
    \A t \in Team : kept[t] # Nothing =>
        /\ subs[t] # Nothing /\ subs[t].on = kept[t]
        /\ (listed # Nothing /\ listed[t] # Nothing) => listed[t].on = kept[t]
=============================================================================

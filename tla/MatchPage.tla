------------------------------ MODULE MatchPage ------------------------------
(***************************************************************************)
(* The page of one match, frontend/src/pages/MatchDetail.jsx: its polled    *)
(* reads and the mute button, with createLatestRequest of                   *)
(* lib/latestRequest.js, against the routes of app/routers/matches.py.      *)
(* The route is keyed by the match, so that every mount has new state and   *)
(* new counters of requests.                                                *)
(***************************************************************************)
EXTENDS Subscriptions

CONSTANTS
    Playing,         \* the teams of the match
    MaxMounts,       \* bound on visits of the page
    MaxReads,        \* bound on reads and cancellations of one visit
    MaxMutations,    \* bound on mutations of one visit
    MaxForeign,      \* bound on mutes and unmutes from elsewhere
    None

VARIABLES
    muted,           \* muted_matches: is the match muted for the user
    mount,           \* the current visit, numbered, or None
    shown,           \* data.match.muted, or None before the first answer
    notFound,
    refreshing,
    mutePending,     \* with the state "muting", which follows it
    mutation,        \* version of the latest mutation of this visit
    read,            \* version of the latest read of this visit
    calls,           \* requests on their way
    mounts, foreign, \* bounded counters
    settled          \* history: the value of this visit's last acknowledged
                     \* mutation, None once something else has written

page == <<mount, shown, notFound, refreshing, mutePending, mutation, read>>
matchVars == <<muted, page, calls, mounts, foreign, settled>>

Reads == [kind : {"read"}, mount : 1..MaxMounts, version : 1..MaxReads,
          answer : BOOLEAN \cup {None, Nothing}]

Mutations == [kind : {"mutation"}, mount : 1..MaxMounts, version : 1..MaxMutations,
              value : BOOLEAN, state : {"sent", "done", "refused"}]

MatchInit ==
    /\ muted \in BOOLEAN
    /\ mount = None /\ shown = None /\ notFound = FALSE /\ refreshing = FALSE /\ mutePending = FALSE
    /\ mutation = 0 /\ read = 0
    /\ calls = {}
    /\ mounts = 0 /\ foreign = 0
    /\ settled = None

\* Is this the latest request of its kind of the current visit?
Current(c) == c.mount = mount /\ c.version = (IF c.kind = "read" THEN read ELSE mutation)

\* find_match_for_user: only to those who follow one of its teams.
Visible == \E t \in Playing : subs[t] # Nothing

NewRead(m, v) == [kind |-> "read", mount |-> m, version |-> v, answer |-> None]

----------------------------------------------------------------------------

\* The effect of a new mount: all state is new, and the first read is started.
Open ==
    /\ mount = None /\ mounts < MaxMounts
    /\ mounts' = mounts + 1 /\ mount' = mounts + 1
    /\ shown' = None /\ notFound' = FALSE /\ refreshing' = TRUE /\ mutePending' = FALSE
    /\ mutation' = 0 /\ read' = 1
    /\ calls' = calls \cup {NewRead(mounts + 1, 1)}
    /\ settled' = None
    /\ UNCHANGED <<muted, foreign>>

\* The cleanup of the effect cancels reads and mutations.  Nobody waits for the answer
\* of a read any more; a mutation is on its way all the same.
Close ==
    /\ mount # None
    /\ mount' = None
    /\ shown' = None /\ notFound' = FALSE /\ refreshing' = FALSE /\ mutePending' = FALSE
    /\ mutation' = 0 /\ read' = 0
    /\ calls' = {c \in calls : c.kind = "mutation"}
    /\ settled' = None
    /\ UNCHANGED <<muted, mounts, foreign>>

MayLoad == ~mutePending

\* load, every 15 seconds and when the tab becomes visible.
Load ==
    /\ mount # None /\ MayLoad /\ read < MaxReads
    /\ read' = read + 1
    /\ refreshing' = TRUE
    /\ calls' = calls \cup {NewRead(mount, read + 1)}
    /\ UNCHANGED <<muted, mount, shown, notFound, mutePending, mutation, mounts, foreign, settled>>

\* detail: the server reads the mute flag, or answers 404.
ServeRead(c) ==
    /\ c \in calls /\ c.kind = "read" /\ c.answer = None
    /\ calls' = (calls \ {c}) \cup {[c EXCEPT !.answer = IF Visible THEN muted ELSE Nothing]}
    /\ UNCHANGED <<muted, page, mounts, foreign, settled>>

\* The answer of a read, or its failure, which leaves what is shown.
EndRead(c) ==
    /\ c \in calls /\ c.kind = "read"
    /\ calls' = calls \ {c}
    /\ IF Current(c)
       THEN /\ refreshing' = FALSE
            /\ \/ UNCHANGED <<shown, notFound>>
               \/ c.answer = Nothing /\ notFound' = TRUE /\ UNCHANGED shown
               \/ c.answer \notin {None, Nothing} /\ notFound' = FALSE /\ shown' = c.answer
       ELSE UNCHANGED <<refreshing, shown, notFound>>
    /\ UNCHANGED <<muted, mount, mutePending, mutation, read, mounts, foreign, settled>>

----------------------------------------------------------------------------

\* Mutant of CancelReads: the reads go on.
CancelReadsNot == UNCHANGED <<read, refreshing>>

\* Mutant of CancelReads: the indicator is left to the read that was cancelled.
CancelReadsShowing == read' = read + 1 /\ UNCHANGED refreshing

\* The reads on their way are obsolete, and nobody but the toggle can say so.
CancelReads == read' = read + 1 /\ refreshing' = FALSE

\* toggleMute: reads are cancelled, the new value is shown, and the request goes out.
Toggle ==
    /\ mount # None /\ shown # None /\ ~notFound /\ ~mutePending
    /\ mutation < MaxMutations /\ read < MaxReads
    /\ CancelReads
    /\ mutation' = mutation + 1
    /\ mutePending' = TRUE
    /\ shown' = ~shown
    /\ calls' = calls \cup {[kind |-> "mutation", mount |-> mount, version |-> mutation + 1,
                             value |-> ~shown, state |-> "sent"]}
    /\ settled' = None
    /\ UNCHANGED <<muted, mount, notFound, mounts, foreign>>

\* mute, of a match that is visible, and unmute, which are not cancelled with the page.
ServeMutation(c) ==
    /\ c \in calls /\ c.kind = "mutation" /\ c.state = "sent"
    /\ IF c.value /\ ~Visible
       THEN /\ calls' = (calls \ {c}) \cup {[c EXCEPT !.state = "refused"]}
            /\ UNCHANGED <<muted, settled>>
       ELSE /\ calls' = (calls \ {c}) \cup {[c EXCEPT !.state = "done"]}
            /\ muted' = c.value
            /\ settled' = IF Current(c) THEN settled ELSE None
    /\ UNCHANGED <<page, mounts, foreign>>

\* The mutation is acknowledged.
Acknowledge(c) ==
    /\ c \in calls /\ c.kind = "mutation" /\ c.state = "done"
    /\ calls' = calls \ {c}
    /\ IF Current(c)
       THEN mutePending' = FALSE /\ settled' = IF muted = c.value THEN c.value ELSE None
       ELSE UNCHANGED <<mutePending, settled>>
    /\ UNCHANGED <<muted, mount, shown, notFound, refreshing, mutation, read, mounts, foreign>>

\* The old value is shown again.
Revert(c) == shown' = ~c.value /\ mutePending' = FALSE

\* The mutation fails: refused, or lost before or after it was served.
FailMutation(c) ==
    /\ c \in calls /\ c.kind = "mutation"
    /\ calls' = calls \ {c}
    /\ IF Current(c) THEN Revert(c) ELSE UNCHANGED <<shown, mutePending>>
    /\ UNCHANGED <<muted, mount, notFound, refreshing, mutation, read, mounts, foreign, settled>>

\* Another device of the user mutes or unmutes the match.
MuteElsewhere ==
    /\ foreign < MaxForeign /\ (muted \/ Visible)
    /\ foreign' = foreign + 1
    /\ muted' = ~muted
    /\ settled' = None
    /\ UNCHANGED <<page, calls, mounts>>

MatchServe == \E c \in calls : \/ ServeRead(c) \/ EndRead(c)
                              \/ ServeMutation(c) \/ Acknowledge(c) \/ FailMutation(c)

----------------------------------------------------------------------------

MatchTypeOK ==
    /\ muted \in BOOLEAN /\ mounts \in 0..MaxMounts /\ mount \in {mounts, None}
    /\ shown \in BOOLEAN \cup {None} /\ notFound \in BOOLEAN /\ refreshing \in BOOLEAN /\ mutePending \in BOOLEAN
    /\ mutation \in 0..MaxMutations /\ read \in 0..MaxReads
    /\ calls \subseteq Reads \cup Mutations
    /\ foreign \in 0..MaxForeign /\ settled \in BOOLEAN \cup {None}

\* The page waits for a read, or a mutation, exactly while the latest one is on its way.
WaitingHonest ==
    /\ refreshing <=> \E c \in calls : c.kind = "read" /\ Current(c)
    /\ mutePending <=> \E c \in calls : c.kind = "mutation" /\ Current(c)

\* A mute that was acknowledged stays shown: no read that was answered before it, and
\* no interval that fired during it, brings the old value back, unless a request of an
\* earlier visit or another device has written since.
AcknowledgedMuteShown == settled # None => shown = settled
=============================================================================

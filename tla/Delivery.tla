------------------------------ MODULE Delivery ------------------------------
(***************************************************************************)
(* Delivery of ledger events to push devices: deliver_event_notification    *)
(* of app/workers/notifier.py, the transport answers of                     *)
(* app/workers/web_push.py and the target query of                          *)
(* app/repositories/subscriptions.py.  A worker is one call of              *)
(* deliver_event_notification, whether made by an arq job or directly by a  *)
(* cron poll; any number of them may work on the same event.                *)
(***************************************************************************)
EXTENDS Naturals

CONSTANTS
    Worker,         \* concurrent calls of deliver_event_notification
    Event,          \* rows of match_events
    Push,           \* ids of push_subscriptions rows, never reused
    User, Team, Match,
    EventMatch,     \* match_events.match_id
    EventType,      \* match_events.type
    EventTeam,      \* the team id in the job's payload
    PushUser,       \* push_subscriptions.user_id
    InitialPush,    \* the devices registered at the start
    Answers,        \* what the transport may answer
    MaxFaults,      \* bound on crashes and lost answers
    MaxEdits,       \* bound on the users' own changes
    None

AllTypes == {"goal", "card", "kickoff", "full_time"}
AllAnswers == {"accepted", "simulated", "permanent", "expired", "retry"}
Topics == {"goal", "card", "status"}

ASSUME DeliveryAssumption ==
    /\ EventMatch \in [Event -> Match]
    /\ EventType \in [Event -> AllTypes]
    /\ EventTeam \in [Event -> Team]
    /\ PushUser \in [Push -> User]
    /\ InitialPush \subseteq Push
    /\ Answers \subseteq AllAnswers
    /\ MaxFaults \in Nat
    /\ MaxEdits \in Nat
    /\ None \notin Worker \cup Event \cup Push

VARIABLES
    delivered,      \* match_events.delivered_at IS NOT NULL
    pushes,         \* ids present in push_subscriptions
    usedIds,        \* ids handed out so far
    wants,          \* <<user, team, topic>>: followed, preference on
    muted,          \* <<user, match>> rows of muted_matches
    receipts,       \* <<event, push>> rows of notification_deliveries
    terminals,      \* <<event, push>> rows of notification_terminal_outcomes
    matchLock,      \* holder of the FOR UPDATE lock of a match row
    eventLock,      \* holder of the FOR UPDATE lock of an event row
    pc, ev, targets, todo, cur, failed, result, \* a worker's own state
    accepted,       \* history: acceptances by the provider, per slot and push
    lost,           \* history: acceptances whose receipt was never committed
    faults, edits   \* bounded counters

tables == <<delivered, pushes, usedIds, wants, muted, receipts, terminals>>
locks == <<matchLock, eventLock>>
worker == <<pc, ev, targets, todo, cur, failed, result>>
history == <<accepted, lost>>
vars == <<tables, locks, worker, history, faults, edits>>

----------------------------------------------------------------------------
(* Kick-off and full-time events exist once per followed team of a match,   *)
(* and a device is told once: both team events share one slot.              *)

Lifecycle(e) == EventType[e] \notin {"goal", "card"}

Slot(e) == <<EventMatch[e], EventType[e], IF Lifecycle(e) THEN None ELSE e>>

Slots == {Slot(e) : e \in Event}

Topic(e) == IF Lifecycle(e) THEN "status" ELSE EventType[e]

\* find_push_targets_for_event
Targets(e) ==
    {p \in pushes : /\ <<PushUser[p], EventTeam[e], Topic(e)>> \in wants
                    /\ <<PushUser[p], EventMatch[e]>> \notin muted}

\* Mutant of Settled: the sibling event of the same kick-off is forgotten.
SettledByThisEvent(e, p) == <<e, p>> \in receipts \cup terminals

\* Mutant of Settled: terminal outcomes are forgotten.
SettledByReceipt(e, p) ==
    \E f \in Event : Slot(f) = Slot(e) /\ <<f, p>> \in receipts

\* The receipt or terminal outcome that makes a send unnecessary.
Settled(e, p) ==
    \E f \in Event : Slot(f) = Slot(e) /\ <<f, p>> \in receipts \cup terminals

Init ==
    /\ delivered = [e \in Event |-> FALSE]
    /\ pushes = InitialPush
    /\ usedIds = InitialPush
    /\ wants = User \X Team \X Topics
    /\ muted = {}
    /\ receipts = {}
    /\ terminals = {}
    /\ matchLock = [m \in Match |-> None]
    /\ eventLock = [e \in Event |-> None]
    /\ pc = [w \in Worker |-> "idle"]
    /\ ev = [w \in Worker |-> None]
    /\ targets = [w \in Worker |-> {}]
    /\ todo = [w \in Worker |-> {}]
    /\ cur = [w \in Worker |-> None]
    /\ failed = [w \in Worker |-> FALSE]
    /\ result = [w \in Worker |-> None]
    /\ accepted = [sp \in Slots \X Push |-> 0]
    /\ lost = [sp \in Slots \X Push |-> 0]
    /\ faults = 0
    /\ edits = 0

----------------------------------------------------------------------------
(* The worker.                                                              *)

Release(w) ==
    /\ matchLock' = [m \in Match |-> IF matchLock[m] = w THEN None ELSE matchLock[m]]
    /\ eventLock' = [e \in Event |-> IF eventLock[e] = w THEN None ELSE eventLock[e]]

\* The call returns or is cut short: nothing of it survives.
Leave(w) ==
    /\ pc' = [pc EXCEPT ![w] = "idle"]
    /\ ev' = [ev EXCEPT ![w] = None]
    /\ targets' = [targets EXCEPT ![w] = {}]
    /\ todo' = [todo EXCEPT ![w] = {}]
    /\ cur' = [cur EXCEPT ![w] = None]
    /\ failed' = [failed EXCEPT ![w] = FALSE]
    /\ result' = [result EXCEPT ![w] = None]

\* Mutant of EndDevice: the lock of the match row outlives the device.
EndDeviceKeepingMatch(w) ==
    /\ eventLock' = [e \in Event |-> IF eventLock[e] = w THEN None ELSE eventLock[e]]
    /\ pc' = [pc EXCEPT ![w] = "loop"]
    /\ todo' = [todo EXCEPT ![w] = @ \ {cur[w]}]
    /\ cur' = [cur EXCEPT ![w] = None]
    /\ result' = [result EXCEPT ![w] = None]
    /\ UNCHANGED <<ev, targets, matchLock>>

\* The device's transaction ends; the loop goes on with the next target.
EndDevice(w) ==
    /\ Release(w)
    /\ pc' = [pc EXCEPT ![w] = "loop"]
    /\ todo' = [todo EXCEPT ![w] = @ \ {cur[w]}]
    /\ cur' = [cur EXCEPT ![w] = None]
    /\ result' = [result EXCEPT ![w] = None]
    /\ UNCHANGED <<ev, targets>>

\* A new call reads delivered_at without a lock and returns if it is set.
Start(w, e) ==
    /\ pc[w] = "idle"
    /\ ~ delivered[e]
    /\ pc' = [pc EXCEPT ![w] = "resolve"]
    /\ ev' = [ev EXCEPT ![w] = e]
    /\ UNCHANGED <<tables, locks, targets, todo, cur, failed, result, history, faults, edits>>

\* The targets are read once, on another connection, and kept.
Resolve(w) ==
    /\ pc[w] = "resolve"
    /\ pc' = [pc EXCEPT ![w] = "loop"]
    /\ targets' = [targets EXCEPT ![w] = Targets(ev[w])]
    /\ todo' = [todo EXCEPT ![w] = Targets(ev[w])]
    /\ UNCHANGED <<tables, locks, ev, cur, failed, result, history, faults, edits>>

NextDevice(w, p) ==
    /\ pc[w] = "loop"
    /\ p \in todo[w]
    /\ cur' = [cur EXCEPT ![w] = p]
    /\ pc' = [pc EXCEPT ![w] = IF Lifecycle(ev[w]) THEN "match" ELSE "event"]
    /\ UNCHANGED <<tables, locks, ev, targets, todo, failed, result, history, faults, edits>>

\* Mutant of LockMatch: the match row is read without FOR UPDATE.
LockMatchUnguarded(w) ==
    /\ pc[w] = "match"
    /\ matchLock' = [matchLock EXCEPT ![EventMatch[ev[w]]] = w]
    /\ pc' = [pc EXCEPT ![w] = "event"]
    /\ UNCHANGED <<tables, eventLock, ev, targets, todo, cur, failed, result, history, faults, edits>>

LockMatch(w) ==
    /\ pc[w] = "match"
    /\ matchLock[EventMatch[ev[w]]] = None
    /\ matchLock' = [matchLock EXCEPT ![EventMatch[ev[w]]] = w]
    /\ pc' = [pc EXCEPT ![w] = "event"]
    /\ UNCHANGED <<tables, eventLock, ev, targets, todo, cur, failed, result, history, faults, edits>>

NeedsSend(w) == ~ delivered[ev[w]] /\ ~ Settled(ev[w], cur[w])

\* The event row is locked and everything about the device is read again.
LockEvent(w) ==
    /\ pc[w] = "event"
    /\ eventLock[ev[w]] = None
    /\ NeedsSend(w)
    /\ eventLock' = [eventLock EXCEPT ![ev[w]] = w]
    /\ pc' = [pc EXCEPT ![w] = "send"]
    /\ UNCHANGED <<tables, matchLock, ev, targets, todo, cur, failed, result, history, faults, edits>>

SkipDevice(w) ==
    /\ pc[w] = "event"
    /\ eventLock[ev[w]] = None
    /\ ~ NeedsSend(w)
    /\ EndDevice(w)
    /\ UNCHANGED <<tables, failed, history, faults, edits>>

\* The push service takes the message; the receipt is not committed yet.
SendAccepted(w) ==
    /\ pc[w] = "send"
    /\ "accepted" \in Answers
    /\ accepted' = [accepted EXCEPT ![<<Slot(ev[w]), cur[w]>>] = @ + 1]
    /\ result' = [result EXCEPT ![w] = "accepted"]
    /\ pc' = [pc EXCEPT ![w] = "commit"]
    /\ UNCHANGED <<tables, locks, ev, targets, todo, cur, failed, lost, faults, edits>>

\* Console transport, a permanent refusal or an unusable subscription.
SendTerminal(w) ==
    /\ pc[w] = "send"
    /\ {"simulated", "permanent"} \cap Answers # {}
    /\ result' = [result EXCEPT ![w] = "terminal"]
    /\ pc' = [pc EXCEPT ![w] = "commit"]
    /\ UNCHANGED <<tables, locks, ev, targets, todo, cur, failed, history, faults, edits>>

\* Deleting a device deletes its receipts and outcomes with it.
DropPush(p) ==
    /\ pushes' = pushes \ {p}
    /\ receipts' = {r \in receipts : r[2] # p}
    /\ terminals' = {r \in terminals : r[2] # p}

\* 404 or 410: the row goes, on a connection of its own.
SendExpired(w) ==
    /\ pc[w] = "send"
    /\ "expired" \in Answers
    /\ DropPush(cur[w])
    /\ EndDevice(w)
    /\ UNCHANGED <<delivered, usedIds, wants, muted, failed, history, faults, edits>>

\* Any other error before the service took the message.
SendRetry(w) ==
    /\ pc[w] = "send"
    /\ "retry" \in Answers
    /\ failed' = [failed EXCEPT ![w] = TRUE]
    /\ EndDevice(w)
    /\ UNCHANGED <<tables, history, faults, edits>>

\* The service took the message but its answer, or the receipt, did not make it.
SendLost(w) ==
    /\ pc[w] = "send"
    /\ "accepted" \in Answers
    /\ faults < MaxFaults
    /\ faults' = faults + 1
    /\ accepted' = [accepted EXCEPT ![<<Slot(ev[w]), cur[w]>>] = @ + 1]
    /\ lost' = [lost EXCEPT ![<<Slot(ev[w]), cur[w]>>] = @ + 1]
    /\ failed' = [failed EXCEPT ![w] = TRUE]
    /\ EndDevice(w)
    /\ UNCHANGED <<tables, edits>>

\* Mutant of CommitDevice: the two ids of the INSERT are swapped.
CommitDeviceSwapped(w) ==
    /\ pc[w] = "commit"
    /\ receipts' = receipts \cup {<<cur[w], ev[w]>>}
    /\ EndDevice(w)
    /\ UNCHANGED <<delivered, pushes, usedIds, wants, muted, terminals, failed, history, faults, edits>>

\* INSERT ... SELECT FROM push_subscriptions: nothing if the row has gone.
CommitDevice(w) ==
    LET row == {<<ev[w], cur[w]>>} \cap (Event \X pushes) IN
    /\ pc[w] = "commit"
    /\ \/ /\ result[w] = "accepted"
          /\ receipts' = receipts \cup row
          /\ UNCHANGED terminals
       \/ /\ result[w] = "terminal"
          /\ terminals' = terminals \cup row
          /\ UNCHANGED receipts
    /\ EndDevice(w)
    /\ UNCHANGED <<delivered, pushes, usedIds, wants, muted, failed, history, faults, edits>>

\* Some device is left to retry: the call raises and the event stays pending.
GiveUp(w) ==
    /\ pc[w] = "loop"
    /\ todo[w] = {}
    /\ failed[w]
    /\ Leave(w)
    /\ UNCHANGED <<tables, locks, history, faults, edits>>

\* Mutant of Complete: devices left to retry do not keep the event pending.
CompleteAnyway(w) ==
    /\ pc[w] = "loop"
    /\ todo[w] = {}
    /\ eventLock[ev[w]] = None
    /\ delivered' = [delivered EXCEPT ![ev[w]] = TRUE]
    /\ Leave(w)
    /\ UNCHANGED <<pushes, usedIds, wants, muted, receipts, terminals, locks, history, faults, edits>>

\* Mutant of Complete: the event row is not locked.
CompleteUnlocked(w) ==
    /\ pc[w] = "loop"
    /\ todo[w] = {}
    /\ ~ failed[w]
    /\ delivered' = [delivered EXCEPT ![ev[w]] = TRUE]
    /\ Leave(w)
    /\ UNCHANGED <<pushes, usedIds, wants, muted, receipts, terminals, locks, history, faults, edits>>

\* Lock the event, set delivered_at if it is NULL, commit.
Complete(w) ==
    /\ pc[w] = "loop"
    /\ todo[w] = {}
    /\ ~ failed[w]
    /\ eventLock[ev[w]] = None
    /\ delivered' = [delivered EXCEPT ![ev[w]] = TRUE]
    /\ Leave(w)
    /\ UNCHANGED <<pushes, usedIds, wants, muted, receipts, terminals, locks, history, faults, edits>>

\* The process stops, the job is cancelled or a lock is not granted within
\* command_timeout: the open transaction rolls back.
\* What the service has taken, or takes from the orphaned network thread, has
\* no receipt.
Crash(w) ==
    /\ pc[w] # "idle"
    /\ faults < MaxFaults
    /\ faults' = faults + 1
    /\ Leave(w)
    /\ Release(w)
    /\ \/ /\ pc[w] = "commit" /\ result[w] = "accepted"
          /\ lost' = [lost EXCEPT ![<<Slot(ev[w]), cur[w]>>] = @ + 1]
          /\ UNCHANGED accepted
       \/ /\ pc[w] = "send" /\ "accepted" \in Answers
          /\ accepted' = [accepted EXCEPT ![<<Slot(ev[w]), cur[w]>>] = @ + 1]
          /\ lost' = [lost EXCEPT ![<<Slot(ev[w]), cur[w]>>] = @ + 1]
       \/ /\ ~ (pc[w] = "commit" /\ result[w] = "accepted")
          /\ UNCHANGED history
    /\ UNCHANGED <<tables, edits>>

----------------------------------------------------------------------------
(* The users, through the API, at any moment.                               *)

Edit ==
    /\ edits < MaxEdits
    /\ edits' = edits + 1
    /\ UNCHANGED <<delivered, locks, worker, history, faults>>

\* create_subscription, update_subscription and delete_subscription.
EditFollowing(u, t, topics) ==
    /\ wants' = {x \in wants : ~ (x[1] = u /\ x[2] = t)} \cup ({u} \X {t} \X topics)
    /\ wants' # wants
    /\ Edit
    /\ UNCHANGED <<pushes, usedIds, muted, receipts, terminals>>

ToggleMute(u, m) ==
    /\ muted' = IF <<u, m>> \in muted THEN muted \ {<<u, m>>} ELSE muted \cup {<<u, m>>}
    /\ Edit
    /\ UNCHANGED <<pushes, usedIds, wants, receipts, terminals>>

\* A device registers: a new row, with a new id.
RegisterDevice(p) ==
    /\ p \notin usedIds
    /\ pushes' = pushes \cup {p}
    /\ usedIds' = usedIds \cup {p}
    /\ Edit
    /\ UNCHANGED <<wants, muted, receipts, terminals>>

\* delete_push_subscription_by_endpoint.
RemoveDevice(p) ==
    /\ p \in pushes
    /\ DropPush(p)
    /\ Edit
    /\ UNCHANGED <<usedIds, wants, muted>>

----------------------------------------------------------------------------

WorkerStep(w) ==
    \/ \E e \in Event : Start(w, e)
    \/ Resolve(w)
    \/ \E p \in Push : NextDevice(w, p)
    \/ LockMatch(w)
    \/ LockEvent(w)
    \/ SkipDevice(w)
    \/ SendAccepted(w)
    \/ SendTerminal(w)
    \/ SendExpired(w)
    \/ SendRetry(w)
    \/ SendLost(w)
    \/ CommitDevice(w)
    \/ GiveUp(w)
    \/ Complete(w)
    \/ Crash(w)

UserStep ==
    \/ \E u \in User, t \in Team, topics \in SUBSET Topics : EditFollowing(u, t, topics)
    \/ \E u \in User, m \in Match : ToggleMute(u, m)
    \/ \E p \in Push : RegisterDevice(p)
    \/ \E p \in Push : RemoveDevice(p)

Next == UserStep \/ \E w \in Worker : WorkerStep(w)

Spec == Init /\ [][Next]_vars

----------------------------------------------------------------------------
(* Fairness.  Every tick enqueues, or delivers, the pending events again,   *)
(* so a pending event is taken up again and again; a started call runs on,  *)
(* and PostgreSQL grants row locks in the order of the requests, so that a  *)
(* call whose next step is possible again and again takes it; and a push    *)
(* service that is asked again and again does not fail forever.             *)

Answered(w) == SendAccepted(w) \/ SendTerminal(w) \/ SendExpired(w)

Proceed(w) ==
    \/ Resolve(w)
    \/ \E p \in Push : NextDevice(w, p)
    \/ LockMatch(w)
    \/ LockEvent(w)
    \/ SkipDevice(w)
    \/ Answered(w)
    \/ SendRetry(w)
    \/ CommitDevice(w)
    \/ GiveUp(w)
    \/ Complete(w)

Fairness ==
    /\ \A e \in Event : SF_vars(\E w \in Worker : Start(w, e))
    /\ \A w \in Worker : SF_vars(Proceed(w)) /\ SF_vars(Answered(w))

\* Once users have made their last change.
FairSpec == Init /\ [][\E w \in Worker : WorkerStep(w)]_vars /\ Fairness

----------------------------------------------------------------------------
(* What the workers promise.                                                *)

\* Every variable has its type; a lock is held by a worker or by nobody.
TypeOK ==
    /\ delivered \in [Event -> BOOLEAN]
    /\ pushes \subseteq Push
    /\ usedIds \subseteq Push
    /\ wants \subseteq User \X Team \X Topics
    /\ muted \subseteq User \X Match
    /\ receipts \subseteq Event \X Push
    /\ terminals \subseteq Event \X Push
    /\ matchLock \in [Match -> Worker \cup {None}]
    /\ eventLock \in [Event -> Worker \cup {None}]
    /\ pc \in [Worker -> {"idle", "resolve", "loop", "match", "event", "send", "commit"}]
    /\ ev \in [Worker -> Event \cup {None}]
    /\ targets \in [Worker -> SUBSET Push]
    /\ todo \in [Worker -> SUBSET Push]
    /\ cur \in [Worker -> Push \cup {None}]
    /\ failed \in [Worker -> BOOLEAN]
    /\ result \in [Worker -> {"accepted", "terminal", None}]
    /\ accepted \in [Slots \X Push -> Nat]
    /\ lost \in [Slots \X Push -> Nat]
    /\ faults \in 0..MaxFaults
    /\ edits \in 0..MaxEdits

Sending(w) == pc[w] \in {"send", "commit"}

\* Two calls never have the same alert for the same match open towards the
\* push service at once, not even through the two team events of one
\* kick-off: the row locks are held from the re-check to the receipt.
SerializedSends ==
    \A v, w \in Worker :
        v # w /\ Sending(v) /\ Sending(w) => Slot(ev[v]) # Slot(ev[w])

\* A device that is still registered is alerted once, plus once for every
\* acceptance whose receipt was lost to a crash or to a missing answer.
AtMostOncePlusLost ==
    \A s \in Slots, p \in pushes : accepted[<<s, p>>] <= lost[<<s, p>>] + 1

\* Of the two team events of one kick-off, and of the two outcome tables,
\* only one row ever stands for a device.
OneOutcome ==
    \A e, f \in Event, p \in Push :
        /\ ~ (<<e, p>> \in receipts /\ <<e, p>> \in terminals)
        /\ Slot(e) = Slot(f) /\ e # f =>
              ~ (/\ <<e, p>> \in receipts \cup terminals
                 /\ <<f, p>> \in receipts \cup terminals)

\* A device with a committed outcome, accepted or terminal, is never sent the
\* alert again, whatever worker or sibling event comes to it.
OutcomeIsFinal ==
    [][\A e \in Event, p \in Push :
          Settled(e, p) =>
              accepted'[<<Slot(e), p>>] = accepted[<<Slot(e), p>>]]_vars

\* delivered_at is set only by a call all of whose targets have an outcome or
\* have gone.
CompletionSound ==
    [][\A e \in Event :
          ~ delivered[e] /\ delivered'[e] =>
              \E w \in Worker :
                  /\ ev[w] = e
                  /\ \A p \in targets[w] : p \notin pushes \/ Settled(e, p)]_vars

\* A device whose last attempt failed retryably, in a call still under way.
Owed(w) ==
    IF failed[w]
    THEN {p \in (targets[w] \ todo[w]) \cap Targets(ev[w]) : ~ Settled(ev[w], p)}
    ELSE {}

\* docs/push-delivery.md: 5xx and network errors remain retryable through the
\* pending event, so an event is not completed over a device still owed it.
RetryableStaysPending ==
    [][\A e \in Event :
          ~ delivered[e] /\ delivered'[e] =>
              \A w \in Worker : ev[w] = e => Owed(w) = {}]_vars

\* Every event is processed in the end, with every target resolved: no lock
\* is waited for in vain and no failure leaves an event behind.
EventuallyResolved ==
    \A e \in Event :
        <>[](delivered[e] /\ \A p \in Targets(e) : Settled(e, p))

\* w has the row that v locks next, for a device or to complete its event.
WaitsFor(v, w) ==
    \/ pc[v] = "match" /\ matchLock[EventMatch[ev[v]]] = w
    \/ pc[v] = "event" /\ eventLock[ev[v]] = w
    \/ pc[v] = "loop" /\ todo[v] = {} /\ ~ failed[v] /\ eventLock[ev[v]] = w

\* The safety of that: calls for goals, for sibling events of a kick-off and for
\* completion lock one row or two, and a chain of those that wait for a row ends
\* after two links at a call that has its rows and is at its device.
NoCircularWait ==
    \A v, w \in Worker :
        WaitsFor(v, w) =>
            \/ Sending(w)
            \/ pc[w] = "event" /\ \A x \in Worker : WaitsFor(w, x) => Sending(x)

----------------------------------------------------------------------------
(* The abstract ledger, seen in the tables and in the open transactions.    *)

OpenAlerts ==
    {<<ev[w], cur[w]>> : w \in {v \in Worker : pc[v] = "commit" /\ result[v] = "accepted"}}

Ledger == INSTANCE AlertLedger WITH
    SlotOf <- [e \in Event |-> Slot(e)],
    processed <- delivered,
    registered <- pushes,
    known <- usedIds,
    outcomes <- receipts \cup terminals,
    open <- OpenAlerts

\* The workers, with their locks and transactions, keep the ledger's promise.
ImplementsLedger == Ledger!Spec
=============================================================================

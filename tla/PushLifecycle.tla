---------------------------- MODULE PushLifecycle ----------------------------
(***************************************************************************)
(* One browser and its push subscription across accounts: pushLifecycle.js, *)
(* registerSW.js and lib/auth.jsx of the frontend, over DeviceRegistry.     *)
(* The tabs share the session cookie and the subscription; in every tab a   *)
(* resynchronization, an enable gesture and a change of account may be      *)
(* under way together.  A tab may show an account whose session has ended,  *)
(* so no gesture depends on what the session is.                            *)
(***************************************************************************)
EXTENDS DeviceRegistry

CONSTANTS
    Tab,
    Overlap     \* may notifications be enabled during a change of account?

Slot(t, kind) == <<t, kind>>

ASSUME LifecycleAssumption ==
    /\ Request = {Slot(t, kind) : t \in Tab, kind \in {"resync", "enable"}}
    /\ Overlap \in BOOLEAN

VARIABLES
    session,        \* the account of the cookie; None if missing or expired
    subscription,   \* the endpoint of pushManager.getSubscription()
    issued,         \* endpoints handed out so far; none is given twice
    resync, enable, change, \* how far each tab's activities are
    held,           \* the subscription each activity has read
    known,          \* a change of account: was the session found valid?
    toward          \* a change of account: the new account, None for a logout

browser == <<session, subscription, issued>>
tab == <<resync, enable, change, held, known, toward>>
vars == <<registry, browser, tab>>

Activities == {"resync", "enable", "change"}

Init ==
    /\ RegistryInit
    /\ session = None
    /\ subscription = None
    /\ issued = {}
    /\ resync = [t \in Tab |-> "off"]
    /\ enable = [t \in Tab |-> "off"]
    /\ change = [t \in Tab |-> "off"]
    /\ held = [t \in Tab |-> [a \in Activities |-> None]]
    /\ known = [t \in Tab |-> FALSE]
    /\ toward = [t \in Tab |-> None]

----------------------------------------------------------------------------
(* resynchronizeExistingBrowserPush: one at a time in a tab, never waited   *)
(* for.                                                                     *)

\* The effect of lib/auth.jsx when the user of the tab is set.
Resynchronize(t) ==
    resync' = [resync EXCEPT ![t] = IF @ = "off" THEN "look" ELSE @]

\* A loaded page starts from the cookie; what the old page did is forgotten,
\* except for a request the server has already got.
Reload(t) ==
    /\ resync' = [resync EXCEPT ![t] = IF session = None THEN "off" ELSE "look"]
    /\ enable' = [enable EXCEPT ![t] = "off"]
    /\ change' = [change EXCEPT ![t] = "off"]
    /\ held' = [held EXCEPT ![t] = [a \in Activities |-> None]]
    /\ known' = [known EXCEPT ![t] = FALSE]
    /\ toward' = [toward EXCEPT ![t] = None]
    /\ UNCHANGED <<registry, browser>>

Hold(t, activity, e) == held' = [held EXCEPT ![t][activity] = e]

ResyncLook(t) ==
    /\ resync[t] = "look"
    /\ resync' = [resync EXCEPT ![t] = IF subscription = None THEN "off" ELSE "send"]
    /\ Hold(t, "resync", subscription)
    /\ UNCHANGED <<registry, browser, enable, change, known, toward>>

\* The request carries the cookie of the moment it is sent; without one it is
\* refused with 401.
Send(t, kind) ==
    IF session = None
    THEN UNCHANGED registry
    ELSE Ask(Slot(t, kind), session, held[t][kind])

ResyncSend(t) ==
    /\ resync[t] = "send"
    /\ Send(t, "resync")
    /\ resync' = [resync EXCEPT ![t] = "wait"]
    /\ Hold(t, "resync", None)
    /\ UNCHANGED <<browser, enable, change, known, toward>>

\* Any answer will do: the resynchronization is best effort.
ResyncDone(t) ==
    /\ resync[t] = "wait"
    /\ pending[Slot(t, "resync")] = None
    /\ resync' = [resync EXCEPT ![t] = "off"]
    /\ UNCHANGED <<registry, browser, enable, change, held, known, toward>>

----------------------------------------------------------------------------
(* enablePushNotifications.                                                 *)

Changing == \E t \in Tab : change[t] # "off"

Enabling ==
    \/ \E t \in Tab : enable[t] # "off"
    \/ \E t \in Tab : pending[Slot(t, "enable")] # None

\* The gesture; permission, worker and key are awaited.
Enable(t) ==
    /\ enable[t] = "off"
    /\ Overlap \/ ~ Changing
    /\ enable' = [enable EXCEPT ![t] = "subscribe"]
    /\ UNCHANGED <<registry, browser, resync, change, held, known, toward>>

\* Permission is denied, or the server has no key.
EnableFails(t) ==
    /\ enable[t] = "subscribe"
    /\ enable' = [enable EXCEPT ![t] = "off"]
    /\ UNCHANGED <<registry, browser, resync, change, held, known, toward>>

\* getSubscription() || subscribe(): a new one has a new endpoint.
EnableSubscribe(t) ==
    /\ enable[t] = "subscribe"
    /\ \/ /\ subscription # None
          /\ UNCHANGED <<subscription, issued>>
       \/ /\ subscription = None
          /\ \E e \in Endpoint \ issued :
                /\ subscription' = e
                /\ issued' = issued \cup {e}
    /\ Hold(t, "enable", subscription')
    /\ enable' = [enable EXCEPT ![t] = "send"]
    /\ UNCHANGED <<registry, session, resync, change, known, toward>>

EnableSend(t) ==
    /\ enable[t] = "send"
    /\ Send(t, "enable")
    /\ enable' = [enable EXCEPT ![t] = "wait"]
    /\ Hold(t, "enable", None)
    /\ UNCHANGED <<browser, resync, change, known, toward>>

EnableDone(t) ==
    /\ enable[t] = "wait"
    /\ pending[Slot(t, "enable")] = None
    /\ enable' = [enable EXCEPT ![t] = "off"]
    /\ UNCHANGED <<registry, browser, resync, change, held, known, toward>>

----------------------------------------------------------------------------
(* A change of account: logoutWithPushCleanup, or                           *)
(* authenticateWithPushCleanup around a login or a signup.                  *)

Stage(t, stage) == change' = [change EXCEPT ![t] = stage]

EndChange(t) ==
    /\ Stage(t, "off")
    /\ Hold(t, "change", None)
    /\ known' = [known EXCEPT ![t] = FALSE]
    /\ toward' = [toward EXCEPT ![t] = None]

\* Every await of the change may throw; the change stops there.
GiveUp(t) ==
    /\ change[t] # "off"
    /\ EndChange(t)
    /\ UNCHANGED <<registry, browser, resync, enable>>

Logout(t) ==
    /\ change[t] = "off"
    /\ Overlap \/ ~ Enabling
    /\ Stage(t, "look")
    /\ known' = [known EXCEPT ![t] = TRUE]
    /\ toward' = [toward EXCEPT ![t] = None]
    /\ UNCHANGED <<registry, browser, resync, enable, held>>

Login(t, u) ==
    /\ change[t] = "off"
    /\ Overlap \/ ~ Enabling
    /\ Stage(t, "me")
    /\ toward' = [toward EXCEPT ![t] = u]
    /\ UNCHANGED <<registry, browser, resync, enable, held, known>>

\* GET /auth/me; another failure than 401 gives up.
AskMe(t) ==
    /\ change[t] = "me"
    /\ known' = [known EXCEPT ![t] = session # None]
    /\ Stage(t, "look")
    /\ UNCHANGED <<registry, browser, resync, enable, held, toward>>

\* Mutant of Look: with an expired session there is nothing to clean up.
LookUnlessExpired(t) ==
    /\ change[t] = "look"
    /\ Hold(t, "change", subscription)
    /\ Stage(t, IF subscription = None \/ ~ known[t] THEN "act" ELSE "delete")
    /\ UNCHANGED <<registry, browser, resync, enable, known, toward>>

Look(t) ==
    /\ change[t] = "look"
    /\ Hold(t, "change", subscription)
    /\ Stage(t, IF subscription = None THEN "act"
                ELSE IF known[t] THEN "delete" ELSE "unsubscribe")
    /\ UNCHANGED <<registry, browser, resync, enable, known, toward>>

\* DELETE /api/push/subscribe for the account of the cookie; 401 goes on.
Unregister(t) ==
    /\ change[t] = "delete"
    /\ rows' = rows \ {<<session, held[t]["change"]>>}
    /\ Stage(t, "unsubscribe")
    /\ UNCHANGED <<pending, browser, resync, enable, held, known, toward>>

\* unsubscribe() of the subscription that was read.  If that is not the
\* browser's any more it does nothing, and a subscription that is still there
\* stops the change (GiveUp).
Unsubscribe(t) ==
    /\ change[t] = "unsubscribe"
    /\ subscription \in {held[t]["change"], None}
    /\ subscription' = None
    /\ Stage(t, "act")
    /\ Hold(t, "change", None)
    /\ UNCHANGED <<registry, session, issued, resync, enable, known, toward>>

\* api.logout, or api.login or api.signup; a set user resynchronizes.
Act(t) ==
    /\ change[t] = "act"
    /\ session' = toward[t]
    /\ IF toward[t] = None THEN UNCHANGED resync ELSE Resynchronize(t)
    /\ EndChange(t)
    /\ UNCHANGED <<registry, subscription, issued, enable>>

----------------------------------------------------------------------------
(* The browser and the server on their own.                                 *)

Expire ==
    /\ session # None
    /\ session' = None
    /\ UNCHANGED <<registry, subscription, issued, tab>>

\* The browser replaces its subscription, or gives it up.
Rotate ==
    /\ subscription # None
    /\ subscription' \in (Endpoint \ issued) \cup {None}
    /\ issued' = issued \cup ({subscription'} \ {None})
    /\ UNCHANGED <<registry, session, tab>>

\* The push service answers 410 for an endpoint that is gone.
Prune ==
    /\ \E u \in User, e \in Endpoint \ {subscription} : Remove(u, e)
    /\ UNCHANGED <<browser, tab>>

Serve(r) == (Enrol(r) \/ Dismiss(r)) /\ UNCHANGED <<browser, tab>>

TabStep(t) ==
    \/ Reload(t)
    \/ ResyncLook(t) \/ ResyncSend(t) \/ ResyncDone(t)
    \/ Enable(t) \/ EnableFails(t) \/ EnableSubscribe(t) \/ EnableSend(t) \/ EnableDone(t)
    \/ Logout(t) \/ (\E u \in User : Login(t, u))
    \/ AskMe(t) \/ Look(t) \/ Unregister(t) \/ Unsubscribe(t) \/ Act(t) \/ GiveUp(t)

Next ==
    \/ \E t \in Tab : TabStep(t)
    \/ \E r \in Request : Serve(r)
    \/ Expire
    \/ Rotate
    \/ Prune

Spec == Init /\ [][Next]_vars

----------------------------------------------------------------------------

\* Every variable has its type.
TypeOK ==
    /\ rows \subseteq User \X Endpoint
    /\ pending \in [Request -> (User \X Endpoint) \cup {None}]
    /\ session \in User \cup {None}
    /\ subscription \in issued \cup {None}
    /\ issued \subseteq Endpoint
    /\ resync \in [Tab -> {"off", "look", "send", "wait"}]
    /\ enable \in [Tab -> {"off", "subscribe", "send", "wait"}]
    /\ change \in [Tab -> {"off", "me", "look", "delete", "unsubscribe", "act"}]
    /\ held \in [Tab -> [Activities -> issued \cup {None}]]
    /\ known \in [Tab -> BOOLEAN]
    /\ toward \in [Tab -> User \cup {None}]

\* pushLifecycle.js: never carry an endpoint into the new account.  While an
\* account is signed in, the browser's live subscription is registered for no
\* other account: whatever late resynchronizations, expired sessions, rotated
\* subscriptions, failed cleanups and changes in other tabs came before.
NoForeignDestination ==
    session # None /\ subscription # None =>
        \A u \in User \ {session} : <<u, subscription>> \notin rows
=============================================================================

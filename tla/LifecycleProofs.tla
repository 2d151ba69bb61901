--------------------------- MODULE LifecycleProofs ---------------------------
(* Theorems about PushLifecycle, for any tabs, accounts and endpoints.     *)
EXTENDS PushLifecycle, TLAPS

\* The part of the types the argument needs.
Typed ==
    /\ pending \in [Request -> (User \X Endpoint) \cup {None}]
    /\ rows \subseteq User \X Endpoint
    /\ session \in User \cup {None}
    /\ subscription \in Endpoint \cup {None}
    /\ change \in [Tab -> {"off", "me", "look", "delete", "unsubscribe", "act"}]
    /\ enable \in [Tab -> {"off", "subscribe", "send", "wait"}]
    /\ held \in [Tab -> [Activities -> Endpoint \cup {None}]]
    /\ toward \in [Tab -> User \cup {None}]
    /\ resync \in [Tab -> {"off", "look", "send", "wait"}]

\* What is sent holds the endpoint that was read.
HoldInv ==
    \A t \in Tab : /\ resync[t] = "send" => held[t]["resync"] # None
                   /\ enable[t] = "send" => held[t]["enable"] # None

\* An endpoint that was not handed out yet is known to nobody.
IssuedInv ==
    /\ subscription # None => subscription \in issued
    /\ \A t \in Tab, a \in Activities : held[t][a] # None => held[t][a] \in issued
    /\ \A u \in User, e \in Endpoint :
          <<u, e>> \in rows \/ (\E r \in Request : pending[r] = <<u, e>>) => e \in issued

\* A request about the endpoint of the browser is in its table, or on its way.
Linked(u, e) == <<u, e>> \in rows \/ \E r \in Request : pending[r] = <<u, e>>

\* A new account comes only when the browser has no subscription.
ActInv == \A t \in Tab : change[t] = "act" => subscription = None

\* Hence all that is stored or on its way for the live subscription is of the account
\* that is signed in.
OwnInv ==
    session # None /\ subscription # None =>
        \A u \in User : Linked(u, subscription) => u = session

IInv == /\ Typed /\ HoldInv /\ IssuedInv /\ ActInv /\ OwnInv
        /\ ~ (Changing /\ Enabling)

\* An activity remembers an endpoint, or forgets it.
LEMMA Held ==
    ASSUME Typed, NEW t \in Tab, NEW a \in Activities, NEW e \in Endpoint \cup {None}, Hold(t, a, e)
    PROVE  /\ held' \in [Tab -> [Activities -> Endpoint \cup {None}]]
           /\ held'[t][a] = e
           /\ \A s \in Tab, b \in Activities : <<s, b>> # <<t, a>> => held'[s][b] = held[s][b]
  BY DEF Typed, Hold

\* A change of account goes from stage to stage.
LEMMA Staged ==
    ASSUME Typed, NEW t \in Tab,
           NEW s \in {"off", "me", "look", "delete", "unsubscribe", "act"}, Stage(t, s)
    PROVE  change' \in [Tab -> {"off", "me", "look", "delete", "unsubscribe", "act"}]
  BY DEF Typed, Stage

\* A request is sent with the account of the moment, or not at all.
LEMMA Sent ==
    ASSUME Typed, NEW t \in Tab, NEW kind \in {"resync", "enable"}, Send(t, kind),
           held[t][kind] # None
    PROVE  /\ rows' = rows
           /\ \/ pending' = pending
              \/ /\ session # None /\ pending[Slot(t, kind)] = None
                 /\ pending' = [pending EXCEPT ![Slot(t, kind)] = <<session, held[t][kind]>>]
           /\ Slot(t, kind) \in Request
           /\ pending' \in [Request -> (User \X Endpoint) \cup {None}]
<1>1. Slot(t, kind) \in Request /\ kind \in Activities
  BY LifecycleAssumption DEF Activities
<1>2. held[t][kind] \in Endpoint
  BY <1>1 DEF Typed
<1>3. CASE session = None
  BY <1>1, <1>3 DEF Send, registry, Typed
<1>4. CASE session # None
  BY <1>1, <1>2, <1>4 DEF Send, Ask, Typed
<1> QED
  BY <1>3, <1>4

\* Before anything happened.
LEMMA InitInv == Init => IInv
<1> SUFFICES ASSUME Init PROVE IInv
  OBVIOUS
<1>1. \A t \in Tab : Slot(t, "enable") \in Request
  BY LifecycleAssumption
<1>2. Typed
  BY DEF Init, RegistryInit, Typed
<1>3. HoldInv /\ ActInv /\ OwnInv
  BY DEF Init, HoldInv, ActInv, OwnInv
<1>4. \A u \in User, e \in Endpoint : None # <<u, e>>
  BY RegistryAssumption
<1>5. IssuedInv
  BY <1>4 DEF Init, RegistryInit, IssuedInv, Activities
<1>6. ~ Changing
  BY DEF Init, Changing
<1> QED
  BY <1>2, <1>3, <1>5, <1>6 DEF IInv

\* Every step keeps the types, and an endpoint as long as it is to be sent.
LEMMA TypedStep == Typed /\ HoldInv /\ [Next]_vars => Typed' /\ HoldInv'
<1> SUFFICES ASSUME Typed, HoldInv, [Next]_vars PROVE Typed' /\ HoldInv'
  OBVIOUS
<1> DEFINE Kept == Typed' /\ HoldInv'
<1> USE RegistryAssumption DEF Activities
<1>1. ASSUME NEW t \in Tab, Reload(t) PROVE Kept
  BY <1>1 DEF Reload, Typed, HoldInv, registry, browser
<1>2. ASSUME NEW t \in Tab, ResyncLook(t) PROVE Kept
  <2>1. held' \in [Tab -> [Activities -> Endpoint \cup {None}]]
        /\ held'[t]["resync"] = subscription
        /\ \A s \in Tab, b \in Activities : <<s, b>> # <<t, "resync">> => held'[s][b] = held[s][b]
    BY <1>2, Held DEF ResyncLook, Typed
  <2> QED
    BY <1>2, <2>1 DEF ResyncLook, Typed, HoldInv, registry, browser
<1>3. ASSUME NEW t \in Tab, ResyncSend(t) PROVE Kept
  <2>1. held' \in [Tab -> [Activities -> Endpoint \cup {None}]]
        /\ \A s \in Tab, b \in Activities : <<s, b>> # <<t, "resync">> => held'[s][b] = held[s][b]
    BY <1>3, Held DEF ResyncSend
  <2>2. rows' = rows /\ pending' \in [Request -> (User \X Endpoint) \cup {None}]
    BY <1>3, Sent DEF ResyncSend, HoldInv
  <2> QED
    BY <1>3, <2>1, <2>2 DEF ResyncSend, Typed, HoldInv, browser
<1>4. ASSUME NEW t \in Tab, EnableSubscribe(t) PROVE Kept
  <2>1. subscription' \in Endpoint
    BY <1>4 DEF EnableSubscribe, Typed
  <2>2. held' \in [Tab -> [Activities -> Endpoint \cup {None}]]
        /\ held'[t]["enable"] = subscription'
        /\ \A s \in Tab, b \in Activities : <<s, b>> # <<t, "enable">> => held'[s][b] = held[s][b]
    BY <1>4, <2>1, Held DEF EnableSubscribe
  <2> QED
    <3>1. /\ enable' = [enable EXCEPT ![t] = "send"]
          /\ UNCHANGED <<pending, rows, session, resync, change, toward>>
      BY <1>4 DEF EnableSubscribe, registry
    <3>2. Typed'
      BY <2>1, <2>2, <3>1 DEF Typed
    <3>3. HoldInv'
      BY <2>1, <2>2, <3>1 DEF Typed, HoldInv
    <3> QED
      BY <3>2, <3>3
<1>5. ASSUME NEW t \in Tab, EnableSend(t) PROVE Kept
  <2>1. held' \in [Tab -> [Activities -> Endpoint \cup {None}]]
        /\ \A s \in Tab, b \in Activities : <<s, b>> # <<t, "enable">> => held'[s][b] = held[s][b]
    BY <1>5, Held DEF EnableSend
  <2>2. rows' = rows /\ pending' \in [Request -> (User \X Endpoint) \cup {None}]
    BY <1>5, Sent DEF EnableSend, HoldInv
  <2> QED
    BY <1>5, <2>1, <2>2 DEF EnableSend, Typed, HoldInv, browser
<1>6. ASSUME NEW t \in Tab, ResyncDone(t) \/ Enable(t) \/ EnableFails(t) \/ EnableDone(t) PROVE Kept
  BY <1>6
  DEF ResyncDone, Enable, EnableFails, EnableDone, Typed, HoldInv, registry, browser
<1>7. ASSUME NEW t \in Tab, AskMe(t) \/ Logout(t) \/ \E u \in User : Login(t, u) PROVE Kept
  <2>1. /\ change' \in [Tab -> {"off", "me", "look", "delete", "unsubscribe", "act"}]
        /\ toward' \in [Tab -> User \cup {None}]
    <3>1. CASE AskMe(t)
      BY <3>1, Staged DEF AskMe, Typed
    <3>2. CASE Logout(t)
      BY <3>2, Staged DEF Logout, Typed
    <3>3. ASSUME NEW u \in User, Login(t, u)
          PROVE  /\ change' \in [Tab -> {"off", "me", "look", "delete", "unsubscribe", "act"}]
                 /\ toward' \in [Tab -> User \cup {None}]
      BY <3>3, Staged DEF Login, Typed
    <3> QED
      BY <1>7, <3>1, <3>2, <3>3
  <2>2. UNCHANGED <<registry, browser, resync, enable, held>>
    BY <1>7 DEF AskMe, Logout, Login
  <2> QED
    BY <2>1, <2>2 DEF Typed, HoldInv, registry, browser
<1>8. ASSUME NEW t \in Tab, Look(t) \/ Unsubscribe(t) \/ GiveUp(t) \/ Act(t) PROVE Kept
  <2>1. PICK e \in Endpoint \cup {None} : Hold(t, "change", e)
    BY <1>8 DEF Look, Unsubscribe, GiveUp, Act, EndChange, Typed
  <2>2. held' \in [Tab -> [Activities -> Endpoint \cup {None}]]
        /\ \A s \in Tab, b \in Activities : <<s, b>> # <<t, "change">> => held'[s][b] = held[s][b]
    BY <2>1, Held
  <2>3. /\ change' \in [Tab -> {"off", "me", "look", "delete", "unsubscribe", "act"}]
        /\ toward' \in [Tab -> User \cup {None}]
        /\ UNCHANGED <<registry, enable>>
        /\ session' \in User \cup {None} /\ subscription' \in Endpoint \cup {None}
    <3>1. CASE Look(t)
      BY <3>1, Staged DEF Look, Typed, browser
    <3>2. CASE Unsubscribe(t)
      BY <3>2, Staged DEF Unsubscribe, Typed
    <3>3. CASE GiveUp(t)
      BY <3>3, Staged DEF GiveUp, EndChange, Typed, browser
    <3>4. CASE Act(t)
      BY <3>4, Staged DEF Act, EndChange, Typed
    <3> QED
      BY <1>8, <3>1, <3>2, <3>3, <3>4
  <2>4. /\ resync' \in [Tab -> {"off", "look", "send", "wait"}]
        /\ \A s \in Tab : resync'[s] = "send" => resync[s] = "send"
    BY <1>8 DEF Look, Unsubscribe, GiveUp, Act, Resynchronize, Typed
  <2> QED
    BY <2>2, <2>3, <2>4 DEF Typed, HoldInv, registry
<1>9. ASSUME NEW t \in Tab, Unregister(t) PROVE Kept
  BY <1>9 DEF Unregister, Stage, Typed, HoldInv, browser
<1>10. ASSUME NEW r \in Request, Serve(r) PROVE Kept
  BY <1>10 DEF Serve, Enrol, Dismiss, Typed, HoldInv, browser, tab
<1>11. CASE Expire \/ Rotate \/ Prune
  BY <1>11 DEF Expire, Rotate, Prune, Remove, Typed, HoldInv, registry, browser, tab
<1>12. CASE UNCHANGED vars
  BY <1>12 DEF Typed, HoldInv, vars, registry, browser, tab
<1> QED
  BY <1>1, <1>2, <1>3, <1>4, <1>5, <1>6, <1>7, <1>8, <1>9, <1>10, <1>11, <1>12
  DEF Next, TabStep

\* Notifications are not enabled during a change of account.
LEMMA ApartStep ==
    ASSUME ~Overlap, Typed, HoldInv, ~ (Changing /\ Enabling), [Next]_vars
    PROVE  ~ (Changing /\ Enabling)'
<1> DEFINE Apart == ~ (Changing /\ Enabling)'
           Calm == (Changing' => Changing) /\ (Enabling' => Enabling)
<1> USE LifecycleAssumption, RegistryAssumption
<1>0. Calm => Apart
  OBVIOUS
<1>1. ASSUME NEW t \in Tab, Reload(t) PROVE Calm
  BY <1>1 DEF Reload, Changing, Enabling, Typed, registry
<1>2. ASSUME NEW t \in Tab, ResyncLook(t) \/ ResyncDone(t) PROVE Calm
  BY <1>2 DEF ResyncLook, ResyncDone, Changing, Enabling, registry
<1>3. ASSUME NEW t \in Tab, ResyncSend(t) PROVE Calm
  <2>1. \A s \in Tab : pending'[Slot(s, "enable")] = pending[Slot(s, "enable")]
    <3>1. /\ Slot(t, "resync") \in Request
          /\ \/ pending' = pending
             \/ pending' = [pending EXCEPT ![Slot(t, "resync")] = <<session, held[t]["resync"]>>]
      BY <1>3, Sent DEF ResyncSend, HoldInv
    <3>2. \A s \in Tab : Slot(s, "enable") # Slot(t, "resync") /\ Slot(s, "enable") \in Request
      BY DEF Slot
    <3> QED
      BY <3>1, <3>2 DEF Typed
  <2> QED
    BY <1>3, <2>1 DEF ResyncSend, Changing, Enabling
<1>4. ASSUME NEW t \in Tab, enable[t] # "off", UNCHANGED change PROVE Calm
  BY <1>4 DEF Changing, Enabling
<1>5. ASSUME NEW t \in Tab, Enable(t) PROVE Apart
  BY <1>5 DEF Enable, Changing
<1>6. ASSUME NEW t \in Tab, Logout(t) \/ \E u \in User : Login(t, u) PROVE Apart
  BY <1>6 DEF Logout, Login, Enabling, registry
<1>7. ASSUME NEW t \in Tab, EnableFails(t) \/ EnableSubscribe(t) \/ EnableSend(t) \/ EnableDone(t)
      PROVE  Calm
  BY <1>4, <1>7 DEF EnableFails, EnableSubscribe, EnableSend, EnableDone
<1>8. ASSUME NEW t \in Tab, AskMe(t) \/ Look(t) \/ Unregister(t) \/ Unsubscribe(t) \/ Act(t) \/ GiveUp(t)
      PROVE  Calm
  <2>1. Changing
    BY <1>8 DEF AskMe, Look, Unregister, Unsubscribe, Act, GiveUp, Changing
  <2>2. UNCHANGED <<enable, pending>>
    BY <1>8 DEF AskMe, Look, Unregister, Unsubscribe, Act, GiveUp, registry
  <2> QED
    BY <2>1, <2>2 DEF Enabling
<1>9. ASSUME NEW r \in Request, Serve(r) PROVE Calm
  BY <1>9 DEF Serve, Enrol, Dismiss, Changing, Enabling, Typed, tab
<1>10. CASE Expire \/ Rotate \/ Prune
  BY <1>10 DEF Expire, Rotate, Prune, Remove, Changing, Enabling, registry, tab
<1>11. CASE UNCHANGED vars
  BY <1>11 DEF Changing, Enabling, vars, registry, tab
<1> QED
  BY <1>0, <1>1, <1>2, <1>3, <1>5, <1>6, <1>7, <1>8, <1>9, <1>10, <1>11 DEF Next, TabStep

\* What is known of an endpoint was known before, or is sent for the account signed in.
LEMMA LinkedStep ==
    ASSUME Typed, HoldInv, [Next]_vars, NEW u \in User, NEW e \in Endpoint, Linked(u, e)', ~ Linked(u, e)
    PROVE  /\ u = session /\ session' = session /\ UNCHANGED <<subscription, issued, change>>
           /\ \E t \in Tab, a \in Activities : held[t][a] = e
<1> DEFINE Fresh == /\ u = session /\ session' = session /\ UNCHANGED <<subscription, issued, change>>
                    /\ \E t \in Tab, a \in Activities : held[t][a] = e
<1> USE LifecycleAssumption, RegistryAssumption
<1>0. /\ <<u, e>> \notin rows /\ \A r \in Request : pending[r] # <<u, e>>
      /\ <<u, e>> \in rows' \/ \E r \in Request : pending'[r] = <<u, e>>
      /\ <<u, e>> # None
  BY DEF Linked
<1>1. ASSUME rows' \subseteq rows, pending' = pending PROVE FALSE
  BY <1>0, <1>1
<1>2. ASSUME NEW r \in Request, Serve(r) PROVE FALSE
  <2>1. CASE Enrol(r)
    <3>1. PICK v \in User, f \in Endpoint :
             /\ pending[r] = <<v, f>> /\ rows' = rows \cup {<<v, f>>}
             /\ pending' = [pending EXCEPT ![r] = None]
      BY <2>1 DEF Enrol
    <3> QED
      BY <1>0, <3>1 DEF Typed
  <2>2. CASE Dismiss(r)
    BY <1>0, <2>2 DEF Dismiss, Typed
  <2> QED
    BY <1>2, <2>1, <2>2 DEF Serve
<1>3. ASSUME NEW t \in Tab, NEW kind \in {"resync", "enable"}, Send(t, kind), held[t][kind] # None,
             UNCHANGED <<browser, change>>
      PROVE  Fresh
  <2>1. /\ rows' = rows
        /\ \/ pending' = pending
           \/ pending' = [pending EXCEPT ![Slot(t, kind)] = <<session, held[t][kind]>>]
    BY <1>3, Sent
  <2>2. <<u, e>> = <<session, held[t][kind]>>
    BY <1>0, <2>1 DEF Typed
  <2> QED
    BY <1>3, <2>2 DEF browser, Activities
<1>4. ASSUME NEW t \in Tab, ResyncSend(t) \/ EnableSend(t) PROVE Fresh
  BY <1>3, <1>4 DEF ResyncSend, EnableSend, HoldInv
<1>5. ASSUME NEW t \in Tab, TabStep(t), ~ ResyncSend(t), ~ EnableSend(t) PROVE FALSE
  <2>1. CASE Unregister(t)
    BY <1>1, <2>1 DEF Unregister
  <2>2. CASE ~ Unregister(t)
    <3>1. UNCHANGED registry
      BY <1>5, <2>2
      DEF TabStep, Reload, ResyncLook, ResyncDone, Enable, EnableFails, EnableSubscribe, EnableDone,
          Logout, Login, AskMe, Look, Unsubscribe, Act, GiveUp
    <3> QED
      BY <1>1, <3>1 DEF registry
  <2> QED
    BY <2>1, <2>2
<1>6. CASE Expire \/ Rotate \/ Prune \/ UNCHANGED vars
  BY <1>1, <1>6 DEF Expire, Rotate, Prune, Remove, registry, vars
<1> QED
  BY <1>2, <1>4, <1>5, <1>6 DEF Next

\* What an activity remembers after a step it remembered before, or it is the
\* subscription of the moment.
LEMMA HeldStep ==
    ASSUME Typed, HoldInv, [Next]_vars, NEW t \in Tab, NEW a \in Activities, held'[t][a] # None
    PROVE  held'[t][a] \in {held[t][a], subscription, subscription'}
<1> DEFINE Known == held'[t][a] \in {held[t][a], subscription, subscription'}
<1>1. ASSUME NEW s \in Tab, NEW b \in Activities, NEW e \in {None, subscription, subscription'},
             e \in Endpoint \cup {None}, Hold(s, b, e)
      PROVE  Known
  BY <1>1, Held
<1>2. CASE UNCHANGED held
  BY <1>2
<1>3. ASSUME NEW s \in Tab, Reload(s) PROVE Known
  BY <1>3 DEF Reload, Typed
<1>4. subscription \in Endpoint \cup {None} /\ subscription' \in Endpoint \cup {None}
      /\ None \in Endpoint \cup {None}
  BY TypedStep DEF Typed
<1>5. ASSUME NEW s \in Tab, TabStep(s), ~ Reload(s) PROVE Known
  <2>1. CASE ResyncLook(s) \/ ResyncSend(s)
    BY <1>1, <1>4, <2>1 DEF ResyncLook, ResyncSend, Activities
  <2>2. CASE EnableSubscribe(s) \/ EnableSend(s)
    BY <1>1, <1>4, <2>2 DEF EnableSubscribe, EnableSend, Activities
  <2>3. CASE Look(s) \/ Unsubscribe(s) \/ Act(s) \/ GiveUp(s)
    BY <1>1, <1>4, <2>3 DEF Look, Unsubscribe, Act, GiveUp, EndChange, Activities
  <2>4. CASE ResyncDone(s) \/ Enable(s) \/ EnableFails(s) \/ EnableDone(s) \/ Logout(s) \/ AskMe(s)
             \/ Unregister(s) \/ \E u \in User : Login(s, u)
    BY <1>2, <2>4
    DEF ResyncDone, Enable, EnableFails, EnableDone, Logout, AskMe, Unregister, Login
  <2> QED
    BY <1>5, <2>1, <2>2, <2>3, <2>4 DEF TabStep
<1>6. ASSUME NEW r \in Request, Serve(r) PROVE Known
  BY <1>2, <1>6 DEF Serve, tab
<1>7. CASE Expire \/ Rotate \/ Prune \/ UNCHANGED vars
  BY <1>2, <1>7 DEF Expire, Rotate, Prune, vars, tab
<1> QED
  BY <1>3, <1>5, <1>6, <1>7 DEF Next

\* The browser's own part of a step: its subscription stays, goes, or is a new one; it
\* comes back only when notifications are enabled; and a session stays, ends, or begins
\* with the last step of a change of account.
LEMMA BrowserStep ==
    ASSUME Typed, [Next]_vars
    PROVE  /\ issued \subseteq issued'
           /\ \/ subscription' \in {subscription, None}
              \/ /\ subscription' \in Endpoint \ issued /\ subscription' \in issued'
                 /\ session' = session /\ UNCHANGED <<rows, pending>>
                 /\ subscription # None \/ (UNCHANGED change /\ \E t \in Tab : enable[t] = "subscribe")
           /\ session' \in {session, None} \/ \E t \in Tab : change[t] = "act" /\ UNCHANGED subscription
           /\ \A t \in Tab : change'[t] = "act" /\ change[t] # "act" => subscription' = None
<1> DEFINE Moved ==
           /\ issued \subseteq issued'
           /\ \/ subscription' \in {subscription, None}
              \/ /\ subscription' \in Endpoint \ issued /\ subscription' \in issued'
                 /\ session' = session /\ UNCHANGED <<rows, pending>>
                 /\ subscription # None \/ (UNCHANGED change /\ \E t \in Tab : enable[t] = "subscribe")
           /\ session' \in {session, None} \/ \E t \in Tab : change[t] = "act" /\ UNCHANGED subscription
           /\ \A t \in Tab : change'[t] = "act" /\ change[t] # "act" => subscription' = None
<1>1. CASE UNCHANGED <<browser, change>>
  BY <1>1 DEF browser
<1>2. ASSUME NEW t \in Tab, NEW stage, Stage(t, stage), UNCHANGED <<subscription, issued>>,
             session' = session \/ change[t] = "act",
             stage = "act" => subscription = None
      PROVE  Moved
  BY <1>2 DEF Stage, Typed
<1>3. ASSUME NEW t \in Tab, Reload(t) PROVE Moved
  BY <1>3 DEF Reload, browser, Typed
<1>4. ASSUME NEW t \in Tab, EnableSubscribe(t) PROVE Moved
  BY <1>4 DEF EnableSubscribe, registry
<1>5. ASSUME NEW t \in Tab, Unsubscribe(t) PROVE Moved
  BY <1>5 DEF Unsubscribe, Stage, Typed
<1>6. ASSUME NEW t \in Tab, AskMe(t) \/ Logout(t) \/ Unregister(t) \/ \E u \in User : Login(t, u)
      PROVE  Moved
  BY <1>2, <1>6 DEF AskMe, Logout, Unregister, Login, browser
<1>7. ASSUME NEW t \in Tab, Look(t) \/ Act(t) \/ GiveUp(t) PROVE Moved
  BY <1>2, <1>7 DEF Look, Act, GiveUp, EndChange, browser
<1>8. ASSUME NEW t \in Tab, ResyncLook(t) \/ ResyncSend(t) \/ ResyncDone(t) \/ Enable(t) \/ EnableFails(t)
                            \/ EnableSend(t) \/ EnableDone(t)
      PROVE  Moved
  BY <1>1, <1>8
  DEF ResyncLook, ResyncSend, ResyncDone, Enable, EnableFails, EnableSend, EnableDone, browser
<1>9. ASSUME NEW r \in Request, Serve(r) PROVE Moved
  BY <1>1, <1>9 DEF Serve, tab
<1>10. CASE Expire
  BY <1>10 DEF Expire, tab
<1>11. CASE Rotate
  BY <1>11 DEF Rotate, registry, tab
<1>12. CASE Prune \/ UNCHANGED vars
  BY <1>1, <1>12 DEF Prune, vars, tab
<1> QED
  BY <1>3, <1>4, <1>5, <1>6, <1>7, <1>8, <1>9, <1>10, <1>11, <1>12 DEF Next, TabStep

\* Every step keeps the invariant, while enabling and changing exclude each other.
LEMMA StepInv == ASSUME ~Overlap, IInv, [Next]_vars PROVE IInv'
<1> USE RegistryAssumption DEF IInv
<1>1. Typed' /\ HoldInv' /\ ~ (Changing /\ Enabling)'
  BY TypedStep, ApartStep
<1>2. issued \subseteq issued' /\ (subscription' # None => subscription' \in issued')
  BY BrowserStep DEF IssuedInv
<1>3. \A t \in Tab, a \in Activities : held'[t][a] # None => held'[t][a] \in issued'
  BY <1>2, HeldStep DEF IssuedInv
<1>4. \A u \in User, e \in Endpoint : Linked(u, e) => e \in issued
  BY DEF IssuedInv, Linked
<1>5. \A u \in User, e \in Endpoint : Linked(u, e)' => e \in issued'
  BY <1>2, <1>4, LinkedStep DEF IssuedInv
<1>6. IssuedInv'
  BY <1>2, <1>3, <1>5 DEF IssuedInv, Linked
<1>7. ActInv'
  <2> SUFFICES ASSUME NEW t \in Tab, change'[t] = "act", subscription' # None PROVE FALSE
    BY DEF ActInv
  <2>1. change[t] = "act" /\ subscription = None
    BY BrowserStep DEF ActInv
  <2>2. \E s \in Tab : enable[s] = "subscribe"
    BY <2>1, BrowserStep
  <2> QED
    BY <2>1, <2>2 DEF Changing, Enabling
<1>8. OwnInv'
  <2> SUFFICES ASSUME session' # None, NEW e \in Endpoint, subscription' = e,
                      NEW u \in User, Linked(u, e)'
               PROVE  u = session'
    BY <1>1 DEF OwnInv, Linked, Typed
  <2>1. CASE e = subscription
    <3>1. session' = session
      BY <2>1, BrowserStep DEF ActInv
    <3>2. CASE Linked(u, e)
      BY <2>1, <3>1, <3>2 DEF OwnInv
    <3>3. CASE ~ Linked(u, e)
      BY <3>1, <3>3, LinkedStep
    <3> QED
      BY <3>2, <3>3
  <2>2. CASE e # subscription
    <3>1. e \notin issued /\ UNCHANGED <<rows, pending>>
      BY <2>2, BrowserStep
    <3>2. Linked(u, e)
      BY <3>1 DEF Linked
    <3> QED
      BY <1>4, <3>1, <3>2
  <2> QED
    BY <2>1, <2>2
<1> QED
  BY <1>1, <1>6, <1>7, <1>8

\* For any number of tabs and accounts, the live subscription of a browser is registered
\* for nobody but the account that is signed in, as long as notifications are not
\* enabled during a change of account.
THEOREM NoneForeign == ASSUME ~Overlap PROVE Spec => []NoForeignDestination
<1>1. IInv => NoForeignDestination
  BY DEF IInv, OwnInv, NoForeignDestination, Linked
<1>2. IInv /\ [Next]_vars => IInv'
  BY StepInv
<1> QED
  BY InitInv, <1>1, <1>2, PTL DEF Spec

----------------------------------------------------------------------------
(* Types, with or without Overlap.                                          *)

\* What the tabs remember of a session is a truth value, and endpoints are handed out
\* from those there are.
Seen == known \in [Tab -> BOOLEAN] /\ issued \subseteq Endpoint

\* Only a change of account looks at the session, and only a subscription takes an
\* endpoint.
LEMMA SeenStep == Typed /\ Seen /\ [Next]_vars => Seen'
<1> SUFFICES ASSUME Typed, Seen, [Next]_vars PROVE Seen'
  OBVIOUS
<1> USE DEF Seen, browser, tab
<1>1. ASSUME NEW t \in Tab, UNCHANGED issued,
             \E b \in BOOLEAN : known' = [known EXCEPT ![t] = b]
      PROVE  Seen'
  BY <1>1
<1>2. CASE UNCHANGED <<known, issued>>
  BY <1>2
<1>3. ASSUME NEW t \in Tab, Reload(t) \/ Logout(t) \/ AskMe(t) \/ GiveUp(t) \/ Act(t)
      PROVE  Seen'
  BY <1>1, <1>3 DEF Reload, Logout, AskMe, GiveUp, Act, EndChange
<1>4. ASSUME NEW t \in Tab,
             \/ ResyncLook(t) \/ ResyncSend(t) \/ ResyncDone(t)
             \/ Enable(t) \/ EnableFails(t) \/ EnableSend(t) \/ EnableDone(t)
             \/ (\E u \in User : Login(t, u)) \/ Look(t) \/ Unregister(t) \/ Unsubscribe(t)
      PROVE  Seen'
  BY <1>2, <1>4 DEF ResyncLook, ResyncSend, ResyncDone, Enable, EnableFails, EnableSend,
                    EnableDone, Login, Look, Unregister, Unsubscribe
<1>5. ASSUME NEW t \in Tab, EnableSubscribe(t) PROVE Seen'
  BY <1>5 DEF EnableSubscribe
<1>6. CASE Rotate
  BY <1>6 DEF Rotate
<1>7. CASE Expire \/ Prune \/ \E r \in Request : Serve(r)
  BY <1>2, <1>7 DEF Expire, Prune, Serve
<1>8. CASE UNCHANGED vars
  BY <1>2, <1>8 DEF vars
<1> QED
  BY <1>3, <1>4, <1>5, <1>6, <1>7, <1>8 DEF Next, TabStep

\* An endpoint is known to tabs, requests and rows only once it was handed out, also
\* when notifications are enabled during a change of account.
LEMMA IssuedStep ==
    ASSUME Typed, HoldInv, IssuedInv, [Next]_vars
    PROVE  IssuedInv'
<1>1. issued \subseteq issued' /\ (subscription' # None => subscription' \in issued')
  BY BrowserStep DEF IssuedInv
<1>2. \A t \in Tab, a \in Activities : held'[t][a] # None => held'[t][a] \in issued'
  BY <1>1, HeldStep DEF IssuedInv
<1>3. \A u \in User, e \in Endpoint : Linked(u, e)' => e \in issued'
  <2> SUFFICES ASSUME NEW u \in User, NEW e \in Endpoint, Linked(u, e)' PROVE e \in issued'
    OBVIOUS
  <2>1. CASE Linked(u, e)
    BY <1>1, <2>1 DEF IssuedInv, Linked
  <2>2. CASE ~ Linked(u, e)
    <3>1. PICK t \in Tab, a \in Activities : held[t][a] = e
      BY <2>2, LinkedStep
    <3>2. e # None
      BY RegistryAssumption
    <3> QED
      BY <1>1, <3>1, <3>2 DEF IssuedInv
  <2> QED
    BY <2>1, <2>2
<1> QED
  BY <1>1, <1>2, <1>3 DEF IssuedInv, Linked

\* The types of the browser, its tabs and the registry; in particular an endpoint that is
\* held or subscribed has been handed out.
THEOREM LifecycleTypes == Spec => []TypeOK
<1> DEFINE Known == Typed /\ HoldInv /\ IssuedInv /\ Seen
<1>1. Init => Known
  BY InitInv DEF IInv, Init, Seen
<1>2. Known /\ [Next]_vars => Known'
  BY TypedStep, IssuedStep, SeenStep
<1>3. Known => TypeOK
  <2> SUFFICES ASSUME Known PROVE TypeOK
    OBVIOUS
  <2>1. held \in [Tab -> [Activities -> issued \cup {None}]]
    <3>1. \A t \in Tab : held[t] \in [Activities -> issued \cup {None}]
      BY DEF Typed, IssuedInv
    <3> QED
      BY <3>1 DEF Typed
  <2>2. subscription \in issued \cup {None}
    BY DEF IssuedInv
  <2> QED
    BY <2>1, <2>2 DEF Typed, Seen, TypeOK
<1> QED
  BY <1>1, <1>2, <1>3, PTL DEF Spec
=============================================================================

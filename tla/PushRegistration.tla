--------------------------- MODULE PushRegistration ---------------------------
(***************************************************************************)
(* The push devices of the accounts: upsert_push_subscription and the two   *)
(* deletes of app/repositories/push_subscriptions.py, called by             *)
(* app/routers/push.py and, for expired endpoints, by the notifier.  Each   *)
(* request is a PostgreSQL transaction; its statements interleave with      *)
(* those of the other requests, on any connection or serverless instance.   *)
(***************************************************************************)
EXTENDS Naturals, FiniteSets

CONSTANTS
    Request,        \* slots for requests in progress
    User, Endpoint,
    MaxEndpoints,   \* MAX_PUSH_ENDPOINTS
    None

ASSUME RegistrationAssumption ==
    /\ MaxEndpoints \in Nat
    /\ IsFiniteSet(Endpoint)
    /\ None \notin Request \cup User \cup Endpoint \cup (User \X Endpoint)

VARIABLES
    rows,           \* <<user, endpoint>> rows of push_subscriptions
    userLock,       \* holder of the advisory lock of a user's devices
    endpointLock,   \* holder of the advisory lock of an endpoint
    step, owner, target     \* a request's own state

request == <<step, owner, target>>
registration == <<rows, userLock, endpointLock, request>>

Devices(u) == {e \in Endpoint : <<u, e>> \in rows}

RegistrationInit ==
    /\ rows = {}
    /\ userLock = [u \in User |-> None]
    /\ endpointLock = [e \in Endpoint |-> None]
    /\ step = [r \in Request |-> "idle"]
    /\ owner = [r \in Request |-> None]
    /\ target = [r \in Request |-> None]

\* POST /api/push/subscribe arrives, as the account of its session cookie.
Subscribe(r, u, e) ==
    /\ step[r] = "idle"
    /\ step' = [step EXCEPT ![r] = "lockUser"]
    /\ owner' = [owner EXCEPT ![r] = u]
    /\ target' = [target EXCEPT ![r] = e]
    /\ UNCHANGED <<rows, userLock, endpointLock>>

\* Mutant of LockUser: the devices of the user are not locked.
LockUserUnguarded(r) ==
    /\ step[r] = "lockUser"
    /\ step' = [step EXCEPT ![r] = "lockEndpoint"]
    /\ UNCHANGED <<rows, userLock, endpointLock, owner, target>>

LockUser(r) ==
    /\ step[r] = "lockUser"
    /\ userLock[owner[r]] = None
    /\ userLock' = [userLock EXCEPT ![owner[r]] = r]
    /\ step' = [step EXCEPT ![r] = "lockEndpoint"]
    /\ UNCHANGED <<rows, endpointLock, owner, target>>

\* Mutant of LockEndpoint: the endpoint is not locked.
LockEndpointUnguarded(r) ==
    /\ step[r] = "lockEndpoint"
    /\ step' = [step EXCEPT ![r] = "owner"]
    /\ UNCHANGED <<rows, userLock, endpointLock, owner, target>>

LockEndpoint(r) ==
    /\ step[r] = "lockEndpoint"
    /\ endpointLock[target[r]] = None
    /\ endpointLock' = [endpointLock EXCEPT ![target[r]] = r]
    /\ step' = [step EXCEPT ![r] = "owner"]
    /\ UNCHANGED <<rows, userLock, owner, target>>

\* Mutant of Finish: the endpoint's lock belongs to the session and stays.
FinishKeepingEndpoint(r) ==
    /\ userLock' = [u \in User |-> IF userLock[u] = r THEN None ELSE userLock[u]]
    /\ step' = [step EXCEPT ![r] = "idle"]
    /\ owner' = [owner EXCEPT ![r] = None]
    /\ target' = [target EXCEPT ![r] = None]
    /\ UNCHANGED endpointLock

\* The transaction ends, committed or rolled back, and its locks go.
Finish(r) ==
    /\ userLock' = [u \in User |-> IF userLock[u] = r THEN None ELSE userLock[u]]
    /\ endpointLock' =
         [e \in Endpoint |-> IF endpointLock[e] = r THEN None ELSE endpointLock[e]]
    /\ step' = [step EXCEPT ![r] = "idle"]
    /\ owner' = [owner EXCEPT ![r] = None]
    /\ target' = [target EXCEPT ![r] = None]

Foreign(r) == \E u \in User \ {owner[r]} : <<u, target[r]>> \in rows

CheckOwner(r) ==
    /\ step[r] = "owner"
    /\ ~ Foreign(r)
    /\ step' = [step EXCEPT ![r] = "existing"]
    /\ UNCHANGED <<rows, userLock, endpointLock, owner, target>>

\* PushOwnershipConflict: 409.
RefuseOwner(r) ==
    /\ step[r] = "owner"
    /\ Foreign(r)
    /\ Finish(r)
    /\ UNCHANGED rows

\* A known endpoint is refreshed without a look at the count.
CheckExisting(r) ==
    /\ step[r] = "existing"
    /\ step' = [step EXCEPT ![r] =
                  IF <<owner[r], target[r]>> \in rows THEN "insert" ELSE "count"]
    /\ UNCHANGED <<rows, userLock, endpointLock, owner, target>>

\* Mutant of CheckCount: off by one.
CheckCountInclusive(r) ==
    /\ step[r] = "count"
    /\ Cardinality(Devices(owner[r])) <= MaxEndpoints
    /\ step' = [step EXCEPT ![r] = "insert"]
    /\ UNCHANGED <<rows, userLock, endpointLock, owner, target>>

CheckCount(r) ==
    /\ step[r] = "count"
    /\ Cardinality(Devices(owner[r])) < MaxEndpoints
    /\ step' = [step EXCEPT ![r] = "insert"]
    /\ UNCHANGED <<rows, userLock, endpointLock, owner, target>>

\* PushDeviceLimitReached: 409.
RefuseLimit(r) ==
    /\ step[r] = "count"
    /\ Cardinality(Devices(owner[r])) >= MaxEndpoints
    /\ Finish(r)
    /\ UNCHANGED rows

\* Mutant of Insert: the columns are swapped.
InsertSwapped(r) ==
    /\ step[r] = "insert"
    /\ rows' = rows \cup {<<target[r], owner[r]>>}
    /\ Finish(r)

\* INSERT ... ON CONFLICT DO UPDATE, and the commit.
Insert(r) ==
    /\ step[r] = "insert"
    /\ rows' = rows \cup {<<owner[r], target[r]>>}
    /\ Finish(r)

\* The connection breaks or the instance stops: the transaction rolls back.
Abort(r) ==
    /\ step[r] # "idle"
    /\ Finish(r)
    /\ UNCHANGED rows

\* One DELETE statement without a lock: by endpoint for the account that asks,
\* by id for an endpoint that has expired.
Delete(u, e) ==
    /\ <<u, e>> \in rows
    /\ rows' = rows \ {<<u, e>>}
    /\ UNCHANGED <<userLock, endpointLock, request>>

Proceed(r) ==
    \/ LockUser(r)
    \/ LockEndpoint(r)
    \/ CheckOwner(r)
    \/ RefuseOwner(r)
    \/ CheckExisting(r)
    \/ CheckCount(r)
    \/ RefuseLimit(r)
    \/ Insert(r)

RegistrationStep(r) == Proceed(r) \/ Abort(r)

RegistrationNext ==
    \/ \E r \in Request : RegistrationStep(r)
    \/ \E r \in Request, u \in User, e \in Endpoint : Subscribe(r, u, e)
    \/ \E u \in User, e \in Endpoint : Delete(u, e)

RegistrationSpec == RegistrationInit /\ [][RegistrationNext]_registration

\* A request runs on, and PostgreSQL grants advisory locks in the order they
\* are asked for.
RegistrationFairness ==
    \A r \in Request :
        /\ WF_registration(Proceed(r))
        /\ SF_registration(LockUser(r))
        /\ SF_registration(LockEndpoint(r))

FairRegistrationSpec == RegistrationSpec /\ RegistrationFairness

----------------------------------------------------------------------------

Steps == {"idle", "lockUser", "lockEndpoint", "owner", "existing", "count", "insert"}

\* Every variable has its type.
RegistrationTypeOK ==
    /\ rows \subseteq User \X Endpoint
    /\ userLock \in [User -> Request \cup {None}]
    /\ endpointLock \in [Endpoint -> Request \cup {None}]
    /\ step \in [Request -> Steps]
    /\ owner \in [Request -> User \cup {None}]
    /\ target \in [Request -> Endpoint \cup {None}]

\* However registrations of one account race, on one endpoint or on several,
\* with refreshes of endpoints that are deleted meanwhile, it never has more
\* devices than upsert_push_subscription allows.
DeviceLimit == \A u \in User : Cardinality(Devices(u)) <= MaxEndpoints

\* However accounts race for an endpoint, it never belongs to two of them.
OneOwner ==
    \A u, v \in User, e \in Endpoint :
        <<u, e>> \in rows /\ <<v, e>> \in rows => u = v

\* No request waits forever: the user lock is always taken before the endpoint
\* lock, so the requests never wait on each other in a circle.
RegistrationAnswered == \A r \in Request : step[r] # "idle" ~> step[r] = "idle"

\* s has the lock that r asks for.
WaitsFor(r, s) ==
    \/ step[r] = "lockUser" /\ userLock[owner[r]] = s
    \/ step[r] = "lockEndpoint" /\ endpointLock[target[r]] = s

\* The safety of that: a lock goes with its transaction, so who is waited for is at
\* work, and a chain of waiting registrations ends after two links, however many
\* accounts and endpoints they are about.
NoCircularWait ==
    \A r, s \in Request :
        WaitsFor(r, s) =>
            /\ step[s] # "idle"
            /\ \A t, u \in Request : ~ (WaitsFor(s, t) /\ WaitsFor(t, u))

\* The registry as one atomic decision per request.
Registry == INSTANCE DeviceRegistry WITH
    pending <- [r \in Request |->
                  IF step[r] = "idle" THEN None ELSE <<owner[r], target[r]>>]

\* The decision taken over several unserialized reads, while rows are deleted
\* without a lock, is one that the rows at the moment of the commit justify:
\* every registration is a registration of DeviceRegistry.
ImplementsRegistry == Registry!RegistrySpec
=============================================================================

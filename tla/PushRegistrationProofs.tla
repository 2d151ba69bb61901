------------------------ MODULE PushRegistrationProofs ------------------------
(* Theorems about PushRegistration, for any numbers of requests, accounts    *)
(* and endpoints and for any limit.                                          *)
EXTENDS PushRegistration, FiniteSetTheorems, TLAPS

----------------------------------------------------------------------------
(* The inductive invariant.                                                 *)

Locked == {"lockEndpoint", "owner", "existing", "count", "insert"}
Cleared == {"existing", "count", "insert"}

\* A request in progress is about an account and an endpoint.
BusyInv ==
    \A r \in Request : step[r] # "idle" => owner[r] \in User /\ target[r] \in Endpoint

\* Past a lock, a request holds it.
LockInv ==
    \A r \in Request :
        /\ step[r] \in Locked => userLock[owner[r]] = r
        /\ step[r] \in Cleared \cup {"owner"} => endpointLock[target[r]] = r

\* Nobody else can have got the endpoint since the request looked.
OwnerInv == \A r \in Request : step[r] \in Cleared => ~ Foreign(r)

\* About to insert, a request has a place for its device, whatever rows were
\* deleted since it looked.
RoomInv ==
    \A r \in Request : step[r] = "insert" =>
        Cardinality(Devices(owner[r]) \cup {target[r]}) <= MaxEndpoints

IInv ==
    /\ RegistrationTypeOK
    /\ BusyInv
    /\ LockInv
    /\ OwnerInv
    /\ RoomInv
    /\ DeviceLimit
    /\ OneOwner

----------------------------------------------------------------------------
(* Device sets are finite, so a smaller one has fewer members.              *)

\* A part of a set of devices within the limit is within the limit.
LEMMA FewerDevices ==
    ASSUME NEW S, NEW T, S \subseteq T, T \subseteq Endpoint,
           Cardinality(T) <= MaxEndpoints
    PROVE  Cardinality(S) <= MaxEndpoints
<1>1. IsFiniteSet(T)
  BY RegistrationAssumption, FS_Subset
<1>2. Cardinality(S) <= Cardinality(T) /\ IsFiniteSet(S)
  BY <1>1, FS_Subset
<1>3. Cardinality(S) \in Nat /\ Cardinality(T) \in Nat
  BY <1>1, <1>2, FS_CardinalityType
<1> QED
  BY <1>2, <1>3, RegistrationAssumption

\* Below the limit there is a place for one more device.
LEMMA OneMoreDevice ==
    ASSUME NEW S, S \subseteq Endpoint, NEW e \in Endpoint,
           Cardinality(S) < MaxEndpoints
    PROVE  Cardinality(S \cup {e}) <= MaxEndpoints
<1>1. IsFiniteSet(S)
  BY RegistrationAssumption, FS_Subset
<1>2. Cardinality(S) \in Nat
  BY <1>1, FS_CardinalityType
<1>3. Cardinality(S \cup {e}) = IF e \in S THEN Cardinality(S) ELSE Cardinality(S) + 1
  BY <1>1, FS_AddElement
<1> QED
  BY <1>2, <1>3, RegistrationAssumption

----------------------------------------------------------------------------
(* A step of a request that only ends it, and the kinds of steps there are. *)

Ends(r) == step[r] # "idle" /\ Finish(r) /\ UNCHANGED rows

\* A step of the registry is one of these.
LEMMA StepKinds ==
    ASSUME [RegistrationNext]_registration
    PROVE  \/ \E r \in Request, u \in User, e \in Endpoint : Subscribe(r, u, e)
           \/ \E r \in Request :
                 \/ LockUser(r) \/ LockEndpoint(r) \/ CheckOwner(r) \/ CheckExisting(r)
                 \/ CheckCount(r) \/ Insert(r) \/ Ends(r)
           \/ \E u \in User, e \in Endpoint : Delete(u, e)
           \/ UNCHANGED registration
<1>1. ASSUME NEW r \in Request, RefuseOwner(r) \/ RefuseLimit(r) \/ Abort(r)
      PROVE  Ends(r)
  BY <1>1 DEF RefuseOwner, RefuseLimit, Abort, Ends
<1> QED
  BY <1>1 DEF RegistrationNext, RegistrationStep, Proceed

\* Every step keeps the types, and what a request in progress is about.
LEMMA TypeStep ==
    ASSUME RegistrationTypeOK, BusyInv, [RegistrationNext]_registration
    PROVE  RegistrationTypeOK' /\ BusyInv'
<1> USE RegistrationAssumption
<1>1. ASSUME NEW r \in Request, NEW u \in User, NEW e \in Endpoint, Subscribe(r, u, e) PROVE RegistrationTypeOK' /\ BusyInv'
  BY <1>1 DEF RegistrationTypeOK, BusyInv, Steps, Subscribe, request
<1>2. ASSUME NEW r \in Request, LockUser(r) PROVE RegistrationTypeOK' /\ BusyInv'
  BY <1>2 DEF RegistrationTypeOK, BusyInv, Steps, LockUser, request
<1>3. ASSUME NEW r \in Request, LockEndpoint(r) PROVE RegistrationTypeOK' /\ BusyInv'
  BY <1>3 DEF RegistrationTypeOK, BusyInv, Steps, LockEndpoint, request
<1>4. ASSUME NEW r \in Request, CheckOwner(r) PROVE RegistrationTypeOK' /\ BusyInv'
  BY <1>4 DEF RegistrationTypeOK, BusyInv, Steps, CheckOwner, request
<1>5. ASSUME NEW r \in Request, CheckExisting(r) PROVE RegistrationTypeOK' /\ BusyInv'
  BY <1>5 DEF RegistrationTypeOK, BusyInv, Steps, CheckExisting, request
<1>6. ASSUME NEW r \in Request, CheckCount(r) PROVE RegistrationTypeOK' /\ BusyInv'
  BY <1>6 DEF RegistrationTypeOK, BusyInv, Steps, CheckCount, request
<1>7. ASSUME NEW r \in Request, Insert(r) PROVE RegistrationTypeOK' /\ BusyInv'
  BY <1>7 DEF RegistrationTypeOK, BusyInv, Steps, Insert, Finish, request
<1>8. ASSUME NEW r \in Request, Ends(r) PROVE RegistrationTypeOK' /\ BusyInv'
  BY <1>8 DEF RegistrationTypeOK, BusyInv, Steps, Ends, Finish, request
<1>9. ASSUME NEW u \in User, NEW e \in Endpoint, Delete(u, e) PROVE RegistrationTypeOK' /\ BusyInv'
  BY <1>9 DEF RegistrationTypeOK, BusyInv, Steps, Delete, request
<1>10. CASE UNCHANGED registration
  BY <1>10 DEF RegistrationTypeOK, BusyInv, Steps, registration, request
<1> QED
  BY StepKinds, <1>1, <1>2, <1>3, <1>4, <1>5, <1>6, <1>7, <1>8, <1>9, <1>10

\* A request gives its locks back only at its end.
LEMMA LockStep ==
    ASSUME RegistrationTypeOK, BusyInv, LockInv, [RegistrationNext]_registration
    PROVE  LockInv'
<1> USE RegistrationAssumption
<1>1. ASSUME NEW r \in Request, NEW u \in User, NEW e \in Endpoint, Subscribe(r, u, e) PROVE LockInv'
  BY <1>1 DEF RegistrationTypeOK, BusyInv, LockInv, Locked, Cleared, Steps, Subscribe, request
<1>2. ASSUME NEW r \in Request, LockUser(r) PROVE LockInv'
  BY <1>2 DEF RegistrationTypeOK, BusyInv, LockInv, Locked, Cleared, Steps, LockUser, request
<1>3. ASSUME NEW r \in Request, LockEndpoint(r) PROVE LockInv'
  BY <1>3 DEF RegistrationTypeOK, BusyInv, LockInv, Locked, Cleared, Steps, LockEndpoint, request
<1>4. ASSUME NEW r \in Request, CheckOwner(r) PROVE LockInv'
  BY <1>4 DEF RegistrationTypeOK, BusyInv, LockInv, Locked, Cleared, Steps, CheckOwner, request
<1>5. ASSUME NEW r \in Request, CheckExisting(r) PROVE LockInv'
  BY <1>5 DEF RegistrationTypeOK, BusyInv, LockInv, Locked, Cleared, Steps, CheckExisting, request
<1>6. ASSUME NEW r \in Request, CheckCount(r) PROVE LockInv'
  BY <1>6 DEF RegistrationTypeOK, BusyInv, LockInv, Locked, Cleared, Steps, CheckCount, request
<1>7. ASSUME NEW r \in Request, Insert(r) PROVE LockInv'
  BY <1>7 DEF RegistrationTypeOK, BusyInv, LockInv, Locked, Cleared, Steps, Insert, Finish, request
<1>8. ASSUME NEW r \in Request, Ends(r) PROVE LockInv'
  BY <1>8 DEF RegistrationTypeOK, BusyInv, LockInv, Locked, Cleared, Steps, Ends, Finish, request
<1>9. ASSUME NEW u \in User, NEW e \in Endpoint, Delete(u, e) PROVE LockInv'
  BY <1>9 DEF RegistrationTypeOK, BusyInv, LockInv, Locked, Cleared, Steps, Delete, request
<1>10. CASE UNCHANGED registration
  BY <1>10 DEF RegistrationTypeOK, BusyInv, LockInv, Locked, Cleared, Steps, registration, request
<1> QED
  BY StepKinds, <1>1, <1>2, <1>3, <1>4, <1>5, <1>6, <1>7, <1>8, <1>9, <1>10

\* While the endpoint lock is held, nobody else inserts a row for the endpoint.
LEMMA OwnerStep ==
    ASSUME RegistrationTypeOK, BusyInv, LockInv, OwnerInv, [RegistrationNext]_registration
    PROVE  OwnerInv'
<1> USE RegistrationAssumption
<1>1. ASSUME NEW r \in Request, NEW u \in User, NEW e \in Endpoint, Subscribe(r, u, e) PROVE OwnerInv'
  BY <1>1 DEF RegistrationTypeOK, BusyInv, LockInv, OwnerInv, Foreign, Locked, Cleared, Steps, Subscribe, request
<1>2. ASSUME NEW r \in Request, LockUser(r) PROVE OwnerInv'
  BY <1>2 DEF RegistrationTypeOK, BusyInv, LockInv, OwnerInv, Foreign, Locked, Cleared, Steps, LockUser, request
<1>3. ASSUME NEW r \in Request, LockEndpoint(r) PROVE OwnerInv'
  BY <1>3 DEF RegistrationTypeOK, BusyInv, LockInv, OwnerInv, Foreign, Locked, Cleared, Steps, LockEndpoint, request
<1>4. ASSUME NEW r \in Request, CheckOwner(r) PROVE OwnerInv'
  BY <1>4 DEF RegistrationTypeOK, BusyInv, LockInv, OwnerInv, Foreign, Locked, Cleared, Steps, CheckOwner, request
<1>5. ASSUME NEW r \in Request, CheckExisting(r) PROVE OwnerInv'
  BY <1>5 DEF RegistrationTypeOK, BusyInv, LockInv, OwnerInv, Foreign, Locked, Cleared, Steps, CheckExisting, request
<1>6. ASSUME NEW r \in Request, CheckCount(r) PROVE OwnerInv'
  BY <1>6 DEF RegistrationTypeOK, BusyInv, LockInv, OwnerInv, Foreign, Locked, Cleared, Steps, CheckCount, request
<1>7. ASSUME NEW r \in Request, Insert(r) PROVE OwnerInv'
  BY <1>7 DEF RegistrationTypeOK, BusyInv, LockInv, OwnerInv, Foreign, Locked, Cleared, Steps, Insert, Finish, request
<1>8. ASSUME NEW r \in Request, Ends(r) PROVE OwnerInv'
  BY <1>8 DEF RegistrationTypeOK, BusyInv, LockInv, OwnerInv, Foreign, Locked, Cleared, Steps, Ends, Finish, request
<1>9. ASSUME NEW u \in User, NEW e \in Endpoint, Delete(u, e) PROVE OwnerInv'
  BY <1>9 DEF RegistrationTypeOK, BusyInv, LockInv, OwnerInv, Foreign, Locked, Cleared, Steps, Delete, request
<1>10. CASE UNCHANGED registration
  BY <1>10 DEF RegistrationTypeOK, BusyInv, LockInv, OwnerInv, Foreign, Locked, Cleared, Steps, registration, request
<1> QED
  BY StepKinds, <1>1, <1>2, <1>3, <1>4, <1>5, <1>6, <1>7, <1>8, <1>9, <1>10

\* While the user lock is held, rows of the account only go away.
LEMMA RoomStep ==
    ASSUME RegistrationTypeOK, BusyInv, LockInv, RoomInv, DeviceLimit, [RegistrationNext]_registration
    PROVE  RoomInv'
<1> USE RegistrationAssumption
<1>1. ASSUME NEW r \in Request, NEW u \in User, NEW e \in Endpoint, Subscribe(r, u, e) PROVE RoomInv'
  BY <1>1 DEF RegistrationTypeOK, BusyInv, LockInv, RoomInv, Devices, Locked, Cleared, Steps, Subscribe, request
<1>2. ASSUME NEW r \in Request, LockUser(r) PROVE RoomInv'
  BY <1>2 DEF RegistrationTypeOK, BusyInv, LockInv, RoomInv, Devices, Locked, Cleared, Steps, LockUser, request
<1>3. ASSUME NEW r \in Request, LockEndpoint(r) PROVE RoomInv'
  BY <1>3 DEF RegistrationTypeOK, BusyInv, LockInv, RoomInv, Devices, Locked, Cleared, Steps, LockEndpoint, request
<1>4. ASSUME NEW r \in Request, CheckOwner(r) PROVE RoomInv'
  BY <1>4 DEF RegistrationTypeOK, BusyInv, LockInv, RoomInv, Devices, Locked, Cleared, Steps, CheckOwner, request
<1>5. ASSUME NEW r \in Request, CheckExisting(r) PROVE RoomInv'
  <2> SUFFICES ASSUME NEW q \in Request, step'[q] = "insert"
               PROVE  Cardinality(Devices(owner[q]) \cup {target[q]}) <= MaxEndpoints
    BY <1>5 DEF RoomInv, CheckExisting, Devices
  <2>1. CASE q # r
    BY <1>5, <2>1 DEF RegistrationTypeOK, CheckExisting, RoomInv
  <2>2. CASE q = r
    <3>1. <<owner[r], target[r]>> \in rows /\ owner[r] \in User /\ target[r] \in Endpoint
      BY <1>5, <2>2 DEF RegistrationTypeOK, BusyInv, CheckExisting
    <3>2. Devices(owner[r]) \cup {target[r]} = Devices(owner[r])
      BY <3>1 DEF Devices
    <3> QED
      BY <2>2, <3>1, <3>2 DEF DeviceLimit
  <2> QED
    BY <2>1, <2>2
<1>6. ASSUME NEW r \in Request, CheckCount(r) PROVE RoomInv'
  <2> SUFFICES ASSUME NEW q \in Request, step'[q] = "insert"
               PROVE  Cardinality(Devices(owner[q]) \cup {target[q]}) <= MaxEndpoints
    BY <1>6 DEF RoomInv, CheckCount, Devices
  <2>1. CASE q # r
    BY <1>6, <2>1 DEF RegistrationTypeOK, CheckCount, RoomInv
  <2>2. CASE q = r
    <3>1. Cardinality(Devices(owner[r])) < MaxEndpoints /\ target[r] \in Endpoint
      BY <1>6 DEF BusyInv, CheckCount
    <3>2. Devices(owner[r]) \subseteq Endpoint
      BY DEF Devices
    <3> QED
      BY <2>2, <3>1, <3>2, OneMoreDevice
  <2> QED
    BY <2>1, <2>2
<1>7. ASSUME NEW r \in Request, Insert(r) PROVE RoomInv'
  <2> SUFFICES ASSUME NEW q \in Request, step'[q] = "insert"
               PROVE  Cardinality(Devices(owner[q])' \cup {target'[q]}) <= MaxEndpoints
    BY DEF RoomInv, Devices
  <2>1. q # r /\ step[q] = "insert" /\ owner'[q] = owner[q] /\ target'[q] = target[q]
    BY <1>7 DEF RegistrationTypeOK, Insert, Finish
  <2>2. owner[q] # owner[r]
    BY <1>7, <2>1 DEF Insert, LockInv, Locked
  <2>3. Devices(owner[q])' = Devices(owner[q])
    BY <1>7, <2>1, <2>2 DEF Insert, Devices
  <2> QED
    BY <2>1, <2>3 DEF RoomInv
<1>8. ASSUME NEW r \in Request, Ends(r) PROVE RoomInv'
  BY <1>8 DEF RegistrationTypeOK, BusyInv, LockInv, RoomInv, Devices, Locked, Cleared, Steps, Ends, Finish, request
<1>9. ASSUME NEW u \in User, NEW e \in Endpoint, Delete(u, e) PROVE RoomInv'
  <2> SUFFICES ASSUME NEW q \in Request, step'[q] = "insert"
               PROVE  Cardinality(Devices(owner[q])' \cup {target'[q]}) <= MaxEndpoints
    BY DEF RoomInv, Devices
  <2>1. step[q] = "insert" /\ owner'[q] = owner[q] /\ target'[q] = target[q]
    BY <1>9 DEF Delete, request
  <2>2. target[q] \in Endpoint
    BY <2>1 DEF BusyInv
  <2>3. Devices(owner[q])' \subseteq Devices(owner[q]) /\ Devices(owner[q]) \subseteq Endpoint
    BY <1>9, <2>1 DEF Delete, Devices
  <2>4. Cardinality(Devices(owner[q]) \cup {target[q]}) <= MaxEndpoints
    BY <2>1 DEF RoomInv
  <2>5. Devices(owner[q]) \cup {target[q]} \subseteq Endpoint
    BY <2>2, <2>3
  <2>6. Devices(owner[q])' \cup {target[q]} \subseteq Devices(owner[q]) \cup {target[q]}
    BY <2>3
  <2> QED
    BY <2>1, <2>4, <2>5, <2>6, FewerDevices
<1>10. CASE UNCHANGED registration
  BY <1>10 DEF RegistrationTypeOK, BusyInv, LockInv, RoomInv, Devices, Locked, Cleared, Steps, registration, request
<1> QED
  BY StepKinds, <1>1, <1>2, <1>3, <1>4, <1>5, <1>6, <1>7, <1>8, <1>9, <1>10

\* Only an insertion adds a row, and it adds one the account has a place for.
LEMMA LimitStep ==
    ASSUME RegistrationTypeOK, BusyInv, RoomInv, DeviceLimit, [RegistrationNext]_registration
    PROVE  DeviceLimit'
<1> SUFFICES ASSUME NEW u \in User PROVE Cardinality(Devices(u)') <= MaxEndpoints
  BY DEF DeviceLimit, Devices
<1>1. Cardinality(Devices(u)) <= MaxEndpoints /\ Devices(u) \subseteq Endpoint
  BY DEF DeviceLimit, Devices
<1>2. CASE rows' \subseteq rows
  <2>1. Devices(u)' \subseteq Devices(u)
    BY <1>2 DEF Devices
  <2> QED
    BY <1>1, <2>1, FewerDevices
<1>3. ASSUME NEW r \in Request, Insert(r) PROVE Cardinality(Devices(u)') <= MaxEndpoints
  <2>1. owner[r] \in User /\ target[r] \in Endpoint /\ step[r] = "insert"
    BY <1>3 DEF BusyInv, Insert
  <2>2. CASE u = owner[r]
    <3>1. Devices(u)' = Devices(owner[r]) \cup {target[r]}
      BY <1>3, <2>1, <2>2 DEF Insert, Devices
    <3> QED
      BY <2>1, <3>1 DEF RoomInv
  <2>3. CASE u # owner[r]
    <3>1. Devices(u)' = Devices(u)
      BY <1>3, <2>3 DEF Insert, Devices
    <3> QED
      BY <1>1, <3>1
  <2> QED
    BY <2>2, <2>3
<1> QED
  BY <1>2, <1>3, StepKinds DEF Subscribe, LockUser, LockEndpoint, CheckOwner,
    CheckExisting, CheckCount, Ends, Delete, registration

\* An insert finds no row of another account.
LEMMA OneStep ==
    ASSUME OwnerInv, BusyInv, OneOwner, [RegistrationNext]_registration
    PROVE  OneOwner'
<1>1. CASE rows' \subseteq rows
  BY <1>1 DEF OneOwner
<1>2. ASSUME NEW r \in Request, Insert(r) PROVE OneOwner'
  BY <1>2 DEF OneOwner, OwnerInv, BusyInv, Foreign, Cleared, Insert
<1> QED
  BY <1>1, <1>2, StepKinds DEF Subscribe, LockUser, LockEndpoint, CheckOwner,
    CheckExisting, CheckCount, Ends, Delete, registration

----------------------------------------------------------------------------
(* The invariant holds, and with it what it was made for.                   *)

\* The inductive invariant holds at the start.
LEMMA InitInv == RegistrationInit => IInv
<1> SUFFICES ASSUME RegistrationInit PROVE IInv
  OBVIOUS
<1>1. RegistrationTypeOK /\ BusyInv /\ LockInv /\ OwnerInv /\ RoomInv /\ OneOwner
  BY DEF RegistrationInit, RegistrationTypeOK, Steps, BusyInv, LockInv, OwnerInv, RoomInv,
    OneOwner, Locked, Cleared
<1>2. ASSUME NEW u \in User PROVE Cardinality(Devices(u)) <= MaxEndpoints
  <2>1. Devices(u) = {}
    BY DEF RegistrationInit, Devices
  <2> QED
    BY <2>1, FS_EmptySet, RegistrationAssumption
<1> QED
  BY <1>1, <1>2 DEF IInv, DeviceLimit

\* The inductive invariant is kept by every step.
LEMMA StepInv == IInv /\ [RegistrationNext]_registration => IInv'
  BY TypeStep, LockStep, OwnerStep, RoomStep, LimitStep, OneStep DEF IInv

\* The inductive invariant holds in every state that is reached.
LEMMA InvHolds == RegistrationSpec => []IInv
  BY InitInv, StepInv, PTL DEF RegistrationSpec

\* Type correctness of upsert_push_subscription and the deletes.
THEOREM RegistrationTypeCorrect == RegistrationSpec => []RegistrationTypeOK
  BY InvHolds, PTL DEF IInv

\* However many registrations, refreshes and deletes of an account race, the
\* account stays within MAX_PUSH_ENDPOINTS devices.
THEOREM WithinDeviceLimit == RegistrationSpec => []DeviceLimit
  BY InvHolds, PTL DEF IInv

\* However many accounts race for an endpoint, at most one of them has it.
THEOREM SingleOwner == RegistrationSpec => []OneOwner
  BY InvHolds, PTL DEF IInv

----------------------------------------------------------------------------
(* Refinement.  The reads of a registration are spread over its             *)
(* transaction; the atomic decision of DeviceRegistry is the step that      *)
(* inserts, where the invariant says that the old reads still justify it.   *)

Pending == [r \in Request |-> IF step[r] = "idle" THEN None ELSE <<owner[r], target[r]>>]

\* FiniteSets, reached twice, defines one cardinality.
LEMMA SameCardinality == \A S : Registry!Cardinality(S) = Cardinality(S)
  BY DEF Registry!Cardinality, Cardinality

\* The registry starts out empty.
LEMMA RefinedInit == RegistrationInit => Registry!RegistryInit
  BY DEF RegistrationInit, Registry!RegistryInit

\* A step is a step of the atomic registry, or leaves it alone.
LEMMA RefinedStep ==
    ASSUME IInv, [RegistrationNext]_registration
    PROVE  [Registry!RegistryNext]_(Registry!registry)
<1> USE RegistrationAssumption DEF IInv, RegistrationTypeOK, Pending
<1>1. ASSUME NEW r \in Request, NEW u \in User, NEW e \in Endpoint, Subscribe(r, u, e)
      PROVE  Registry!Ask(r, u, e)
  <2>1. Pending[r] = None /\ rows' = rows
    BY <1>1 DEF Subscribe
  <2>2. ASSUME NEW q \in Request
        PROVE  Pending'[q] = IF q = r THEN <<u, e>> ELSE Pending[q]
    BY <1>1 DEF Subscribe
  <2>3. Pending' = [Pending EXCEPT ![r] = <<u, e>>]
    BY <2>2
  <2> QED
    BY <2>1, <2>3 DEF Registry!Ask
<1>2. ASSUME NEW r \in Request, Insert(r) PROVE Registry!Enrol(r)
  <2>1. owner[r] \in User /\ target[r] \in Endpoint /\ step[r] = "insert"
    BY <1>2 DEF Insert, BusyInv
  <2>2. Pending[r] = <<owner[r], target[r]>>
    BY <2>1
  <2>3. ASSUME NEW q \in Request
        PROVE  Pending'[q] = IF q = r THEN None ELSE Pending[q]
    BY <1>2 DEF Insert, Finish
  <2>4. Pending' = [Pending EXCEPT ![r] = None]
    BY <2>3
  <2>5. Cardinality(Devices(owner[r]) \cup {target[r]}) <= MaxEndpoints
    BY <2>1 DEF RoomInv
  <2>6. \A v \in User : <<v, target[r]>> \in rows => v = owner[r]
    BY <2>1 DEF OwnerInv, Cleared, Foreign
  <2>7. Registry!Admissible(owner[r], target[r])
    BY <2>5, <2>6, SameCardinality DEF Registry!Admissible, Registry!Devices, Devices
  <2> QED
    BY <1>2, <2>1, <2>2, <2>4, <2>7 DEF Registry!Enrol, Insert
<1>3. ASSUME NEW r \in Request, Ends(r) PROVE Registry!Dismiss(r)
  <2>1. owner[r] \in User /\ target[r] \in Endpoint /\ step[r] # "idle"
    BY <1>3 DEF Ends, BusyInv
  <2>2. Pending[r] # None /\ rows' = rows
    BY <1>3, <2>1 DEF Ends
  <2>3. ASSUME NEW q \in Request
        PROVE  Pending'[q] = IF q = r THEN None ELSE Pending[q]
    BY <1>3 DEF Ends, Finish
  <2>4. Pending' = [Pending EXCEPT ![r] = None]
    BY <2>3
  <2> QED
    BY <2>2, <2>4 DEF Registry!Dismiss
<1>4. ASSUME NEW u \in User, NEW e \in Endpoint, Delete(u, e) PROVE Registry!Remove(u, e)
  BY <1>4 DEF Delete, request, Registry!Remove
<1>5. ASSUME NEW r \in Request,
             LockUser(r) \/ LockEndpoint(r) \/ CheckOwner(r) \/ CheckExisting(r) \/ CheckCount(r)
      PROVE  UNCHANGED Registry!registry
  <2>1. rows' = rows
    BY <1>5 DEF LockUser, LockEndpoint, CheckOwner, CheckExisting, CheckCount
  <2>2. ASSUME NEW q \in Request PROVE Pending'[q] = Pending[q]
    BY <1>5 DEF LockUser, LockEndpoint, CheckOwner, CheckExisting, CheckCount
  <2>3. Pending' = Pending
    BY <2>2
  <2> QED
    BY <2>1, <2>3 DEF Registry!registry
<1>6. CASE UNCHANGED registration
  BY <1>6 DEF registration, request, Registry!registry
<1> QED
  BY StepKinds, <1>1, <1>2, <1>3, <1>4, <1>5, <1>6 DEF Registry!RegistryNext

\* Every behaviour of the transactional registration is one of the atomic
\* registry PushLifecycle is built on.
THEOREM RegistrationRefines == RegistrationSpec => ImplementsRegistry
  BY RefinedInit, RefinedStep, InvHolds, PTL
    DEF RegistrationSpec, ImplementsRegistry, Registry!RegistrySpec

----------------------------------------------------------------------------
(* Waiting.                                                                 *)

\* A lock is held by a request that is past it.
HeldInv ==
    /\ \A u \in User : userLock[u] # None => step[userLock[u]] \in Locked
    /\ \A e \in Endpoint :
          endpointLock[e] # None => step[endpointLock[e]] \in Cleared \cup {"owner"}

\* A request takes the locks one after the other and gives both back when it ends.
LEMMA HeldStep ==
    ASSUME RegistrationTypeOK, BusyInv, HeldInv, [RegistrationNext]_registration
    PROVE  HeldInv'
<1> USE RegistrationAssumption DEF RegistrationTypeOK, BusyInv, HeldInv, Locked, Cleared
<1>1. ASSUME NEW r \in Request, NEW u \in User, NEW e \in Endpoint, Subscribe(r, u, e)
      PROVE  HeldInv'
  BY <1>1 DEF Subscribe
<1>2. ASSUME NEW r \in Request, LockUser(r) PROVE HeldInv'
  BY <1>2 DEF LockUser
<1>3. ASSUME NEW r \in Request, LockEndpoint(r) PROVE HeldInv'
  BY <1>3 DEF LockEndpoint
<1>4. ASSUME NEW r \in Request, CheckOwner(r) \/ CheckExisting(r) \/ CheckCount(r)
      PROVE  HeldInv'
  BY <1>4 DEF CheckOwner, CheckExisting, CheckCount
<1>5. ASSUME NEW r \in Request, Insert(r) \/ Ends(r) PROVE HeldInv'
  BY <1>5 DEF Insert, Ends, Finish
<1>6. ASSUME NEW u \in User, NEW e \in Endpoint, Delete(u, e) PROVE HeldInv'
  BY <1>6 DEF Delete, request
<1>7. CASE UNCHANGED registration
  BY <1>7 DEF registration, request
<1> QED
  BY StepKinds, <1>1, <1>2, <1>3, <1>4, <1>5, <1>6, <1>7

\* Who waits for an endpoint waits for a request that has all its locks, and who
\* waits for an account waits for one that waits for an endpoint at most.
THEOREM WaitsAreShort == RegistrationSpec => []NoCircularWait
<1>1. RegistrationInit => HeldInv
  BY DEF RegistrationInit, HeldInv
<1>2. IInv /\ HeldInv /\ [RegistrationNext]_registration => HeldInv'
  BY HeldStep DEF IInv
<1>3. IInv /\ HeldInv => NoCircularWait
  <2> SUFFICES ASSUME IInv, HeldInv, NEW r \in Request, NEW s \in Request, WaitsFor(r, s)
               PROVE  /\ step[s] # "idle"
                      /\ \A t, u \in Request : ~ (WaitsFor(s, t) /\ WaitsFor(t, u))
    BY DEF NoCircularWait
  <2> USE RegistrationAssumption DEF HeldInv, Locked, Cleared, WaitsFor
  <2>1. \A q \in Request : step[q] # "idle" => owner[q] \in User /\ target[q] \in Endpoint
    BY DEF IInv, BusyInv
  <2>2. ASSUME NEW q \in Request, NEW t \in Request, step[q] = "lockEndpoint", WaitsFor(q, t)
        PROVE  step[t] \in Cleared \cup {"owner"}
    BY <2>1, <2>2
  <2>3. step[s] \in Locked
    BY <2>1
  <2>4. ASSUME NEW t \in Request, WaitsFor(s, t) PROVE step[t] \in Cleared \cup {"owner"}
    BY <2>2, <2>3, <2>4
  <2> QED
    BY <2>3, <2>4
<1> QED
  BY <1>1, <1>2, <1>3, InvHolds, PTL DEF RegistrationSpec
=============================================================================

---------------------------- MODULE DeviceRegistry ----------------------------
(***************************************************************************)
(* What the registration of push devices promises, without transactions     *)
(* and locks: a request is decided in one step, on the rows of that moment. *)
(* PushRegistration implements it; PushLifecycle is built on it.            *)
(***************************************************************************)
EXTENDS Naturals, FiniteSets

CONSTANTS
    Request,        \* slots for requests in progress
    User, Endpoint,
    MaxEndpoints,   \* MAX_PUSH_ENDPOINTS
    None

ASSUME RegistryAssumption ==
    /\ MaxEndpoints \in Nat
    /\ IsFiniteSet(Endpoint)
    /\ None \notin Request \cup User \cup Endpoint \cup (User \X Endpoint)

VARIABLES
    rows,       \* <<user, endpoint>> rows of push_subscriptions
    pending     \* <<user, endpoint>> a request in progress is about, or None

registry == <<rows, pending>>

Devices(u) == {e \in Endpoint : <<u, e>> \in rows}

RegistryInit ==
    /\ rows = {}
    /\ pending = [r \in Request |-> None]

Ask(r, u, e) ==
    /\ pending[r] = None
    /\ pending' = [pending EXCEPT ![r] = <<u, e>>]
    /\ UNCHANGED rows

\* A device the account has is refreshed; a new one needs a free place, and an
\* endpoint that nobody else has.
Admissible(u, e) ==
    /\ \A v \in User : <<v, e>> \in rows => v = u
    /\ Cardinality(Devices(u) \cup {e}) <= MaxEndpoints

Enrol(r) ==
    /\ \E u \in User, e \in Endpoint :
          /\ pending[r] = <<u, e>>
          /\ Admissible(u, e)
          /\ rows' = rows \cup {<<u, e>>}
    /\ pending' = [pending EXCEPT ![r] = None]

\* Refused with 409, or failed.
Dismiss(r) ==
    /\ pending[r] # None
    /\ pending' = [pending EXCEPT ![r] = None]
    /\ UNCHANGED rows

Remove(u, e) ==
    /\ <<u, e>> \in rows
    /\ rows' = rows \ {<<u, e>>}
    /\ UNCHANGED pending

RegistryNext ==
    \/ \E r \in Request : Enrol(r) \/ Dismiss(r)
    \/ \E r \in Request, u \in User, e \in Endpoint : Ask(r, u, e)
    \/ \E u \in User, e \in Endpoint : Remove(u, e)

RegistrySpec == RegistryInit /\ [][RegistryNext]_registry
=============================================================================

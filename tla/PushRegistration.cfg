SPECIFICATION FairRegistrationSpec
CONSTANTS
    Request = {r1, r2}
    User = {alice, bob}
    Endpoint = {e1, e2, e3}
    MaxEndpoints = 2
    None = None
INVARIANTS
    RegistrationTypeOK
    DeviceLimit
    OneOwner
PROPERTIES
    RegistrationAnswered
    ImplementsRegistry

SPECIFICATION Spec
CONSTANTS
    Tab = {tab1, tab2}
    Request <- TabRequests
    User = {alice, bob}
    Endpoint = {e1, e2}
    MaxEndpoints = 1
    Overlap = FALSE
    None = None
SYMMETRY Symmetries
INVARIANTS
    NoForeignDestination

SPECIFICATION Spec
CONSTANTS
    Addresses = {a1, l1, l2}
    LinkLocal = {l1, l2}
    NoAddress = NoAddress
    PROBE_NUM = 1
    ANNOUNCE_NUM = 1
    MAX_CONFLICTS = 3
    ConflictBound = 3
    DISCOVER_RETRIES = 2
    REQUEST_RETRIES = 1
    UserAddresses = {a1}
    Routers = {r1}
    ServerIds = {TRUE}
    AcdChanges = FALSE
    SocketOutcomes = {TRUE}
    EarlyChanges = FALSE
    LateAcd = FALSE
    AckRetryBound = 1
INVARIANTS
    LeaseGuarded
    NeverStuck
    NoStaleAddress
PROPERTY
    ProbedBeforeUse
VIEW WithoutReports
SYMMETRY Symmetric

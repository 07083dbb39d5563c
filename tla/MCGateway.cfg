SPECIFICATION Spec
CHECK_DEADLOCK FALSE
CONSTANTS
    Services = {a, b}
    Vpn = {}
    SplitRouting = {}
    OnLink = {a, b}
    Surroundings <- CalmAndBusy
INVARIANTS
    DefaultIsHighPriority
    AgreesWithKernel
    NoOrphanRoute
PROPERTIES
    RtnlSettles

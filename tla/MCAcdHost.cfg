CONSTANTS
    Addresses = {a1, a2, l1}
    LinkLocal = {l1}
    NoAddress = NoAddress
    PROBE_NUM = 3
    ANNOUNCE_NUM = 2
    MAX_CONFLICTS = 10
    ConflictBound = 11
SPECIFICATION HostSpec
INVARIANTS
    ClaimedAfterProbes
    TimerFollowsState
    AvailableIsUncontested

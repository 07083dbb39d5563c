SPECIFICATION Spec
CONSTANTS
    Services = {"e", "v"}
    Vpn = {}
    SplitRouting = {}
    OnLink = {"e", "v"}
    PreferredTechnologies <- NoPreference
    Type <- EthWifiType
    Name <- Alphabetical
    Device <- OwnDevice
    HashOrder <- EthFirst
    Ipv6 = {"v"}
    NeedsKey = {"v"}
    AutoConnect = {"e", "v"}
    AgentPresent = TRUE
    SingleConnectedTechnology = FALSE
    NetworksCap = 0
    Strengths = {1, 2}
    WhileAsked = {}
    MaxEvents = 0
INVARIANTS
    NotifierCounts
    PendingIsGuarded
    OnlyDefaultOnline
    QuietNetwork
VIEW WithoutStrength

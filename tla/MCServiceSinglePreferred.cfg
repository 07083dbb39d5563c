SPECIFICATION Spec
CONSTANTS
    Services = {"e", "v"}
    Vpn = {}
    SplitRouting = {}
    OnLink = {"e", "v"}
    PreferredTechnologies <- PreferWifi
    Type <- EthWifiType
    Name <- Alphabetical
    Device <- OwnDevice
    HashOrder <- EthFirst
    Ipv6 = {}
    NeedsKey = {}
    AutoConnect = {"e", "v"}
    AgentPresent = FALSE
    SingleConnectedTechnology = TRUE
    NetworksCap = 0
    Strengths = {1}
    WhileAsked = {}
    MaxEvents = 0
PROPERTIES
    NewServiceKept

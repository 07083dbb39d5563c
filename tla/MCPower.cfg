SPECIFICATION Spec
CONSTANTS
    Types = {"wifi", "p2p", "ethernet"}
    Devices = {"wlan0", "wlan1", "eth0"}
    TypeOf <- WifiEthernet
    ReportsOff = {"wlan0", "wlan1"}
    Switches = {"s1", "s2"}
    Hosts <- AllHosts
    Answers = {"0", "EINPROGRESS"}
    Succeeds = {TRUE, FALSE}
    MaxEvents = 2
INVARIANTS
    PoweredByDevices
    PendingIsTimed
    CallerRemembered

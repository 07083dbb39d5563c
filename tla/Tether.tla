---------------------------- MODULE Tether ----------------------------
(***************************************************************************)
(* src/ippool.c: the private address blocks known to be in use, and the    *)
(* choice of a free one for tethering and for private networks.            *)
(*                                                                         *)
(* Addresses are counted in units of 64, so that a block of 256 addresses  *)
(* is four units and 192.168.0.0 fits in TLC's integers.  The known blocks *)
(* are a sequence, the newest first, as the code's list.                   *)
(***************************************************************************)
EXTENDS Integers, Sequences, FiniteSets

NONE == "none"
block(a, b, c) == ((a * 256 + b) * 256 + c) * 4
block_16_bits == block(192, 168, 0)
block_20_bits == block(172, 16, 0)
block_24_bits == block(10, 0, 0)

\* The next block of 256 addresses, through 192.168.x.0, 172.16-31.x.0 and 10.x.x.0 and round.
next_block(k) ==
    LET n == k \div 4
        a == n \div 65536
        b == (n \div 256) % 256
        c == n % 256
    IN IF c + 1 # 255 THEN block(a, b, c + 1)
       ELSE IF a = 192 THEN block_20_bits
       ELSE IF a = 172 THEN IF b + 1 = 32 THEN block_24_bits ELSE block(a, b + 1, 0)
       ELSE IF b + 1 >= 255 THEN block_16_bits ELSE block(a, b + 1, 0)

\* A known block is a collision if it holds the first address of the candidate.
Taken(list, k) == \E i \in 1..Len(list) : list[i].start <= k /\ k <= list[i].end

\* The search ends when it is back at the last block that was given out.
RECURSIVE free_from(_, _, _)
free_from(list, k, last) ==
    IF ~Taken(list, k) THEN k
    ELSE LET n == next_block(k) IN IF n = last THEN 0 ELSE free_from(list, n, last)
get_free_block(w) == free_from(w.blocks, IF w.last # 0 THEN w.last ELSE block_16_bits, w.last)

lookup_info(w, index, start) ==
    {i \in 1..Len(w.blocks) : w.blocks[i].index = index /\ w.blocks[i].start = start}

without(list, i) == [j \in 1..(Len(list) - 1) |-> IF j < i THEN list[j] ELSE list[j + 1]]

is_private_address(u) ==
    LET n == u \div 1024
    IN n \div 256 = 10 \/ n = 192 * 256 + 168 \/ (n \div 256 = 172 /\ n % 256 \in 16..31)

\* The units of a network, and the first unit of the one that holds u.
units(prefixlen) == IF prefixlen >= 26 THEN 1 ELSE 2 ^ (26 - prefixlen)
network(u, prefixlen) == (u \div units(prefixlen)) * units(prefixlen)

\* Faulty variant: a block that a network starts in goes unnoticed.
Collision_None(list, i) == NONE

\* The first other entry that holds the start of a new one decides: its pool, if it has one,
\* is told, and the entries after it are not looked at.
Collision(list, i) ==
    LET hits == {j \in 1..Len(list) : j # i /\ list[j].start <= list[i].start
                                      /\ list[i].start <= list[j].end}
    IN IF hits = {} THEN NONE
       ELSE list[CHOOSE j \in hits : \A k \in hits : j <= k].pool

\* An address of an interface is counted.  The result says whose pool collides with it.
newaddr(w, index, u, prefixlen) ==
    LET start == network(u, prefixlen)
        known == lookup_info(w, index, start)
        i == CHOOSE i \in known : TRUE
        info == [index |-> index, start |-> start, end |-> start + units(prefixlen) - 1,
                 use |-> 1, pool |-> NONE]
    IN IF ~is_private_address(u) THEN [st |-> w, hit |-> NONE]
       ELSE IF known # {}
       THEN [st |-> [w EXCEPT !.blocks[i].use = @ + 1],
             hit |-> IF w.blocks[i].use = 0 /\ w.blocks[i].pool = NONE
                     THEN Collision(w.blocks, i) ELSE NONE]
       ELSE [st |-> [w EXCEPT !.blocks = <<info>> \o @],
             hit |-> Collision(<<info>> \o w.blocks, 1)]

\* A prefix of 32 shifts a 32-bit value by 32, which the language leaves undefined: the mask
\* is all ones or none, and with none the entry is not found.
Masks(prefixlen) == IF prefixlen = 32 THEN BOOLEAN ELSE {TRUE}
deladdr(w, index, u, prefixlen, mask) ==
    LET known == lookup_info(w, index, IF mask THEN network(u, prefixlen) ELSE 0)
        i == CHOOSE i \in known : TRUE
    IN IF ~is_private_address(u) \/ known = {} THEN w
       ELSE IF w.blocks[i].pool # NONE \/ w.blocks[i].use > 1
       THEN [w EXCEPT !.blocks[i].use = @ - 1]
       ELSE [w EXCEPT !.blocks = without(@, i)]

\* A pool for owner, of range addresses; 0 if no block is free.
ippool_create(w, index, range, owner, k) ==
    IF k = 0 THEN w
    ELSE [w EXCEPT !.last = k,
                   !.blocks = <<[index |-> index, start |-> k, end |-> k + range \div 64,
                                 use |-> 0, pool |-> owner]>> \o @]

ippool_free(w, owner) ==
    LET held == {i \in 1..Len(w.blocks) : w.blocks[i].pool = owner}
    IN IF held = {} THEN w ELSE [w EXCEPT !.blocks = without(@, CHOOSE i \in held : TRUE)]

-----------------------------------------------------------------------------
(***************************************************************************)
(* Tethering: the technologies that share the connection (src/technology.c,*)
(* plugins/ethernet.c, plugins/bluetooth.c and the access point of         *)
(* plugins/wifi.c), what serves their clients (src/tethering.c,            *)
(* src/bridge.c, src/nat.c, the pool of src/ippool.c), the private         *)
(* networks of applications, and the list of clients told on D-Bus.        *)
(*                                                                         *)
(* The addresses of the host's interfaces reach the pool through netlink,  *)
(* in a queue, after the kernel made the change.  Every bridge the kernel  *)
(* makes has an index of its own.                                          *)
(***************************************************************************)

CONSTANTS Scenarios,   \* [techs, nets, defaults, private]: the technologies in use, the
                       \* addresses the host's interfaces may get, the default interfaces and
                       \* whether a private network is asked for
          Interfaces,  \* the wired interfaces
          Clients,     \* the stations that may join the access point
          Failures,    \* what may fail when serving starts: "bridge", "address", "listener",
                       \* "server", "nat"
          MaxGen,      \* bound on the bridges and tunnels made
          MaxLost,     \* bound on the restarts that fail
          MaxUse,      \* bound on the addresses counted of one network
          MaxQueue     \* bound on the messages and calls under way

VARIABLE s

Techs == {"ethernet", "bluetooth", "wifi"}
tun == 100     \* the index of the tunnel; bridges are numbered from 1
-------------------------------------------------------------------------------
(* nat.c: one entry, for the bridge.                                       *)
NoNat == [here |-> FALSE, addr |-> 0, out |-> NONE]

\* The rules lead to the default interface; without one there are none.
enable_nat(w) == [w EXCEPT !.nat.out = w.default]
nat_enable(w, addr) ==
    enable_nat([w EXCEPT !.nat = [here |-> TRUE, addr |-> addr, out |-> NONE], !.forward = TRUE])
nat_disable(w) == IF ~w.nat.here THEN w ELSE [w EXCEPT !.nat = NoNat, !.forward = FALSE]

\* Faulty variant: the rules still lead to the interface they were made for.
update_default_interface_Keep(w, d) == [w EXCEPT !.default = d]

update_default_interface(w, d) ==
    LET q == [w EXCEPT !.default = d] IN IF w.nat.here THEN enable_nat(q) ELSE q
-------------------------------------------------------------------------------
(* The list of clients, told 100 milliseconds after a change.              *)
client_schedule_changed(w) == [w EXCEPT !.timer = TRUE]

\* Faulty variant: a client that comes back is still among the removed.
client_register_Removed(w, a) == client_schedule_changed([w EXCEPT !.clients = @ \cup {a}])

client_register(w, a) ==
    client_schedule_changed([w EXCEPT !.clients = @ \cup {a}, !.removed = @ \ {a}])
client_unregister(w, a) ==
    client_schedule_changed([w EXCEPT !.clients = @ \ {a}, !.removed = @ \cup {a}])
unregister_all_clients(w) ==
    IF w.clients = {} THEN w
    ELSE client_schedule_changed([w EXCEPT !.clients = {}, !.removed = @ \cup w.clients])

\* Listeners add the registered clients and take away the removed ones.
client_send_changed(w) ==
    [w EXCEPT !.timer = FALSE, !.told = (@ \cup w.clients) \ w.removed, !.removed = {}]
-------------------------------------------------------------------------------
(* tethering.c: the bridge and what serves it, counted.                    *)
told_by_kernel(w, t, index, u, prefixlen) ==
    [w EXCEPT !.rtnl = Append(@, [t |-> t, index |-> index, u |-> u, len |-> prefixlen])]

bridge_create(w) == [w EXCEPT !.bridge = TRUE, !.gen = @ + 1]
bridge_enable(w, u) == told_by_kernel([w EXCEPT !.addressed = u], "new", w.gen, u, 24)
address_lost(w) ==
    IF w.addressed = 0 THEN w ELSE told_by_kernel(w, "del", w.gen, w.addressed, 24)
bridge_remove(w) == [address_lost(w) EXCEPT !.bridge = FALSE, !.addressed = 0, !.ports = {}]

\* What is given back when a step fails depends on how far the start has come: the listener
\* of the DNS proxy and the entry of the address translation are never given back.  Without
\* a listener the DHCP server names a fallback server to its clients.
give_back(w) == bridge_remove([ippool_free(w, "tether") EXCEPT !.pool = 0])
listening(w, out, k) == [bridge_enable(w, k) EXCEPT !.listener = out # "listener"]
served(w, dns) == [w EXCEPT !.server = dns, !.count = 1]

serve(w, out, k) ==
    CASE out = "address" -> give_back(w)
      [] out = "server" -> give_back(listening(w, out, k))
      [] out = "nat" -> give_back(nat_enable(listening(w, out, k), k))
      [] out = "listener" -> served(nat_enable(listening(w, out, k), k), "fallback")
      [] out = "ok" -> served(nat_enable(listening(w, out, k), k), "gateway")

serve_from(w, out, k) ==
    IF k = 0 THEN bridge_remove(w)
    ELSE serve([ippool_create(w, w.gen, 252, "tether", k) EXCEPT !.pool = k], out, k)

set_enabled(w, out, k) ==
    IF w.count # 0 THEN [w EXCEPT !.count = @ + 1]
    ELSE IF out = "bridge" THEN w
    ELSE serve_from(bridge_create(w), out, k)

set_disabled(w) ==
    IF w.count # 1 THEN [w EXCEPT !.count = @ - 1]
    ELSE bridge_remove(ippool_free([nat_disable(unregister_all_clients(w))
           EXCEPT !.count = 0, !.listener = FALSE, !.server = NONE, !.pool = 0], "tether"))

\* A collision moves the bridge to another block; with two technologies on it, the two steps
\* only count down and up.  Nobody hears of a restart that fails: lost counts them.
restarted(w, out) == set_enabled(w, out, get_free_block(w))
tethering_restart(w, out) ==
    LET r == restarted(set_disabled(w), out)
    IN IF r.count = w.count THEN r ELSE [r EXCEPT !.lost = @ + 1]
-------------------------------------------------------------------------------
(* A private network of an application, over a tunnel.                     *)
\* The tunnel goes with its descriptor, and its address with it.
remove_private_network(w) ==
    LET k == w.blocks[CHOOSE i \in 1..Len(w.blocks) : w.blocks[i].pool = "private"].start
        gone == [ippool_free(nat_disable(w), "private") EXCEPT !.pn = NONE]
    IN IF w.pn = "up" THEN told_by_kernel(gone, "del", tun, k, 24) ELSE gone

private_network_request(w, k) ==
    IF k = 0 THEN w
    ELSE [ippool_create(w, tun, 1, "private", k) EXCEPT !.pn = "asked", !.gen = @ + 1]

\* The link of the tunnel, which is down at first, is given its addresses.
setup_tun_interface(w, out) ==
    LET k == w.blocks[CHOOSE i \in 1..Len(w.blocks) : w.blocks[i].pool = "private"].start
    IN IF out = "nat" THEN remove_private_network(nat_enable(w, k))
       ELSE told_by_kernel([nat_enable(w, k) EXCEPT !.pn = "up"], "new", tun, k, 24)

\* What the owner of the pool does when a network starts inside it.
collided(w, hit, out) ==
    CASE hit = "tether" -> tethering_restart(w, out)
      [] hit = "private" -> remove_private_network(w)
      [] hit = NONE -> w
told_owner(r, out) == collided(r.st, r.hit, out)
-------------------------------------------------------------------------------
(* The technologies.                                                       *)
counted(w, t, before) == IF w.count = before THEN w ELSE [w EXCEPT !.tethering[t] = TRUE]

\* Faulty variant: every interface of the technology is counted.
tethering_notify_Each(w, t, enabled, out, k) ==
    IF enabled THEN counted(set_enabled(w, out, k), t, w.count)
    ELSE [set_disabled(w) EXCEPT !.tethering[t] = FALSE]

\* Counted once for each technology; a start that fails leaves it as it was.
tethering_notify(w, t, enabled, out, k) ==
    IF w.tethering[t] = enabled THEN w
    ELSE IF enabled THEN counted(set_enabled(w, out, k), t, w.count)
    ELSE [set_disabled(w) EXCEPT !.tethering[t] = FALSE]

\* Ethernet: each interface in turn, so that the second finds the first one's count.
add_port(w, i) == IF w.bridge THEN [w EXCEPT !.ports = @ \cup {i}] ELSE w
eth_enable_step(w, i, out) ==
    add_port(tethering_notify(w, "ethernet", TRUE, out, get_free_block(w)), i)
RECURSIVE eth_tech_enable_tethering(_, _, _)
eth_tech_enable_tethering(w, rest, out) ==
    IF rest = {} THEN w
    ELSE LET i == CHOOSE i \in rest : TRUE
         IN eth_tech_enable_tethering(eth_enable_step(w, i, out), rest \ {i}, out)
eth_disable_step(w, i) ==
    tethering_notify([w EXCEPT !.ports = @ \ {i}], "ethernet", FALSE, "ok", 0)
RECURSIVE eth_tech_disable_tethering(_, _)
eth_tech_disable_tethering(w, rest) ==
    IF rest = {} THEN w
    ELSE LET i == CHOOSE i \in rest : TRUE
         IN eth_tech_disable_tethering(eth_disable_step(w, i), rest \ {i})

\* Bluetooth: a call of bluez, whose answer is counted.
bluetooth_set_tethering(w, enabled) == [w EXCEPT !.bluez = Append(@, enabled)]

\* Wi-Fi: the station's interface of the supplicant makes way for an access point's.
remove_station(w) ==
    IF ~w.tethering["wifi"] THEN [w EXCEPT !.wifi.param = FALSE]
    ELSE [w EXCEPT !.wifi.calls = Append(@, "remove")]
enable_wifi_tethering(w, out) ==
    IF w.wifi.iface = NONE \/ w.wifi.supported = "no" THEN w
    ELSE remove_station(tethering_notify(
             [w EXCEPT !.wifi.tether = TRUE, !.wifi.supported = "yes", !.wifi.param = TRUE],
             "wifi", TRUE, out, get_free_block(w)))

no_longer_shared(w) == tethering_notify(w, "wifi", FALSE, "ok", 0)
wifi_disable_tethering(w) ==
    no_longer_shared(
        IF w.wifi.tether
        THEN [w EXCEPT !.wifi.tether = FALSE, !.wifi.bridged = FALSE, !.ports = @ \ {"wlan"}]
        ELSE w)

set_tethering(w, t, enabled, out) ==
    IF ~w.on[t] THEN w
    ELSE CASE t = "ethernet" /\ enabled -> eth_tech_enable_tethering(w, w.eth, out)
           [] t = "ethernet" /\ ~enabled -> eth_tech_disable_tethering(w, w.eth)
           [] t = "bluetooth" -> bluetooth_set_tethering(w, enabled)
           [] t = "wifi" /\ enabled -> enable_wifi_tethering(w, out)
           [] t = "wifi" /\ ~enabled -> wifi_disable_tethering(w)

\* The answers of the supplicant to the three calls that follow each other.
sta_remove_callback(w, ok) ==
    IF ~ok \/ w.wifi.supported # "yes"
    THEN no_longer_shared([w EXCEPT !.wifi.tether = FALSE,
                                    !.wifi.param = @ /\ w.wifi.supported # "yes"])
    ELSE [w EXCEPT !.wifi.iface = NONE, !.wifi.calls = Append(@, "create")]

\* An access point that cannot be made is no longer counted.
ap_failed(w) ==
    IF w.wifi.supported # "yes" THEN [w EXCEPT !.ports = @ \ {"wlan"}]
    ELSE no_longer_shared([w EXCEPT !.ports = @ \ {"wlan"}, !.wifi.param = FALSE])

ap_create_callback(w, ok) ==
    IF ~ok \/ w.wifi.supported # "yes" THEN ap_failed(w)
    ELSE [w EXCEPT !.wifi.iface = "ap", !.wifi.calls = Append(@, "connect")]
ap_start_callback(w, ok) == IF ~ok \/ w.wifi.supported # "yes" THEN ap_failed(w) ELSE w

\* The supplicant says that the access point cannot be made: another interface is tried, and
\* there is none.
ap_create_fail(w) ==
    IF ~w.wifi.tether \/ ~w.wifi.param THEN w
    ELSE no_longer_shared([w EXCEPT !.ports = @ \ {"wlan"}, !.wifi.supported = "no",
                                    !.wifi.tether = FALSE, !.wifi.param = FALSE])

handle_tethering(w) ==
    IF ~w.wifi.tether \/ w.wifi.bridged \/ ~w.bridge THEN w
    ELSE [w EXCEPT !.wifi.bridged = TRUE, !.ports = @ \cup {"wlan"}]

technology_disable(w, t) ==
    [(IF w.tethering[t] THEN set_tethering(w, t, FALSE, "ok") ELSE w) EXCEPT !.on[t] = FALSE]

\* The device goes before its interface, and takes the tethering of the technology with it.
ethernet_unplugged(w, i) ==
    [(IF w.tethering["ethernet"] THEN set_tethering(w, "ethernet", FALSE, "ok") ELSE w)
       EXCEPT !.eth = @ \ {i}, !.ports = @ \ {i}]
-------------------------------------------------------------------------------
NewWifi == [tether |-> FALSE, bridged |-> FALSE, supported |-> "unknown", param |-> FALSE,
            iface |-> "sta", calls |-> <<>>]

Init == \E sc \in Scenarios :
    s = [scenario |-> sc, on |-> [t \in Techs |-> TRUE], tethering |-> [t \in Techs |-> FALSE],
         eth |-> Interfaces, bluez |-> <<>>, wifi |-> NewWifi,
         count |-> 0, bridge |-> FALSE, gen |-> 0, addressed |-> 0, ports |-> {},
         pool |-> 0, server |-> NONE, listener |-> FALSE, lost |-> 0,
         nat |-> NoNat, forward |-> FALSE, default |-> NONE,
         blocks |-> <<>>, last |-> 0, addrs |-> {}, rtnl |-> <<>>, pn |-> NONE,
         clients |-> {}, removed |-> {}, timer |-> FALSE, told |-> {}]

Becomes(st) ==
    /\ st.gen <= MaxGen /\ st.lost <= MaxLost /\ \A i \in 1..Len(st.blocks) : st.blocks[i].use <= MaxUse
    /\ Len(st.rtnl) <= MaxQueue /\ Len(st.bluez) <= MaxQueue /\ Len(st.wifi.calls) <= MaxQueue
    /\ s' = st

Outcomes == Failures \cup {"ok"}

\* SetProperty "Tethering" refuses the value it has.
SetTethering == \E t \in s.scenario.techs, v \in BOOLEAN, out \in Outcomes :
    /\ s.tethering[t] # v
    /\ v \/ out = "ok"
    /\ Becomes(set_tethering(s, t, v, out))

TechnologyOff == \E t \in s.scenario.techs : s.on[t] /\ Becomes(technology_disable(s, t))
TechnologyOn == \E t \in s.scenario.techs :
    /\ ~s.on[t]
    /\ t = "wifi" => s.wifi.calls = <<>>
    /\ Becomes([s EXCEPT !.on[t] = TRUE, !.wifi = IF t = "wifi" THEN NewWifi ELSE @])

EthernetPlugged == \E i \in Interfaces \ s.eth :
    "ethernet" \in s.scenario.techs /\ Becomes([s EXCEPT !.eth = @ \cup {i}])
EthernetUnplugged == \E i \in s.eth :
    "ethernet" \in s.scenario.techs /\ Becomes(ethernet_unplugged(s, i))

\* The answer to Register or Unregister.
BluezAnswers == \E ok \in BOOLEAN, out \in Outcomes :
    /\ s.bluez # <<>>
    /\ LET q == [s EXCEPT !.bluez = Tail(@)]
       IN Becomes(IF ok THEN tethering_notify(q, "bluetooth", Head(s.bluez), out, get_free_block(s))
                  ELSE q)

SupplicantAnswers == \E ok \in BOOLEAN :
    /\ s.wifi.calls # <<>>
    /\ LET q == [s EXCEPT !.wifi.calls = Tail(@)]
       IN Becomes(CASE Head(s.wifi.calls) = "remove" -> sta_remove_callback(q, ok)
                    [] Head(s.wifi.calls) = "create" -> ap_create_callback(q, ok)
                    [] Head(s.wifi.calls) = "connect" -> ap_start_callback(q, ok))

ApFails == s.wifi.iface = "ap" /\ s.wifi.param /\ Becomes(ap_create_fail(s))
\* The interface is completed: the parameters are no longer needed.
ApCompleted == s.wifi.iface = "ap" /\ s.wifi.param /\ Becomes([s EXCEPT !.wifi.param = FALSE])
ApLinkUp == s.wifi.iface = "ap" /\ ~s.wifi.bridged /\ Becomes(handle_tethering(s))
sta_authorized(c) == s.wifi.tether /\ c \notin s.clients /\ Becomes(client_register(s, c))
sta_deauthorized(c) == s.wifi.tether /\ c \in s.clients /\ Becomes(client_unregister(s, c))
Stations == s.wifi.iface = "ap" /\ \E c \in Clients : sta_authorized(c) \/ sta_deauthorized(c)
ClientsTimer == s.timer /\ Becomes(client_send_changed(s))

\* An interface of the host gets or loses an address.
AddressAppears == \E n \in s.scenario.nets \ s.addrs :
    Becomes(told_by_kernel([s EXCEPT !.addrs = @ \cup {n}], "new", n.index, n.u, n.len))
AddressGoes == \E n \in s.addrs :
    Becomes(told_by_kernel([s EXCEPT !.addrs = @ \ {n}], "del", n.index, n.u, n.len))
KernelTells ==
    /\ s.rtnl # <<>>
    /\ LET m == Head(s.rtnl)
           q == [s EXCEPT !.rtnl = Tail(@)]
       IN IF m.t = "new"
          THEN \E out \in Outcomes : Becomes(told_owner(newaddr(q, m.index, m.u, m.len), out))
          ELSE \E mask \in Masks(m.len) : Becomes(deladdr(q, m.index, m.u, m.len, mask))

DefaultChanges == \E d \in s.scenario.defaults \ {s.default} :
    Becomes(update_default_interface(s, d))

PrivateRequest ==
    s.scenario.private /\ s.pn = NONE /\ Becomes(private_network_request(s, get_free_block(s)))
PrivateSetup == \E out \in {"ok", "nat"} : s.pn = "asked" /\ Becomes(setup_tun_interface(s, out))
PrivateRelease == s.pn # NONE /\ Becomes(remove_private_network(s))

Next ==
    \/ SetTethering \/ TechnologyOff \/ TechnologyOn \/ EthernetPlugged \/ EthernetUnplugged
    \/ BluezAnswers \/ SupplicantAnswers \/ ApFails \/ ApCompleted \/ ApLinkUp
    \/ Stations \/ ClientsTimer
    \/ AddressAppears \/ AddressGoes \/ KernelTells \/ DefaultChanges
    \/ PrivateRequest \/ PrivateSetup \/ PrivateRelease

Spec == Init /\ [][Next]_s
-------------------------------------------------------------------------------
\* The bridge is counted once for each technology that shares the connection, whatever the
\* order of their asynchronous answers, unplugged interfaces and failed starts, but for one
\* count for each restart that failed.  It has its address pool, DHCP server and, unless a
\* private network uses the same entry, address translation exactly while it is counted, and
\* its clients are told to ask the DNS proxy exactly when that listens (tethering.c,
\* technology.c).  The translation leads to the default interface, and none is left when
\* neither tethering nor a private network is in use.
Serving ==
    LET up == s.count > 0
    IN /\ s.count = Cardinality({t \in Techs : s.tethering[t]}) - s.lost
       /\ s.bridge = up /\ (s.pool # 0) = up /\ (s.server # NONE) = up
       /\ s.listener <=> s.server = "gateway"
       /\ s.nat.here => up \/ s.pn = "up"
       /\ s.scenario.techs = {} \/ ~s.scenario.private => s.nat.here = (up \/ s.pn = "up")
       /\ s.forward = s.nat.here
       /\ s.nat.here => s.nat.out = s.default

\* No network of the host that is known starts inside the pool of the bridge or of a private
\* network: a pool is taken from a free block, and given up when a network appears in it
\* (ippool.c).
PoolClear == \A i, j \in 1..Len(s.blocks) :
    s.blocks[i].pool # NONE /\ s.blocks[j].index > tun
        => ~(s.blocks[i].start <= s.blocks[j].start /\ s.blocks[j].start <= s.blocks[i].end)

\* When no announcement is pending, listeners of TetheringClientsChanged know exactly the
\* registered clients, whatever came and went since the last one (tethering.c).
ClientsTold == ~s.timer => s.told = s.clients

=============================================================================

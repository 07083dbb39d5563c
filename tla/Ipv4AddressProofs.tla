------------------------- MODULE Ipv4AddressProofs -------------------------
(***************************************************************************)
(* Which addresses a network has on its interface (module Ipv4Config): an  *)
(* address is used only after it was probed, and none is left behind when  *)
(* it is replaced or the link is lost.                                     *)
(***************************************************************************)
EXTENDS Ipv4FunctionProofs

\* What a new ipconfig changes.
LEMMA NewIpconfigEffect ==
    ASSUME NEW w \in Networks, NEW method \in Methods, NEW address \in MaybeAddress
    PROVE  LET r == NewIpconfig(w, method, address)
           IN  /\ r \in Networks
               /\ (r.acd <=> w.acd) /\ (r.connected <=> w.connected) /\ (r.active <=> w.active)
               /\ r.method = method /\ r.local = address
               /\ (r.dhcp <=> w.dhcp) /\ r.client = w.client /\ (r.retry <=> w.retry)
               /\ r.ll = w.ll /\ (r.ll_running <=> w.ll_running)
               /\ (r.dhcp_timeout <=> w.dhcp_timeout) /\ (r.ipv4ll_timeout <=> w.ipv4ll_timeout)
               /\ r.host = w.host /\ r.kernel = w.kernel /\ (r.gateway <=> w.gateway)
  <1>1. NewIpconfig(w, method, address) \in Networks
    BY MaybeFacts, ZenonT(30) DEF Networks, NewIpconfig, MaybeRouter
  <1> QED
    BY <1>1 DEF Networks, NewIpconfig

\* A new configuration, with no address but leftovers on the interface.
LEMMA NewIpconfigGood ==
    ASSUME NEW w, Base(w), ~w.dhcp, NEW method \in Methods, NEW address \in MaybeAddress,
           method # "MANUAL" => address = NoAddress,
           Calm => Tidy(w) /\ w.kernel \subseteq Leave(w) /\ ~w.dhcp_timeout
    PROVE  LET r == NewIpconfig(w, method, address)
           IN  /\ Base(r) /\ Steady(w, r) /\ (method # "MANUAL" => Bonded(r))
               /\ r.client = w.client /\ (r.connected <=> w.connected)
               /\ (r.active <=> w.active) /\ r.method = method
               /\ Calm => Tidy(r) /\ r.kernel \subseteq Leave(r)
  <1> DEFINE r == NewIpconfig(w, method, address)
  <1>1. /\ r \in Networks
        /\ (r.acd <=> w.acd) /\ (r.connected <=> w.connected) /\ (r.active <=> w.active)
        /\ r.method = method /\ r.local = address
        /\ (r.dhcp <=> w.dhcp) /\ r.client = w.client
        /\ r.ll = w.ll /\ (r.ll_running <=> w.ll_running)
        /\ (r.dhcp_timeout <=> w.dhcp_timeout) /\ (r.ipv4ll_timeout <=> w.ipv4ll_timeout)
        /\ r.host = w.host /\ r.kernel = w.kernel /\ (r.gateway <=> w.gateway)
    <2>1. w \in Networks
      BY DEF Base
    <2> QED
      BY <2>1, NewIpconfigEffect
  <1> HIDE DEF r
  <1>2. Base(r) /\ Steady(w, r) /\ (method # "MANUAL" => Bonded(r)) /\ ~r.ll_running
    BY <1>1 DEF Base, Steady, Bonded
  <1>3. Leave(r) = Leave(w)
    BY <1>1 DEF Leave
  <1>4. Calm => Tidy(r) /\ r.kernel \subseteq Leave(r)
    BY <1>1, <1>2, <1>3, ZenonT(30) DEF Tidy
  <1> QED
    BY <1>1, <1>2, <1>4, Zenon DEF r

\* Setting IPv4.Configuration, before the link is up only with EarlyChanges.
LEMMA ReconfiguredGood ==
    ASSUME NEW w, Good(w), ClientOK(w.client), NEW method \in Methods,
           NEW address \in MaybeAddress, method # "MANUAL" => address = NoAddress,
           w.active \/ ~w.dhcp, w.active => w.connected \/ EarlyChanges, NEW e \in Environments
    PROVE  LET r == Reconfigured(w, method, address, e)
           IN  Good(r) /\ Steady(w, r)
  <1> DEFINE c == clear_ipconfig(w)
             v == NewIpconfig(c, method, address)
             u == NewIpconfig(w, method, address)
  <1>1. CASE w.active
    <2>1. Reconfigured(w, method, address, e) = __connman_network_enable_ipconfig(v, e)
      BY <1>1 DEF Reconfigured
    <2>2. /\ Base(c) /\ Quieter(w, c) /\ ClientOK(c.client) /\ ~c.dhcp
          /\ Calm => /\ Tidy(c) /\ c.kernel \subseteq Leave(c) /\ ~c.dhcp_timeout
                     /\ c.connected
      BY <1>1, ClearGood DEF Calm
    <2> HIDE DEF c
    <2>3. Steady(w, c)
      BY <2>2, QuieterParts DEF Good
    <2>4. /\ Base(v) /\ Steady(c, v) /\ (v.method # "MANUAL" => Bonded(v))
          /\ ClientOK(v.client)
          /\ Calm => Tidy(v) /\ v.kernel \subseteq Leave(v) /\ v.connected
      BY <2>2, NewIpconfigGood
    <2> HIDE DEF v
    <2>5. Good(__connman_network_enable_ipconfig(v, e))
          /\ Steady(v, __connman_network_enable_ipconfig(v, e))
      BY <2>4, EnableGood
    <2> QED
      BY <2>1, <2>3, <2>4, <2>5, SteadyTrans
  <1>2. CASE ~w.active
    <2>1. Reconfigured(w, method, address, e) = u
      BY <1>2 DEF Reconfigured
    <2>2. ~w.connected /\ ~w.dhcp /\ Base(w)
      BY <1>2 DEF Good, Served
    <2>3. Calm => Tidy(w) /\ w.kernel \subseteq Leave(w) /\ ~w.dhcp_timeout
      BY <2>2, ZenonT(30) DEF Good, Tidy
    <2>4. /\ Base(u) /\ Steady(w, u) /\ (method # "MANUAL" => Bonded(u))
          /\ (u.connected <=> w.connected) /\ u.method = method /\ (Calm => Tidy(u))
      BY <2>2, <2>3, NewIpconfigGood
    <2> HIDE DEF u
    <2>5. Served(u) /\ Bonded(u)
      BY <2>2, <2>4 DEF Served, Bonded
    <2> QED
      BY <2>1, <2>4, <2>5 DEF Good
  <1> QED
    BY <1>1, <1>2

\* The timers of the ACD host.
LEMMA HostTimeoutGood ==
    ASSUME Good(n), ClientOK(n.client), NEW e \in Environments, HostTimeout(e)
    PROVE  Good(n') /\ (~LateAcd => Probed(n, n'))
  <1>1. n.host \in Hosts /\ HostOK(n.host) /\ e.opened \in BOOLEAN
    BY EnvironmentFacts DEF Good, Base, Networks
  <1>2. CASE n.host.timeout = "probe" /\ n' = [n EXCEPT !.host = acd_probe_timeout(@, e.opened)]
    <2> DEFINE h == acd_probe_timeout(n.host, e.opened)
    <2>1. n.host.state = "PROBE" /\ n.host.listen_on /\ Probing(n.host)
      BY <1>1, <1>2 DEF HostOK, Probing
    <2>2. h \in Hosts /\ h.listen_on /\ h.requested_ip = n.host.requested_ip /\ HostOK(h)
      BY <1>1, <2>1, ProbeTimeoutEffect DEF HostOK, Probing
    <2>3. n' = [n EXCEPT !.host = h]
      BY <1>2
    <2> HIDE DEF h
    <2>4. Good(n') /\ Steady(n, n')
      BY <2>1, <2>2, <2>3, HostStep
    <2> QED
      BY <2>4, SteadyProbed
  <1>3. CASE /\ n.host.timeout = "announce" /\ HostActs
             /\ n' = HostDid([n EXCEPT !.host = acd_announce_timeout(n.host).host],
                             acd_announce_timeout(n.host).callback, e)
    <2> DEFINE h == acd_announce_timeout(n.host).host
               v == [n EXCEPT !.host = h]
    <2>1. n.host.state = "ANNOUNCE" /\ n.host.listen_on /\ Probing(n.host)
      BY <1>1, <1>3 DEF HostOK, Probing
    <2>2. /\ h \in Hosts /\ h.listen_on /\ h.requested_ip = n.host.requested_ip
          /\ HostOK(h)
          /\ \/ acd_announce_timeout(n.host).callback = "none"
             \/ acd_announce_timeout(n.host).callback = "available" /\ ~Probing(h)
      BY <1>1, <2>1, AnnounceTimeoutEffect DEF HostOK, Probing
    <2>3. HostDid(v, "none", e) = v /\ HostDid(v, "available", e) = acd_host_ipv4_available(v)
      BY DEF HostDid
    <2> HIDE DEF h
    <2>4. Good(v) /\ Steady(n, v)
      BY <2>1, <2>2, HostStep
    <2>5. ~Probing(h) => /\ Good(acd_host_ipv4_available(v))
                         /\ ~LateAcd => Probed(n, acd_host_ipv4_available(v))
      BY <1>3, <2>2, AvailableGood DEF HostActs
    <2> HIDE DEF v
    <2> QED
      BY <1>3, <2>2, <2>3, <2>4, <2>5, SteadyProbed DEF h, v
  <1>4. CASE n.host.timeout = "defend" /\ n' = [n EXCEPT !.host = acd_defend_timeout(@)]
    <2> DEFINE h == acd_defend_timeout(n.host)
    <2>1. n.host.listen_on
      BY <1>1, <1>4 DEF HostOK
    <2>2. h \in Hosts
      BY <1>1, DefendTimeoutTyped
    <2>3. h.timeout = "none" /\ h.state = "MONITOR"
      BY <1>1 DEF acd_defend_timeout, Hosts
    <2>4. n' = [n EXCEPT !.host = h]
      BY <1>4
    <2> HIDE DEF h
    <2>5. HostOK(h) /\ ~Probing(h)
      BY <2>3 DEF HostOK, Probing
    <2>6. Good(n') /\ Steady(n, n')
      BY <2>1, <2>2, <2>4, <2>5, HostStep
    <2> QED
      BY <2>6, SteadyProbed
  <1> QED
    BY <1>2, <1>3, <1>4 DEF HostTimeout

\* acd_recv_arp_packet() reports a conflict exactly to a host without its address.
LEMMA ReceiveCallback ==
    ASSUME NEW h \in Hosts, NEW source \in BOOLEAN
    PROVE  LET r == acd_recv_arp_packet(h, source)
           IN  /\ h.state \in {"PROBE", "ANNOUNCE"} => r.callback \in {"conflict", "maxconflict"}
               /\ h.state \in {"MONITOR", "DEFEND"} => r.callback \in {"none", "lost"}
  <1>1. CASE h.state \in {"PROBE", "ANNOUNCE"}
    BY <1>1 DEF acd_recv_arp_packet
  <1>2. CASE h.state \in {"MONITOR", "DEFEND"}
    BY <1>2 DEF acd_recv_arp_packet
  <1> QED
    BY <1>1, <1>2

\* A packet of another host that uses or probes the address.
LEMMA HostConflictGood ==
    ASSUME Good(n), ClientOK(n.client), NEW e \in Environments, NEW source \in BOOLEAN,
           Conflict(source, e)
    PROVE  Good(n') /\ Steady(n, n')
  <1> DEFINE r == acd_recv_arp_packet(n.host, source)
             h == r.host
             v == [n EXCEPT !.host = h]
  <1>1. n.host \in Hosts /\ HostOK(n.host) /\ n.host.listen_on /\ (n.connected \/ LateAcd)
    BY DEF Good, Base, Networks, Conflict, Hears, HostActs
  <1>2. n' = HostDid(v, r.callback, e)
    BY DEF Conflict
  <1>3. h \in Hosts /\ n.host.state \in AcdStates
    BY <1>1, ReceiveEffect DEF Hosts
  <1>4. CASE n.host.state \in {"MONITOR", "DEFEND"}
    <2>1. h.state \in {"MONITOR", "DEFEND"} /\ h.timeout \in {n.host.timeout, "defend"}
          /\ h.listen_on
      BY <1>1, <1>4, ReceiveEffect
    <2>2. HostOK(h) /\ ~Probing(h)
      BY <1>1, <1>4, <2>1 DEF HostOK, Probing
    <2>3. r.callback \in {"none", "lost"}
      BY <1>1, <1>4, ReceiveCallback
    <2>4. n' = v \/ n' = acd_host_ipv4_lost(v, e)
      BY <1>2, <2>3 DEF HostDid
    <2> HIDE DEF r, h
    <2>5. Good(v) /\ Steady(n, v)
      BY <1>1, <1>3, <2>2, HostStep
    <2>6. Good(acd_host_ipv4_lost(v, e)) /\ Steady(n, acd_host_ipv4_lost(v, e))
      BY <1>1, <1>3, <2>2, LostGood
    <2> HIDE DEF v
    <2> QED
      BY <2>4, <2>5, <2>6
  <1>5. CASE n.host.state \in {"PROBE", "ANNOUNCE"}
    <2>1. h.timeout = "none" /\ ~h.listen_on
      BY <1>1, <1>5, ReceiveEffect
    <2>2. HostOK(h) /\ ~Probing(h) /\ Probing(n.host)
      BY <1>1, <1>5, <2>1 DEF HostOK, Probing
    <2>3. r.callback \in {"conflict", "maxconflict"}
      BY <1>1, <1>5, ReceiveCallback
    <2>4. n' = acd_host_ipv4_conflict(v, e) \/ n' = acd_host_ipv4_maxconflict(v)
      BY <1>2, <2>3 DEF HostDid
    <2> HIDE DEF r, h
    <2>5. Good(acd_host_ipv4_conflict(v, e)) /\ Steady(n, acd_host_ipv4_conflict(v, e))
      BY <1>1, <1>3, <2>2, ConflictGood
    <2>6. Good(acd_host_ipv4_maxconflict(v)) /\ Steady(n, acd_host_ipv4_maxconflict(v))
      BY <1>3, <2>2, MaxConflictGood
    <2> HIDE DEF v
    <2> QED
      BY <2>4, <2>5, <2>6
  <1> QED
    BY <1>3, <1>4, <1>5 DEF AcdStates

\* The timers of the link-local client, which is not a new one when one of them runs.
LEMMA LinkLocalTimeoutGood ==
    ASSUME Good(n), NEW e \in Environments, LinkLocalTimeout(e)
    PROVE  Good(n') /\ Steady(n, n')
  <1>1. n.ll \in Clients /\ e.opened \in BOOLEAN /\ e.random \in LinkLocal
        /\ (Calm => LinkLocalOK(n.ll))
    BY EnvironmentFacts, Zenon DEF Good, Base, Networks, Tidy
  <1>2. n.ll # NewLinkLocal
    BY DEF LinkLocalTimeout, NewLinkLocal, g_dhcp_client_new
  <1>3. Calm /\ n.ll.timeout # "ipv4ll_defend_timeout" =>
           n.ll.state \notin {"IPV4LL_MONITOR", "IPV4LL_DEFEND"}
    BY <1>1 DEF LinkLocalOK, LinkLocalTimeout
  <1>4. CASE n.ll.timeout = "send_probe_packet"
             /\ n' = [n EXCEPT !.ll = ipv4ll_send_probe(@, e.random, e.opened)]
    <2> DEFINE c == ipv4ll_send_probe(n.ll, e.random, e.opened)
    <2>1. c \in Clients /\ (Calm => LinkLocalOK(c))
      BY <1>1, <1>4, LinkLocalProbeTyped, LinkLocalTimersOK
    <2> HIDE DEF c
    <2>2. Good([n EXCEPT !.ll = c]) /\ Steady(n, [n EXCEPT !.ll = c])
      BY <1>2, <1>3, <1>4, <2>1, LinkLocalStep
    <2> QED
      BY <1>4, <2>2 DEF c
  <1>5. CASE n.ll.timeout = "ipv4ll_probe_timeout"
             /\ n' = [n EXCEPT !.ll = ipv4ll_probe_timeout(@, e.random, e.opened)]
    <2> DEFINE c == ipv4ll_probe_timeout(n.ll, e.random, e.opened)
    <2>1. c \in Clients /\ (Calm => LinkLocalOK(c))
      BY <1>1, <1>5, LinkLocalProbeTimeoutTyped, LinkLocalTimersOK
    <2> HIDE DEF c
    <2>2. Good([n EXCEPT !.ll = c]) /\ Steady(n, [n EXCEPT !.ll = c])
      BY <1>2, <1>3, <1>5, <2>1, LinkLocalStep
    <2> QED
      BY <1>5, <2>2 DEF c
  <1>6. CASE n.ll.timeout = "ipv4ll_announce_timeout"
             /\ n' = LinkLocalDid([n EXCEPT !.ll = ipv4ll_announce_timeout(n.ll).client],
                                  ipv4ll_announce_timeout(n.ll).event, e)
    <2> DEFINE r == ipv4ll_announce_timeout(n.ll)
               c == r.client
               v == [n EXCEPT !.ll = c]
    <2>1. c \in Clients /\ (Calm => LinkLocalOK(c)) /\ r.event \in {"none", "ipv4ll_available"}
      BY <1>1, <1>6, LinkLocalAnnounceTimeoutTyped, LinkLocalTimersOK
    <2>2. r.event = "ipv4ll_available" => c.state = "IPV4LL_MONITOR"
      BY <1>1 DEF ipv4ll_announce_timeout, Clients
    <2>3. /\ LinkLocalDid(v, "none", e) = v
          /\ LinkLocalDid(v, "ipv4ll_available", e) = ipv4ll_available_cb(v, e)
      BY DEF LinkLocalDid
    <2>4. n' = LinkLocalDid(v, r.event, e)
      BY <1>6
    <2> HIDE DEF r, c
    <2>5. Good(v) /\ Steady(n, v)
      BY <1>2, <1>3, <1>6, <2>1, LinkLocalStep
    <2>6. r.event = "ipv4ll_available" =>
             Good(ipv4ll_available_cb(v, e)) /\ Steady(n, ipv4ll_available_cb(v, e))
      BY <1>2, <1>3, <1>6, <2>1, <2>2, LinkLocalAvailableGood
    <2> HIDE DEF v
    <2> QED
      BY <2>1, <2>3, <2>4, <2>5, <2>6
  <1>7. CASE n' = [n EXCEPT !.ll = ipv4ll_defend_timeout(@)]
    <2> DEFINE c == ipv4ll_defend_timeout(n.ll)
    <2>1. c \in Clients /\ (Calm => LinkLocalOK(c))
      BY <1>1, LinkLocalDefendTyped, LinkLocalTimersOK
    <2>2. c.state = "IPV4LL_MONITOR"
      BY <1>1 DEF ipv4ll_defend_timeout, Clients
    <2> HIDE DEF c
    <2>3. Good([n EXCEPT !.ll = c]) /\ Steady(n, [n EXCEPT !.ll = c])
      BY <1>2, <2>1, <2>2, LinkLocalStep
    <2> QED
      BY <1>7, <2>3 DEF c
  <1> QED
    BY <1>4, <1>5, <1>6, <1>7 DEF LinkLocalTimeout

\* A packet of another host that uses or probes the link-local client's address.
LEMMA LinkLocalConflictGood ==
    ASSUME Good(n), NEW e \in Environments, NEW source \in BOOLEAN, LinkLocalConflict(source, e)
    PROVE  Good(n') /\ Steady(n, n')
  <1> DEFINE r == ipv4ll_recv_arp_packet(n.ll, source)
             c == r.client
             v == [n EXCEPT !.ll = c]
  <1>1. n.ll \in Clients /\ (Calm => LinkLocalOK(n.ll))
    BY DEF Good, Base, Networks, Tidy
  <1>2. n.ll # NewLinkLocal
    BY DEF LinkLocalConflict, ClientHears, NewLinkLocal, g_dhcp_client_new
  <1>3. c \in Clients /\ r.event \in {"none", "ipv4ll_lost"}
    BY <1>1, LinkLocalReceiveTyped
  <1>4. Calm => /\ LinkLocalOK(c)
                /\ r.event # "ipv4ll_lost" =>
                     \/ c.state \in {"IPV4LL_MONITOR", "IPV4LL_DEFEND"}
                     \/ n.ll.state \notin {"IPV4LL_MONITOR", "IPV4LL_DEFEND"}
    BY <1>1, LinkLocalReceiveOK
  <1>5. /\ LinkLocalDid(v, "none", e) = v
        /\ LinkLocalDid(v, "ipv4ll_lost", e) = ipv4ll_lost_cb(v)
    BY DEF LinkLocalDid
  <1>6. n' = LinkLocalDid(v, r.event, e)
    BY DEF LinkLocalConflict
  <1> HIDE DEF r, c
  <1>7. r.event # "ipv4ll_lost" => Good(v) /\ Steady(n, v)
    BY <1>2, <1>3, <1>4, LinkLocalStep
  <1>8. Good(ipv4ll_lost_cb(v)) /\ Steady(n, ipv4ll_lost_cb(v))
    BY <1>3, LinkLocalLostGood
  <1> HIDE DEF v
  <1> QED
    BY <1>3, <1>5, <1>6, <1>7, <1>8

\* An ACK: the address is configured, and start_bound() touches the client only.
LEMMA AckGood ==
    ASSUME NetworkOK(n), Good(n), NEW address \in Addresses, NEW router \in MaybeRouter,
           NEW resized, NEW named, NEW e \in Environments, Ack(address, router, resized, named, e)
    PROVE  Good(n') /\ Steady(n, n')
  <1> DEFINE a == ReceiveAck(n.client, address)
             v == [n EXCEPT !.client = a]
             l == lease_available_cb(v, address, router, resized, e)
             b == [l EXCEPT !.client = start_bound(@)]
  <1>1. n.dhcp /\ a \in Clients /\ a.retry_times = 0 /\ n \in Networks
    BY AckEffect, DhcpRuns DEF Ack, ClientHears, NetworkOK, ClientOK, Idle
  <1>2. /\ n' = v \/ n' = IF l.dhcp THEN b ELSE l
        /\ Calm /\ n.acd /\ n.local = address => router = n.router /\ ~resized
    <2>1. n' = v \/ n' = IF l.dhcp THEN b ELSE l
      BY DEF Ack, Bound
    <2>2. Calm /\ n.acd /\ n.local = address => router = n.router /\ ~resized
      BY DEF Ack, Renewed, Calm
    <2> QED
      BY <2>1, <2>2
  <1> HIDE DEF a
  <1>3. v \in Networks /\ v.client = a /\ v.dhcp
    BY <1>1 DEF Networks
  <1>r. Calm /\ v.acd /\ v.local = address => router = v.router /\ ~resized
    BY <1>1, <1>2 DEF Networks
  <1>4. Good(v) /\ Steady(n, v)
    BY <1>1, ClientOnlyGood
  <1> HIDE DEF v
  <1>5. Good(l) /\ Steady(v, l) /\ Kept(v, l)
    BY <1>3, <1>4, <1>r, LeaseAvailableGood, LeaseAvailableKept
  <1> HIDE DEF l
  <1>6. CASE n' = b /\ l.dhcp
    <2>1. l.client = a
      BY <1>3, <1>5, <1>6 DEF Kept
    <2>2. start_bound(l.client) \in Clients
      BY <1>1, <2>1, BoundOK DEF ClientOK
    <2>3. Good(b) /\ Steady(l, b)
      BY <1>5, <2>2, ClientOnlyGood
    <2> HIDE DEF b
    <2> QED
      BY <1>4, <1>5, <1>6, <2>3, SteadyTrans
  <1>7. CASE n' = l
    BY <1>4, <1>5, <1>7, SteadyTrans
  <1>8. CASE n' = v
    BY <1>4, <1>8
  <1> QED
    BY <1>2, <1>6, <1>7, <1>8

\* The invariant of the addresses.
AddressInv == Good(n)

\* A new network has no address.
LEMMA InitAddress == Init => AddressInv
  <1> SUFFICES ASSUME Init PROVE Good(n)
    BY DEF AddressInv
  <1>1. n \in Networks
    BY InitHolds DEF IInv, NetworkOK
  <1>2. /\ ~n.connected /\ n.method = "DHCP" /\ n.local = NoAddress /\ ~n.dhcp
        /\ n.ll = NewLinkLocal /\ ~n.ll_running /\ ~n.dhcp_timeout /\ ~n.ipv4ll_timeout
        /\ n.host = acd_host_new /\ n.kernel = {} /\ ~n.gateway
    BY ZenonT(30) DEF Init, NewLinkLocal
  <1>3. HostOK(n.host) /\ ~Probing(n.host) /\ ~n.host.listen_on
    BY <1>2 DEF HostOK, Probing, acd_host_new
  <1>4. Base(n) /\ Bonded(n) /\ Served(n)
    BY <1>1, <1>2, <1>3 DEF Base, Bonded, Served
  <1>5. Tidy(n)
    BY <1>2, <1>3, NewLinkLocalOK DEF Tidy
  <1> QED
    BY <1>4, <1>5 DEF Good

\* Every event keeps the invariant, and puts no address on the interface but one the
\* host has announced.
LEMMA StepAddress ==
    ASSUME IInv, AddressInv, [Next]_n
    PROVE  AddressInv' /\ (~LateAcd => Probed(n, n'))
<1> SUFFICES Good(n') /\ (~LateAcd => Probed(n, n'))
  BY DEF AddressInv
<1>0. /\ NetworkOK(n) /\ Good(n) /\ n \in Networks /\ ClientOK(n.client) /\ n.client \in Clients
      /\ n.last \in MaybeAddress /\ Base(n) /\ Bonded(n) /\ Served(n) /\ (Calm => Tidy(n))
  BY DEF IInv, AddressInv, NetworkOK, Networks, Good, ClientOK
<1>s. Good(n') /\ Steady(n, n') => Good(n') /\ (~LateAcd => Probed(n, n'))
  BY SteadyProbed
<1>1. CASE Connect
  <2>1. n' \in Networks
    BY <1>0, <1>1, Zenon DEF Connect, Networks
  <2>2. SameConfig(n, n')
    BY <1>0, <1>1, <2>1 DEF Connect, SameConfig, Networks
  <2> QED
    BY <1>0, <1>s, <2>2, SameConfigParts, Zenon
<1>2. CASE LinkLost
  <2>1. /\ Quieter(n, connman_network_set_error(n)) /\ ~connman_network_set_error(n).connected
        /\ Quieter(n, set_disconnected(n)) /\ ~set_disconnected(n).connected
    BY <1>0, SetErrorQuieter, SetDisconnectedQuieter
  <2>2. Quieter(n, n') /\ ~n'.connected
    BY <1>2, <2>1 DEF LinkLost
  <2> QED
    BY <1>0, <1>s, <2>2, QuieterGood
<1>3. CASE Disconnect
  <2>1. Quieter(n, n') /\ ~n'.connected
    BY <1>0, <1>3, DisconnectQuieter DEF Disconnect
  <2> QED
    BY <1>0, <1>s, <2>1, QuieterGood
<1>4. CASE Nak
  <2>1. ReceiveNak(n.client) \in Clients
    BY <1>0, NakOK DEF ClientOK
  <2> QED
    BY <1>0, <1>4, <1>s, <2>1, ClientOnlyGood DEF Nak
<1>5. ASSUME NEW e \in Environments, SetConnected(e)
      PROVE  Good(n') /\ (~LateAcd => Probed(n, n'))
  <2> DEFINE v == [n EXCEPT !.associating = FALSE, !.connected = TRUE]
  <2>1. v \in Networks
    BY <1>0, ZenonT(30) DEF Networks
  <2>2. /\ (v.acd <=> n.acd) /\ v.connected /\ (v.active <=> n.active)
        /\ v.method = n.method /\ (v.dhcp <=> n.dhcp) /\ v.client = n.client
        /\ v.ll = n.ll /\ (v.ll_running <=> n.ll_running)
        /\ (v.dhcp_timeout <=> n.dhcp_timeout) /\ (v.ipv4ll_timeout <=> n.ipv4ll_timeout)
        /\ v.host = n.host /\ v.kernel = n.kernel /\ v.local = n.local
    BY <1>0 DEF Networks
  <2>3. n' = __connman_network_enable_ipconfig(v, e) /\ ~n.connected
    BY <1>5 DEF SetConnected
  <2> HIDE DEF v
  <2>4. Base(v) /\ (v.method # "MANUAL" => Bonded(v)) /\ Steady(n, v)
    BY <1>0, <2>1, <2>2, Zenon DEF Base, Bonded, Steady
  <2>5. Leave(v) = Leave(n)
    BY <2>2 DEF Leave
  <2>6. Calm => Tidy(v) /\ v.kernel \subseteq Leave(v)
    BY <1>0, <2>2, <2>3, <2>5, ZenonT(30) DEF Tidy
  <2>7. Good(n') /\ Steady(v, n')
    BY <1>0, <2>2, <2>3, <2>4, <2>6, EnableGood, ZenonT(30)
  <2> QED
    BY <1>s, <2>4, <2>7, SteadyTrans
<1>6. ASSUME NEW e \in Environments, NEW method \in Methods, NEW address \in MaybeAddress,
             method # "MANUAL" => address = NoAddress, Reconfigure(method, address, e)
      PROVE  Good(n') /\ (~LateAcd => Probed(n, n'))
  BY <1>0, <1>6, <1>s, ReconfiguredGood, ZenonT(30) DEF Reconfigure
<1>7. ASSUME NEW e \in Environments, ClientTimeout(e)
      PROVE  Good(n') /\ (~LateAcd => Probed(n, n'))
  <2>1. n.dhcp /\ e.opened \in BOOLEAN
    BY <1>0, <1>7, DhcpRuns, EnvironmentFacts, ZenonT(30) DEF ClientTimeout
  <2>2. CASE n.client.timeout = "discover_timeout"
             /\ n' = ClientDid(n, discover_timeout(n.client, e.opened), e)
    BY <1>0, <1>s, <2>1, <2>2, DiscoverTimeoutOK, ClientDidGood, ZenonT(30) DEF Started, ClientOK
  <2>3. CASE n.client.timeout = "request_timeout"
             /\ n' = ClientDid(n, request_timeout(n.client, e.opened), e)
    BY <1>0, <1>s, <2>1, <2>3, RequestTimeoutOK, ClientDidGood, ZenonT(30) DEF Started, ClientOK
  <2>4. CASE n.client.timeout = "reboot_timeout"
             /\ n' = ClientDid(n, reboot_timeout(n.client, e.opened), e)
    BY <1>0, <1>s, <2>1, <2>4, RebootTimeoutOK, ClientDidGood, ZenonT(30) DEF Started, ClientOK
  <2>5. CASE n' = ClientDid(n, restart_dhcp_timeout(n.client, e.opened), e)
    BY <1>0, <1>s, <2>1, <2>5, RestartTimeoutOK, ClientDidGood, ZenonT(30) DEF Started, ClientOK
  <2> QED
    BY <1>7, <2>2, <2>3, <2>4, <2>5 DEF ClientTimeout
<1>8. ASSUME NEW c \in Clients, n' = [n EXCEPT !.client = c]
      PROVE  Good(n') /\ (~LateAcd => Probed(n, n'))
  BY <1>0, <1>8, <1>s, ClientOnlyGood
<1>9. ASSUME NEW e \in Environments, NEW again \in BOOLEAN, Renew(again, e) \/ Rebind(again, e)
      PROVE  Good(n') /\ (~LateAcd => Probed(n, n'))
  <2>1. e.opened \in BOOLEAN
    BY EnvironmentFacts
  <2>2. n.client.t1 # "none" \/ n.client.t2 # "none" => n.client.lease
    BY <1>0 DEF ClientOK, LeaseTimers
  <2>3. n.client.t1 = "start_renew" => start_renew(n.client, again, e.opened) \in Clients
    BY <1>0, <2>1, RenewOK DEF ClientOK
  <2>4. n.client.t1 = "continue_renew" => continue_renew(n.client, again, e.opened) \in Clients
    BY <1>0, <2>1, <2>2, ContinueOK DEF ClientOK
  <2>5. n.client.t2 = "start_rebound" => start_rebound(n.client, again, e.opened) \in Clients
    BY <1>0, <2>1, ReboundOK DEF ClientOK
  <2>6. n.client.t2 = "continue_rebound" => continue_rebound(n.client, again, e.opened) \in Clients
    BY <1>0, <2>1, <2>2, ContinueOK DEF ClientOK
  <2> QED
    BY <1>8, <1>9, <2>3, <2>4, <2>5, <2>6 DEF Renew, Rebind
<1>10. ASSUME NEW e \in Environments, Expire(e)
       PROVE  Good(n') /\ (~LateAcd => Probed(n, n'))
  <2> DEFINE d == ClientDid(n, start_expire(n.client, e.opened), e)
  <2>1. n.dhcp /\ e.opened \in BOOLEAN
    BY <1>0, <1>10, DhcpRuns, EnvironmentFacts DEF Expire
  <2>2. Good(d) /\ Steady(n, d)
    BY <1>0, <2>1, ExpireOK, ClientDidGood, ZenonT(30) DEF Started, ClientOK
  <2>3. n' = dhcp_invalidate(d, TRUE)
    BY <1>10 DEF Expire, lease_lost_cb
  <2> HIDE DEF d
  <2>4. Good(n') /\ Steady(d, n')
    BY <2>2, <2>3, InvalidateGood, ZenonT(30)
  <2> QED
    BY <1>s, <2>2, <2>4, SteadyTrans
<1>11. ASSUME NEW e \in Environments, NEW a \in Leasable, NEW named \in ServerIds,
              Offer(a, named, e)
       PROVE  Good(n') /\ (~LateAcd => Probed(n, n'))
  <2>0. named \in BOOLEAN
    BY Ipv4Assumption
  <2>1. /\ n.dhcp /\ e.opened \in BOOLEAN /\ a \in Addresses
        /\ n.client.state = "INIT_SELECTING"
    BY <1>0, <1>11, DhcpRuns, EnvironmentFacts, ZenonT(30) DEF Offer, ClientHears, Leasable
  <2>2. ReceiveOffer(n.client, a, named, e.opened).client \in Clients
    BY <1>0, <2>0, <2>1, OfferOK DEF Started, ClientOK
  <2> QED
    BY <1>0, <1>11, <1>s, <2>1, <2>2, ClientDidGood, Zenon DEF Offer
<1>12. ASSUME NEW e \in Environments, NEW a \in Leasable, NEW named \in ServerIds,
              NEW r \in MaybeRouter, NEW resized \in BOOLEAN, Ack(a, r, resized, named, e)
       PROVE  Good(n') /\ (~LateAcd => Probed(n, n'))
  BY <1>0, <1>12, <1>s, AckGood DEF Leasable
<1>13. ASSUME NEW e \in Environments, dhcp_retry_cb(e)
       PROVE  Good(n') /\ (~LateAcd => Probed(n, n'))
  <2> DEFINE v == [n EXCEPT !.retry = FALSE]
             r == g_dhcp_client_start(n.client, n.last, e.opened)
  <2>1. n.dhcp /\ e.opened \in BOOLEAN
    BY <1>0, <1>13, DhcpRuns, EnvironmentFacts DEF dhcp_retry_cb
  <2>2. v \in Networks
    BY <1>0, ZenonT(30) DEF Networks
  <2>3. SameConfig(n, v) /\ v.dhcp
    BY <1>0, <2>1, <2>2 DEF SameConfig, Networks
  <2>4. n' = ClientDid(v, r, e)
    BY <1>13 DEF dhcp_retry_cb
  <2> HIDE DEF v
  <2>5. Good(v) /\ Steady(n, v)
    BY <1>0, <2>3, SameConfigParts
  <2>6. r.client \in Clients
    BY <1>0, <2>1, StartOK DEF Started, ClientOK
  <2> HIDE DEF r
  <2>7. Good(n') /\ Steady(v, n')
    BY <2>3, <2>4, <2>5, <2>6, ClientDidGood
  <2> QED
    BY <1>s, <2>5, <2>7, SteadyTrans
<1>14. ASSUME NEW e \in Environments, set_connected_dhcp_timout(e)
       PROVE  Good(n') /\ (~LateAcd => Probed(n, n'))
  <2> DEFINE v == [n EXCEPT !.dhcp_timeout = FALSE]
  <2>1. v \in Networks
    BY <1>0, Zenon DEF Networks
  <2>2. Quieter(n, v) /\ (v.dhcp <=> n.dhcp)
    BY <1>0, <2>1 DEF Quieter, Networks
  <2> HIDE DEF v
  <2>3. Good(v) /\ Steady(n, v)
    BY <1>0, <2>2, QuieterGood
  <2>4. Calm => Tidy(n) /\ n.connected
    BY <1>0, <1>14 DEF Tidy, set_connected_dhcp_timout
  <2>5. n.active \/ ~n.connected
    BY <1>0 DEF Served
  <2>6. n.method = "DHCP" =>
           Good(set_connected_dhcp(n, e)) /\ Steady(n, set_connected_dhcp(n, e))
    BY <1>0, <2>4, <2>5, SetConnectedDhcpGood
  <2> QED
    BY <1>14, <1>s, <2>3, <2>6 DEF set_connected_dhcp_timout, v
<1>15. ASSUME NEW e \in Environments, start_ipv4ll_ontimeout(e)
       PROVE  Good(n') /\ (~LateAcd => Probed(n, n'))
  <2>1. Calm => Tidy(n) /\ n.acd /\ n.kernel \subseteq Leave(n)
    BY <1>0, <1>15, ZenonT(30) DEF Tidy, start_ipv4ll_ontimeout
  <2> QED
    BY <1>0, <1>15, <1>s, <2>1, StartLinkLocalGood DEF start_ipv4ll_ontimeout
<1>16. ASSUME NEW e \in Environments, LinkLocalTimeout(e)
       PROVE  Good(n') /\ (~LateAcd => Probed(n, n'))
  BY <1>0, <1>16, <1>s, LinkLocalTimeoutGood
<1>17. ASSUME NEW e \in Environments, NEW source \in BOOLEAN,
              LinkLocalConflict(source, e) \/ Conflict(source, e)
       PROVE  Good(n') /\ (~LateAcd => Probed(n, n'))
  BY <1>0, <1>17, <1>s, LinkLocalConflictGood, HostConflictGood
<1>18. ASSUME NEW e \in Environments, HostTimeout(e)
       PROVE  Good(n') /\ (~LateAcd => Probed(n, n'))
  BY <1>0, <1>18, HostTimeoutGood
<1>19. CASE UNCHANGED n
  <2>1. Steady(n, n') /\ Good(n')
    BY <1>0, <1>19 DEF Steady
  <2> QED
    BY <1>s, <2>1
<1>20. /\ "DHCP" \in Methods /\ "OFF" \in Methods /\ "MANUAL" \in Methods
       /\ NoAddress \in MaybeAddress /\ \A a \in Addresses : a \in MaybeAddress
       /\ \A a \in UserAddresses : a \in MaybeAddress
       /\ \A e \in Unpicked : e \in Environments
  BY MaybeFacts, Ipv4Assumption DEF Methods, Unpicked
<1>21. ASSUME NEW e \in Unpicked, UserOrServer(e)
       PROVE  Good(n') /\ (~LateAcd => Probed(n, n'))
  BY <1>6, <1>9, <1>11, <1>12, <1>20, <1>21 DEF UserOrServer
<1> QED
  BY <1>1, <1>2, <1>3, <1>4, <1>5, <1>7, <1>10, <1>13, <1>14, <1>15, <1>16, <1>17,
     <1>18, <1>19, <1>21 DEF Next

(***************************************************************************)
(* With conflict detection an address is used only after it was probed and *)
(* announced, for every set of addresses and routers and every number of   *)
(* retries, also with sockets that cannot be opened and with changes of    *)
(* the configuration before the link is up.  The ACD host must not act     *)
(* after the link is lost: LateAcd, which the code allows, is excluded.    *)
(***************************************************************************)
THEOREM ProbedSafety ==
    ASSUME ~LateAcd
    PROVE  Spec => ProbedBeforeUse
<1>1. IInv /\ AddressInv /\ [Next]_n => AddressInv'
  BY StepAddress
<1>2. IInv /\ AddressInv /\ [Next]_n =>
         [n.acd => \A a \in n'.kernel \ n.kernel :
                      n.host.state = "ANNOUNCE" /\ n.host.requested_ip = a]_n
  BY StepAddress DEF Probed
<1> QED
  BY <1>1, <1>2, InitAddress, NetworkInvariant, PTL DEF Spec, ProbedBeforeUse

(***************************************************************************)
(* No address, gateway, client or timer is left behind, for every set of   *)
(* addresses and routers and every number of retries, also when sockets    *)
(* cannot be opened and servers do not name themselves.  Calm excludes the *)
(* three places where the code does leave something: an ACD host that acts *)
(* after the link is lost, a change of the configuration before the link   *)
(* is up, and, with conflict detection, a renewal with another router or   *)
(* another mask.                                                           *)
(***************************************************************************)
THEOREM AddressSafety ==
    ASSUME Calm
    PROVE  Spec => []NoStaleAddress
<1>1. IInv /\ AddressInv /\ [Next]_n => AddressInv'
  BY StepAddress
<1>2. ASSUME IInv, AddressInv PROVE NoStaleAddress
  <2>1. Tidy(n) /\ Base(n) /\ (~n.dhcp => ~n.retry)
    BY <1>2, Zenon DEF IInv, AddressInv, Good, NetworkOK
  <2>2. Leave(n) = Leftovers
    BY DEF Leave, Leftovers
  <2> QED
    BY <2>1, <2>2 DEF Tidy, Base, NoStaleAddress
<1> QED
  BY <1>1, <1>2, InitAddress, NetworkInvariant, PTL DEF Spec

-----------------------------------------------------------------------------
(***************************************************************************)
(* A connected network never waits for nothing (module Ipv4Config).  When  *)
(* sockets can be opened, a DHCP client that runs has a timeout, a lease   *)
(* or the rate limit timer; and an address the user sets is used or being  *)
(* probed.  NeverStuck is not inductive: the client must be known to be    *)
(* alive also while the network is not connected yet (Alive), and an       *)
(* address must be known to be settled by its own method (Settled).        *)
(***************************************************************************)
\* A function of the DHCP client ends with a timeout, or by giving up.
Waits(r) == r.event = "no_lease" \/ r.client.timeout # "none"

Alive(w) == w.dhcp => w.client.timeout # "none" \/ w.client.lease \/ w.retry

Settled(w) ==
    w.connected /\ w.method = "MANUAL" =>
        /\ w.local # NoAddress
        /\ w.kernel # {} \/ w.ipv4ll_timeout \/ Probing(w.host)

Live(w) == Alive(w) /\ Settled(w)

\* g_dhcp_client_start() with a socket.
LEMMA StartWaits ==
    ASSUME NEW c \in Clients, NEW last \in MaybeAddress
    PROVE  Waits(g_dhcp_client_start(c, last, TRUE))
  <1> DEFINE t == remove_timeouts(c)
             w == switch_listening_mode(t, "L2", TRUE)
             fresh == [w EXCEPT !.assigned_ip = NoAddress, !.state = "INIT_SELECTING"]
             f == [fresh EXCEPT !.asked = {}]
             s == IF c.retry_times = 0 THEN f ELSE t
             d == [s EXCEPT !.timeout = "discover_timeout"]
             q == [s EXCEPT !.last_address = last, !.requested_ip = last,
                            !.state = "REBOOTING", !.timeout = "reboot_timeout"]
             x == IF last = NoAddress \/ c.state = "DECLINED" \/ is_link_local(last)
                  THEN send_discover(d) ELSE send_request(q)
  <1>1. t \in Clients
    BY RemoveEffect DEF Idle
  <1>2. c.retry_times = DISCOVER_RETRIES => g_dhcp_client_start(c, last, TRUE).event = "no_lease"
    BY DEF g_dhcp_client_start
  <1>3. c.retry_times # DISCOVER_RETRIES =>
          g_dhcp_client_start(c, last, TRUE) =
            IF c.retry_times = 0 /\ fresh.listen_mode = "L_NONE"
            THEN [client |-> fresh, event |-> "none", err |-> "EIO"]
            ELSE [client |-> x, event |-> "none", err |-> "OK"]
    BY DEF g_dhcp_client_start, StartClient
  <1>x. x \in {send_discover(d), send_request(q)}
    OBVIOUS
  <1> HIDE DEF x, t
  <1>4. w \in Clients
    BY <1>1, SwitchEffect, Zenon DEF SameLease
  <1>5. w.listen_mode = "L2"
    BY <1>1 DEF switch_listening_mode, Clients
  <1> HIDE DEF w
  <1>6. fresh \in Clients
    BY <1>4, MaybeFacts, Zenon DEF Clients, ClientStates
  <1>7. fresh.listen_mode = "L2"
    BY <1>4, <1>5 DEF Clients
  <1> HIDE DEF fresh
  <1>8. f \in Clients
    BY <1>6 DEF Clients
  <1> HIDE DEF f
  <1>9. s \in Clients
    BY <1>1, <1>8
  <1> HIDE DEF s
  <1>10. d \in Clients /\ d.timeout = "discover_timeout"
    BY <1>9 DEF Clients, ClientTimers
  <1>11. q \in Clients
    BY <1>9, ZenonT(40) DEF Clients, ClientStates, ClientTimers
  <1>12. q.timeout = "reboot_timeout"
    BY <1>9 DEF Clients
  <1> HIDE DEF d, q
  <1>13. send_discover(d).timeout = "discover_timeout" /\ send_request(q).timeout = "reboot_timeout"
    BY <1>10, <1>11, <1>12, SendEffect DEF SameLease
  <1>14. c.retry_times # DISCOVER_RETRIES => g_dhcp_client_start(c, last, TRUE).client = x
    <2>1. "L2" # "L_NONE"
      OBVIOUS
    <2>2. c.retry_times # DISCOVER_RETRIES =>
            g_dhcp_client_start(c, last, TRUE) = [client |-> x, event |-> "none", err |-> "OK"]
      BY <1>3, <1>7, <2>1, Zenon
    <2>3. [client |-> x, event |-> "none", err |-> "OK"].client = x
      OBVIOUS
    <2> QED
      BY <2>2, <2>3, Zenon
  <1>15. x.timeout # "none"
    BY <1>13, <1>x
  <1> QED
    BY <1>2, <1>14, <1>15, Zenon DEF Waits

\* start_request() sends a request or gives up.
LEMMA RequestWaits ==
    ASSUME NEW c \in Clients, NEW opened \in BOOLEAN
    PROVE  Waits(start_request(c, opened))
  <1> DEFINE q == [c EXCEPT !.state = "REQUESTING"]
             l == switch_listening_mode(q, "L2", opened)
             i == IF c.retry_times = 0 THEN l ELSE c
             r == send_request(i)
             t == [r EXCEPT !.timeout = "request_timeout"]
  <1>1. q \in Clients
    BY DEF Clients, ClientStates
  <1>2. /\ c.retry_times = REQUEST_RETRIES => start_request(c, opened).event = "no_lease"
        /\ c.retry_times # REQUEST_RETRIES => start_request(c, opened).client = t
    BY DEF start_request
  <1> HIDE DEF q
  <1>3. l \in Clients
    BY <1>1, SwitchEffect DEF SameLease
  <1> HIDE DEF l
  <1>4. r \in Clients
    BY <1>3, SendEffect DEF SameLease
  <1> HIDE DEF r
  <1>5. t.timeout = "request_timeout"
    BY <1>4 DEF Clients
  <1> QED
    BY <1>2, <1>5, Zenon DEF Waits

\* restart_dhcp() with a socket.
LEMMA RestartWaits ==
    ASSUME NEW c \in Clients, NEW retries \in Nat
    PROVE  Waits(restart_dhcp(c, retries, TRUE))
  <1> DEFINE t == remove_timeouts(c)
             q == [t EXCEPT !.retry_times = retries, !.requested_ip = NoAddress,
                            !.state = "INIT_SELECTING"]
             l == switch_listening_mode(q, "L2", TRUE)
  <1>1. t \in Clients
    BY RemoveEffect DEF Idle
  <1>2. restart_dhcp(c, retries, TRUE) = g_dhcp_client_start(l, c.last_address, TRUE)
    BY DEF restart_dhcp
  <1> HIDE DEF t
  <1>3. q \in Clients
    BY <1>1, MaybeFacts, Zenon DEF Clients, ClientStates
  <1> HIDE DEF q
  <1>4. l \in Clients /\ c.last_address \in MaybeAddress
    BY <1>3, SwitchEffect, ZenonT(30) DEF SameLease, Clients
  <1> QED
    BY <1>2, <1>4, StartWaits, Zenon

\* Every function of the client that (re)starts it.
LEMMA ClientWaits ==
    ASSUME NEW c \in Clients, NEW ip \in Addresses
    PROVE  /\ Waits(discover_timeout(c, TRUE))
           /\ Waits(request_timeout(c, TRUE))
           /\ Waits(reboot_timeout(c, TRUE))
           /\ Waits(restart_dhcp_timeout(c, TRUE))
           /\ Waits(start_expire(c, TRUE))
           /\ Waits(ReceiveOffer(c, ip, TRUE, TRUE))
  <1> DEFINE d == [c EXCEPT !.retry_times = @ + 1]
             b == [c EXCEPT !.retry_times = 0, !.requested_ip = NoAddress,
                            !.state = "INIT_SELECTING"]
             z == [c EXCEPT !.last_address = NoAddress]
             k == [c EXCEPT !.ack_retry_times = @ + 1]
             t == remove_timeouts(c)
             i == [t EXCEPT !.retry_times = 0]
             o == [i EXCEPT !.requested_ip = ip, !.state = "REQUESTING"]
  <1>1. d \in Clients
    BY DEF Clients
  <1>2. b \in Clients
    BY MaybeFacts, Zenon DEF Clients, ClientStates
  <1>3. z \in Clients
    BY MaybeFacts DEF Clients
  <1>4. k \in Clients /\ c.ack_retry_times + 1 \in Nat
    BY DEF Clients
  <1>5. t \in Clients
    BY RemoveEffect DEF Idle
  <1>6. /\ discover_timeout(c, TRUE) = g_dhcp_client_start(d, NoAddress, TRUE)
        /\ request_timeout(c, TRUE) = start_request(d, TRUE)
        /\ reboot_timeout(c, TRUE) = g_dhcp_client_start(b, NoAddress, TRUE)
        /\ restart_dhcp_timeout(c, TRUE) = IF c.state = "REBOOTING"
                                           THEN restart_dhcp(z, 0, TRUE)
                                           ELSE restart_dhcp(k, c.ack_retry_times + 1, TRUE)
        /\ start_expire(c, TRUE) = restart_dhcp(t, 0, TRUE)
        /\ ReceiveOffer(c, ip, TRUE, TRUE) = start_request(o, TRUE)
    BY DEF discover_timeout, request_timeout, reboot_timeout, restart_dhcp_timeout,
           start_expire, ReceiveOffer
  <1> HIDE DEF d, b, z, k, t
  <1>i. i \in Clients
    BY <1>5, Zenon DEF Clients
  <1> HIDE DEF i
  <1>7. o \in Clients
    BY <1>i, MaybeFacts, Zenon DEF Clients, ClientStates
  <1> HIDE DEF o
  <1> QED
    BY <1>1, <1>2, <1>3, <1>4, <1>5, <1>6, <1>7, StartWaits, RequestWaits, RestartWaits, MaybeFacts, Zenon

-----------------------------------------------------------------------------
\* What leaves the DHCP client alone or ends it leaves no client without a timer.
LEMMA KeptAlive ==
    ASSUME NEW w, NEW r, Alive(w), Kept(w, r) \/ Quieter(w, r)
    PROVE  Alive(r)
  BY DEF Alive, Kept, Quieter

\* no_lease_cb() starts the rate limit timer, and never sets the method to MANUAL.
LEMMA NoLeaseAlive ==
    ASSUME NEW w \in Networks, NEW e \in Environments
    PROVE  LET r == no_lease_cb(w, e)
           IN  Alive(r) /\ (r.method = "MANUAL" => w.method = "MANUAL")
  <1> DEFINE v == [w EXCEPT !.retry = TRUE]
             c == ipv4ll_start(NewLinkLocal, e.random)
             l == [v EXCEPT !.ll = c, !.ll_running = TRUE]
             r == dhcp_invalidate(l, FALSE)
  <1>1. v \in Networks
    BY Zenon DEF Networks
  <1>2. v.retry /\ v.method = w.method
    BY DEF Networks
  <1>3. no_lease_cb(w, e) = IF w.ll_running THEN v ELSE r
    BY DEF no_lease_cb, ipv4ll_start_client, NewLinkLocal
  <1> HIDE DEF v
  <1>4. c \in Clients
    BY NewLinkLocalOK, EnvironmentFacts, LinkLocalStarted
  <1> HIDE DEF c
  <1>5. l \in Networks
    BY <1>1, <1>4, Zenon DEF Networks
  <1>6. l.retry /\ l.method = v.method
    BY <1>1, <1>2 DEF Networks
  <1> HIDE DEF l
  <1>7. r.retry /\ r.method = l.method
    BY <1>5, <1>6, InvalidateEffect, Zenon DEF AddressOnly
  <1> HIDE DEF r
  <1> QED
    BY <1>2, <1>3, <1>6, <1>7 DEF Alive

\* A function of the DHCP client that ends with a timeout or gives up.
LEMMA ClientDidAlive ==
    ASSUME NEW w \in Networks, NEW r, r.client \in Clients, Waits(r), NEW e \in Environments
    PROVE  LET d == ClientDid(w, r, e)
           IN  Alive(d) /\ (d.method = "MANUAL" => w.method = "MANUAL")
  <1> DEFINE v == [w EXCEPT !.client = r.client]
  <1>1. v \in Networks
    BY DEF Networks
  <1>2. v.client = r.client /\ v.method = w.method
    BY DEF Networks
  <1>3. ClientDid(w, r, e) = IF r.event = "no_lease" THEN no_lease_cb(v, e) ELSE v
    BY DEF ClientDid
  <1> HIDE DEF v
  <1>4. Alive(no_lease_cb(v, e)) /\ (no_lease_cb(v, e).method = "MANUAL" => v.method = "MANUAL")
    BY <1>1, NoLeaseAlive
  <1>5. r.event # "no_lease" => Alive(v)
    BY <1>2 DEF Waits, Alive
  <1> QED
    BY <1>2, <1>3, <1>4, <1>5

\* With sockets, a host that is started probes.
LEMMA StartAcdSettled ==
    ASSUME NEW w \in Networks, HostOK(w.host), w.local # NoAddress,
           NEW e \in Environments, e.opened
    PROVE  Settled(start_acd(w, e))
  <1> DEFINE h == acd_host_start(w.host, w.local, e.opened)
             r == [w EXCEPT !.ipv4ll_timeout = FALSE, !.host = h]
  <1>1. w.host \in Hosts /\ w.local \in MaybeAddress
    BY DEF Networks
  <1>2. h \in Hosts /\ Probing(h)
    BY <1>1, EnvironmentFacts, StartedHost, Zenon
  <1>3. start_acd(w, e) = r
    BY DEF start_acd
  <1> HIDE DEF h
  <1>4. r.host = h /\ r.local = w.local
    BY <1>2 DEF Networks
  <1> HIDE DEF r
  <1> QED
    BY <1>2, <1>3, <1>4 DEF Settled

\* An address is put on the interface, or the network fails.
LEMMA InstallSettled ==
    ASSUME NEW w \in Networks
    PROVE  Settled(Install(w))
  <1> DEFINE a == AddAddress(w)
             f == connman_network_set_error(w)
  <1>1. Install(w) = IF CanAdd(w) THEN a ELSE f
    BY DEF Install
  <1>2. ~f.connected
    BY SetErrorQuieter
  <1>3. a.method = w.method /\ a.local = w.local
        /\ (w.method # "OFF" => a.kernel = w.kernel \union {w.local})
    BY DEF AddAddress, Networks
  <1> HIDE DEF a, f
  <1>4. CanAdd(w) => Settled(a)
    BY <1>3 DEF CanAdd, Settled
  <1>5. Settled(f)
    BY <1>2 DEF Settled
  <1> QED
    BY <1>1, <1>4, <1>5

\* dhcp_success() and set_connected_manual().
LEMMA ConfigureSettled ==
    ASSUME NEW w \in Networks, HostOK(w.host), NEW e \in Environments, e.opened
    PROVE  Settled(dhcp_valid(w, e)) /\ Settled(set_connected_manual(w, e))
  <1> DEFINE v == [w EXCEPT !.connecting = FALSE]
             u == [v EXCEPT !.ipv4ll_timeout = @ /\ ~v.acd]
  <1>1. v \in Networks /\ v.host = w.host
    BY Zenon DEF Networks
  <1>2. dhcp_valid(w, e) = Configure(v, e) /\ set_connected_manual(w, e) = Configure(v, e)
    BY DEF dhcp_valid, set_connected_manual
  <1> HIDE DEF v
  <1>3. (v.ipv4ll_timeout /\ ~v.acd) \in BOOLEAN
    OBVIOUS
  <1>4. u \in Networks
    BY <1>1, <1>3, ZenonT(30) DEF Networks
  <1>5. Configure(v, e) = IF v.acd /\ v.local # NoAddress THEN start_acd(v, e) ELSE Install(u)
    BY DEF Configure
  <1> HIDE DEF u
  <1>6. v.local # NoAddress => Settled(start_acd(v, e))
    BY <1>1, StartAcdSettled
  <1>7. Settled(Install(u))
    BY <1>4, InstallSettled
  <1> QED
    BY <1>2, <1>5, <1>6, <1>7

\* start_ipv4ll() probes for a link-local address.
LEMMA StartLinkLocalSettled ==
    ASSUME NEW w \in Networks, HostOK(w.host), NEW e \in Environments, e.opened
    PROVE  Settled(start_ipv4ll(w, e))
  <1> DEFINE v == [w EXCEPT !.local = e.random]
  <1>1. v \in Networks
    BY EnvironmentFacts, MaybeFacts DEF Networks
  <1>2. v.host = w.host /\ v.local = e.random /\ e.random # NoAddress
    BY EnvironmentFacts, AcdAssumption DEF Networks
  <1>3. start_ipv4ll(w, e) = start_acd(v, e)
    BY DEF start_ipv4ll
  <1> HIDE DEF v
  <1> QED
    BY <1>1, <1>2, <1>3, StartAcdSettled

\* set_connected_dhcp() leaves a client with a timer.
LEMMA SetConnectedDhcpLive ==
    ASSUME NEW w \in Networks, ClientOK(w.client), w.method = "DHCP",
           NEW e \in Environments, e.opened
    PROVE  Live(set_connected_dhcp(w, e)) /\ set_connected_dhcp(w, e) \in Networks
  <1> DEFINE t == [w EXCEPT !.dhcp_timeout = FALSE]
             v == [t EXCEPT !.dhcp = TRUE]
             g == g_dhcp_client_start(t.client, t.last, e.opened)
             r == ClientDid(v, g, e)
  <1>1. t \in Networks
    BY Zenon DEF Networks
  <1>2. t.client = w.client /\ t.method = w.method /\ t.last \in MaybeAddress
    BY DEF Networks
  <1>3. set_connected_dhcp(w, e) = r
    BY DEF set_connected_dhcp, dhcp_start
  <1> HIDE DEF t
  <1>4. v \in Networks /\ v.dhcp
    BY <1>1, Zenon DEF Networks
  <1>5. v.method = t.method
    BY <1>1 DEF Networks
  <1> HIDE DEF v
  <1>6. e.opened = TRUE
    BY EnvironmentFacts
  <1>7. Started(g) /\ g.client \in Clients /\ Waits(g)
    BY <1>2, <1>6, StartOK, StartWaits, ZenonT(30) DEF Started, ClientOK
  <1> HIDE DEF g
  <1>8. Alive(r) /\ r.method # "MANUAL"
    BY <1>2, <1>4, <1>5, <1>7, ClientDidAlive
  <1>9. r \in Networks
    BY <1>4, <1>7, ClientDidOK DEF NetworkOK
  <1> QED
    BY <1>3, <1>8, <1>9 DEF Live, Settled

\* __connman_network_enable_ipconfig(), for every method.
LEMMA EnableLive ==
    ASSUME NEW w \in Networks, ClientOK(w.client), HostOK(w.host), Alive(w),
           NEW e \in Environments, e.opened
    PROVE  Live(__connman_network_enable_ipconfig(w, e))
  <1> DEFINE v == [w EXCEPT !.active = TRUE]
             d == set_connected_dhcp(v, e)
             f == connman_network_set_error(v)
             x == connman_network_set_error(d)
             m == set_connected_manual(v, e)
  <1>1. v \in Networks
    BY Zenon DEF Networks
  <1>2. v.client = w.client /\ v.host = w.host /\ (v.dhcp <=> w.dhcp) /\ (v.retry <=> w.retry)
        /\ v.method \in Methods
    BY DEF Networks
  <1>3. __connman_network_enable_ipconfig(w, e) = EnableMethod(v, e)
    BY DEF __connman_network_enable_ipconfig
  <1> HIDE DEF v
  <1>4. Alive(v)
    BY <1>2 DEF Alive
  <1>5. Live(f)
    BY <1>1, <1>4, SetErrorQuieter, KeptAlive DEF Live, Settled
  <1>6. Live(m)
    BY <1>1, <1>2, <1>4, ConfigureSettled, ValidKept, KeptAlive DEF Live
  <1>7. v.method = "DHCP" => Live(d) /\ Live(x)
    <2> SUFFICES ASSUME v.method = "DHCP" PROVE Live(d) /\ Live(x)
      OBVIOUS
    <2>1. Live(d) /\ d \in Networks
      BY <1>1, <1>2, SetConnectedDhcpLive
    <2> HIDE DEF d
    <2>2. Live(x)
      BY <2>1, SetErrorQuieter, KeptAlive DEF Live, Settled
    <2> QED
      BY <2>1, <2>2
  <1>8. v.method = "DHCP" => EnableMethod(v, e) \in {d, x}
    BY DEF EnableMethod, EnableDhcp
  <1>9. /\ v.method = "OFF" => EnableMethod(v, e) = v
        /\ v.method = "AUTO" => EnableMethod(v, e) = f
        /\ v.method = "MANUAL" => EnableMethod(v, e) = m
    BY DEF EnableMethod
  <1> HIDE DEF d, f, x, m
  <1>10. v.method = "OFF" => Live(v)
    BY <1>4 DEF Live, Settled
  <1> QED
    BY <1>2, <1>3, <1>5, <1>6, <1>7, <1>8, <1>9, <1>10 DEF Methods

\* A network with another method, or not connected, is settled.
LEMMA OtherSettled ==
    ASSUME NEW w, w.method # "MANUAL" \/ ~w.connected
    PROVE  Settled(w)
  BY DEF Settled

\* What a network loses leaves the ACD host in order.
LEMMA QuieterHost ==
    ASSUME NEW w, NEW r, Quieter(w, r), HostOK(w.host)
    PROVE  r \in Networks /\ HostOK(r.host)
  BY DEF Quieter, HostOK, Stopped, Probing

\* lease_available_cb() sets the method to DHCP, or configures the address.
LEMMA LeaseAvailableSettled ==
    ASSUME NEW w \in Networks, HostOK(w.host), NEW address \in Addresses,
           NEW router \in MaybeRouter, NEW resized, NEW e \in Environments, e.opened
    PROVE  Settled(lease_available_cb(w, address, router, resized, e))
  <1> DEFINE s == ipv4ll_stop_client(w)
             i == dhcp_invalidate(s, FALSE)
             u == IF w.ll_running THEN i ELSE w
             g == IF u.local \notin {address, NoAddress} /\ u.method \in {"AUTO", "DHCP"}
                  THEN NoAddress ELSE u.router
             o == IF u.local \notin {address, NoAddress} THEN address_remove(u) ELSE u
             b == o.gateway /\ (router = g \/ g = NoAddress)
             v == [o EXCEPT !.last = address, !.method = "DHCP", !.gateway = b]
             y == [v EXCEPT !.local = address, !.router = router]
             changed == u.local # address \/ router # g \/ resized
  <1>1. lease_available_cb(w, address, router, resized, e) = IF changed THEN dhcp_valid(y, e) ELSE v
    BY DEF lease_available_cb, LeaseAddress, LeaseRouter, Leased
  <1>2. Quieter(w, s) /\ s \in Networks
    BY StopClientEffect DEF Quieter
  <1> HIDE DEF s
  <1>3. Quieter(s, i)
    BY <1>2, InvalidateEffect, AddressOnlyQuieter, Zenon
  <1> HIDE DEF i
  <1>4. u \in Networks /\ HostOK(u.host)
    BY <1>2, <1>3, QuieterTrans, QuieterHost
  <1> HIDE DEF u
  <1>5. Quieter(u, o)
    BY <1>4, RemoveAddressEffect, AddressOnlyQuieter, QuietRefl
  <1>6. o \in Networks /\ HostOK(o.host)
    BY <1>4, <1>5, QuieterHost
  <1>7. b \in BOOLEAN
    OBVIOUS
  <1> HIDE DEF o, b, changed
  <1>8. v \in Networks
    BY <1>6, <1>7, MaybeFacts, Zenon DEF Networks, Methods
  <1>9. v.host = o.host /\ v.method = "DHCP"
    BY <1>6 DEF Networks
  <1> HIDE DEF v
  <1>10. y \in Networks
    BY <1>8, MaybeFacts, ZenonT(30) DEF Networks
  <1>11. y.host = v.host
    BY <1>8 DEF Networks
  <1> HIDE DEF y
  <1>12. Settled(dhcp_valid(y, e)) /\ Settled(v)
    BY <1>6, <1>9, <1>10, <1>11, ConfigureSettled, OtherSettled
  <1> QED
    BY <1>1, <1>12

\* A change of the DHCP client alone.
LEMMA ClientOnlyLive ==
    ASSUME NEW w \in Networks, Settled(w), NEW c \in Clients, c.timeout # "none" \/ c.lease
    PROVE  Live([w EXCEPT !.client = c])
  <1> DEFINE r == [w EXCEPT !.client = c]
  <1>1. r.client = c /\ (r.connected <=> w.connected) /\ r.method = w.method
        /\ r.local = w.local /\ r.kernel = w.kernel /\ r.host = w.host
        /\ (r.ipv4ll_timeout <=> w.ipv4ll_timeout)
    BY DEF Networks
  <1> HIDE DEF r
  <1>2. Alive(r) /\ Settled(r)
    BY <1>1 DEF Alive, Settled
  <1> QED
    BY <1>2 DEF Live, r

\* An ACK ends with the timers of the lease.
LEMMA AckLive ==
    ASSUME NetworkOK(n), HostOK(n.host), NEW address \in Addresses, NEW router \in MaybeRouter,
           NEW resized, NEW e \in Environments, e.opened, Ack(address, router, resized, TRUE, e)
    PROVE  Live(n')
  <1> DEFINE a == ReceiveAck(n.client, address)
             v == [n EXCEPT !.client = a]
             l == lease_available_cb(v, address, router, resized, e)
             b == [l EXCEPT !.client = start_bound(@)]
  <1>1. a \in Clients /\ a.retry_times = 0 /\ n \in Networks
    BY AckEffect DEF NetworkOK, ClientOK, Idle
  <1>2. n' = IF l.dhcp THEN b ELSE l
    BY DEF Ack, Bound, Ignores
  <1> HIDE DEF a
  <1>3. v \in Networks
    BY <1>1 DEF Networks
  <1>4. v.host = n.host /\ v.client = a
    BY <1>1 DEF Networks
  <1> HIDE DEF v
  <1>5. Settled(l) /\ Kept(v, l) /\ l \in Networks
    BY <1>3, <1>4, LeaseAvailableSettled, LeaseAvailableKept DEF Kept
  <1> HIDE DEF l
  <1>6. CASE l.dhcp
    <2>1. l.client = a
      BY <1>4, <1>5, <1>6 DEF Kept
    <2>2. start_bound(a) \in Clients /\ start_bound(a).state = "BOUND"
          /\ (start_bound(a).lease \/ start_bound(a).timeout # "none")
      <3>1. ClientOK(start_bound(a))
        BY <1>1, BoundOK
      <3>2. remove_timeouts(a) \in Clients
        BY <1>1, RemoveEffect DEF Idle
      <3>3. start_bound(a).lease
        BY <3>2 DEF start_bound, Clients
      <3>4. start_bound(a).state = "BOUND"
        BY <3>2 DEF start_bound, Clients
      <3> QED
        BY <3>1, <3>3, <3>4 DEF ClientOK
    <2>3. Live(b)
      BY <1>5, <2>1, <2>2, ClientOnlyLive
    <2> QED
      BY <1>2, <1>6, <2>3
  <1>7. CASE ~l.dhcp
    BY <1>2, <1>5, <1>7 DEF Live, Alive
  <1> QED
    BY <1>6, <1>7

\* The callbacks of the link-local client, which runs under DHCP only.
LEMMA LinkLocalLive ==
    ASSUME NEW w \in Networks, HostOK(w.host), Alive(w), w.method # "MANUAL", NEW c \in Clients,
           NEW e \in Environments, e.opened
    PROVE  LET v == [w EXCEPT !.ll = c]
           IN  Live(v) /\ Live(ipv4ll_available_cb(v, e)) /\ Live(ipv4ll_lost_cb(v))
  <1> DEFINE v == [w EXCEPT !.ll = c]
             y == [v EXCEPT !.method = "AUTO", !.local = v.ll.assigned_ip, !.router = NoAddress]
             s == ipv4ll_stop_client(v)
             r == dhcp_invalidate(s, TRUE)
  <1>1. v \in Networks
    BY DEF Networks
  <1>2. v.host = w.host /\ v.client = w.client /\ (v.dhcp <=> w.dhcp) /\ (v.retry <=> w.retry)
        /\ v.method = w.method /\ v.ll \in Clients
    BY DEF Networks
  <1>3. ipv4ll_available_cb(v, e) = dhcp_valid(y, e) /\ ipv4ll_lost_cb(v) = r
    BY DEF ipv4ll_available_cb, ipv4ll_lost_cb
  <1> HIDE DEF v
  <1>4. Alive(v)
    BY <1>2 DEF Alive
  <1>5. v.ll.assigned_ip \in MaybeAddress
    BY <1>2 DEF Clients
  <1>6. y \in Networks
    BY <1>1, <1>5, MaybeFacts, ZenonT(30) DEF Networks, Methods, MaybeRouter
  <1>7. y.host = v.host /\ y.client = v.client /\ (y.dhcp <=> v.dhcp) /\ (y.retry <=> v.retry)
    BY <1>1 DEF Networks
  <1> HIDE DEF y
  <1>8. Alive(y)
    BY <1>4, <1>7 DEF Alive
  <1>9. Live(dhcp_valid(y, e))
    BY <1>2, <1>6, <1>7, <1>8, ConfigureSettled, ValidKept, KeptAlive DEF Live
  <1>10. Quieter(v, s) /\ s.method = v.method /\ s \in Networks
    BY <1>1, StopClientEffect DEF Quieter
  <1> HIDE DEF s
  <1>11. Quieter(s, r) /\ r.method = s.method
    BY <1>10, InvalidateEffect, AddressOnlyQuieter, Zenon DEF AddressOnly
  <1> HIDE DEF r
  <1>12. Alive(r) /\ Settled(r)
    BY <1>2, <1>4, <1>10, <1>11, KeptAlive, OtherSettled
  <1> QED
    BY <1>2, <1>3, <1>4, <1>9, <1>12, OtherSettled, Zenon DEF Live, v

\* The ACD host and its callbacks.
LEMMA HostLive ==
    ASSUME NEW w, NetworkOK(w), Live(w), NEW h \in Hosts, HostOK(h), NEW e \in Environments, e.opened
    PROVE  LET v == [w EXCEPT !.host = h]
           IN  /\ (Probing(w.host) => Probing(h)) => Live(v)
               /\ Live(acd_host_ipv4_available(v)) /\ Live(acd_host_ipv4_lost(v, e))
               /\ Live(acd_host_ipv4_conflict(v, e)) /\ Live(acd_host_ipv4_maxconflict(v))
  <1> DEFINE v == [w EXCEPT !.host = h]
             u == address_remove(v)
             d == dhcp_decline(v)
             p == [d EXCEPT !.dhcp_timeout = TRUE, !.local = NoAddress]
             m == [v EXCEPT !.method = "AUTO"]
             a == dhcp_decline(m)
             x == [v EXCEPT !.ipv4ll_timeout = TRUE]
  <1>0. w \in Networks /\ ClientOK(w.client)
    BY DEF NetworkOK
  <1>1. v \in Networks
    BY <1>0 DEF Networks
  <1>2. /\ v.host = h /\ v.client = w.client /\ (v.dhcp <=> w.dhcp) /\ (v.retry <=> w.retry)
        /\ v.method = w.method /\ (v.connected <=> w.connected) /\ v.local = w.local
        /\ v.kernel = w.kernel /\ (v.ipv4ll_timeout <=> w.ipv4ll_timeout)
    BY <1>0 DEF Networks
  <1> HIDE DEF v
  <1>3. Alive(v) /\ ClientOK(v.client) /\ HostOK(v.host)
    BY <1>0, <1>2 DEF Alive, Live
  <1>4. (Probing(w.host) => Probing(h)) => Live(v)
    BY <1>2, <1>3 DEF Live, Settled
  <1>5. Live(acd_host_ipv4_available(v))
    BY <1>1, <1>3, InstallSettled, InstallKept, KeptAlive DEF Live, acd_host_ipv4_available
  <1>6. AddressOnly(v, u) /\ u \in Networks
    BY <1>1, RemoveAddressEffect DEF AddressOnly
  <1> HIDE DEF u
  <1>7. Alive(u) /\ ClientOK(u.client) /\ HostOK(u.host)
    BY <1>3, <1>6, AddressOnlyQuieter, KeptAlive DEF AddressOnly
  <1>8. Live(__connman_network_enable_ipconfig(u, e)) /\ Live(start_ipv4ll(u, e))
    BY <1>6, <1>7, EnableLive, StartLinkLocalSettled, StartLinkLocalKept, KeptAlive DEF Live
  <1>9. Live(acd_host_ipv4_lost(v, e))
    BY <1>8 DEF acd_host_ipv4_lost, u
  <1>10. ASSUME NEW y \in Networks, ClientOK(y.client), Alive(y), HostOK(y.host)
         PROVE  /\ dhcp_decline(y) \in Networks /\ Alive(dhcp_decline(y))
                /\ HostOK(dhcp_decline(y).host) /\ dhcp_decline(y).method = y.method
    <2> DEFINE z == [y EXCEPT !.client = g_dhcp_client_decline(y.client)]
    <2>1. SameConfig(y, dhcp_decline(y))
      BY <1>10, DeclineSame
    <2>2. dhcp_decline(y) = IF y.dhcp /\ y.local # NoAddress THEN z ELSE y
      BY DEF dhcp_decline
    <2>3. /\ g_dhcp_client_decline(y.client).timeout = y.client.timeout
          /\ g_dhcp_client_decline(y.client).lease = y.client.lease
      BY <1>10 DEF g_dhcp_client_decline, ClientOK, Clients
    <2>4. z.client = g_dhcp_client_decline(y.client) /\ (z.dhcp <=> y.dhcp) /\ (z.retry <=> y.retry)
      BY <1>10 DEF Networks
    <2> HIDE DEF z
    <2>5. Alive(z)
      BY <1>10, <2>3, <2>4 DEF Alive
    <2> QED
      BY <1>10, <2>1, <2>2, <2>5 DEF SameConfig
  <1>11. d \in Networks /\ Alive(d) /\ d.method = v.method
    BY <1>1, <1>3, <1>10
  <1> HIDE DEF d
  <1>12. p.client = d.client /\ (p.dhcp <=> d.dhcp) /\ (p.retry <=> d.retry) /\ p.method = d.method
    BY <1>11 DEF Networks
  <1> HIDE DEF p
  <1>13. v.method = "DHCP" => Live(p)
    BY <1>11, <1>12, OtherSettled DEF Live, Alive
  <1>14. m \in Networks
    BY <1>1 DEF Networks, Methods
  <1>15. m.client = v.client /\ (m.dhcp <=> v.dhcp) /\ (m.retry <=> v.retry) /\ m.host = v.host
    BY <1>1 DEF Networks
  <1> HIDE DEF m
  <1>16. Alive(m) /\ ClientOK(m.client) /\ HostOK(m.host)
    BY <1>3, <1>15 DEF Alive
  <1>17. a \in Networks /\ Alive(a) /\ HostOK(a.host)
    BY <1>10, <1>14, <1>16
  <1> HIDE DEF a
  <1>18. Live(start_ipv4ll(a, e)) /\ Live(start_ipv4ll(v, e))
    BY <1>1, <1>3, <1>17, StartLinkLocalSettled, StartLinkLocalKept, KeptAlive DEF Live
  <1>19. Live(acd_host_ipv4_conflict(v, e))
    BY <1>13, <1>18 DEF acd_host_ipv4_conflict, p, d, a, m
  <1>20. x.client = v.client /\ (x.dhcp <=> v.dhcp) /\ (x.retry <=> v.retry) /\ x.local = v.local
         /\ x.method = v.method /\ (x.connected <=> v.connected) /\ x.ipv4ll_timeout
    BY <1>1 DEF Networks
  <1> HIDE DEF x
  <1>21. Live(x)
    BY <1>2, <1>3, <1>20 DEF Live, Alive, Settled
  <1>22. Live(acd_host_ipv4_maxconflict(v))
    BY <1>21 DEF acd_host_ipv4_maxconflict, x
  <1> QED
    BY <1>4, <1>5, <1>9, <1>19, <1>22 DEF v

-----------------------------------------------------------------------------
\* Property IPv4.Configuration is set.
LEMMA ReconfiguredLive ==
    ASSUME NetworkOK(n), Good(n), Live(n), NEW method \in Methods, NEW address \in MaybeAddress,
           NEW e \in Environments, e.opened, Reconfigure(method, address, e)
    PROVE  Live(n')
  <1> DEFINE c == clear_ipconfig(n)
             v == NewIpconfig(c, method, address)
             u == NewIpconfig(n, method, address)
  <1>0. n \in Networks /\ ClientOK(n.client) /\ Alive(n)
    BY DEF NetworkOK, Live
  <1>1. n' = IF n.active THEN __connman_network_enable_ipconfig(v, e) ELSE u
    BY DEF Reconfigure, Reconfigured
  <1>2. Quieter(n, c) /\ Base(c) /\ ClientOK(c.client)
    BY <1>0, ClearGood
  <1> HIDE DEF c
  <1>3. Alive(c) /\ c \in Networks /\ HostOK(c.host)
    BY <1>0, <1>2, KeptAlive DEF Base
  <1>4. /\ v \in Networks /\ v.client = c.client /\ v.host = c.host
        /\ (v.dhcp <=> c.dhcp) /\ (v.retry <=> c.retry)
    BY <1>3, NewIpconfigEffect
  <1>5. /\ u.client = n.client /\ (u.connected <=> n.connected)
        /\ (u.dhcp <=> n.dhcp) /\ (u.retry <=> n.retry)
    BY <1>0, NewIpconfigEffect
  <1> HIDE DEF v, u
  <1>6. Alive(v) /\ Alive(u)
    BY <1>0, <1>3, <1>4, <1>5 DEF Alive
  <1>7. Live(__connman_network_enable_ipconfig(v, e))
    BY <1>2, <1>3, <1>4, <1>6, EnableLive
  <1>8. ~n.active => Live(u)
    BY <1>5, <1>6, OtherSettled DEF Good, Served, Live
  <1> QED
    BY <1>1, <1>7, <1>8

\* A timer of the ACD host.
LEMMA HostTimeoutLive ==
    ASSUME NetworkOK(n), Good(n), Live(n), NEW e \in Environments, e.opened = TRUE, HostTimeout(e)
    PROVE  Live(n')
  <1>1. n.host \in Hosts /\ HostOK(n.host)
    BY DEF Good, Base, Networks
  <1>2. CASE n.host.timeout = "probe" /\ n' = [n EXCEPT !.host = acd_probe_timeout(@, e.opened)]
    <2> DEFINE h == acd_probe_timeout(n.host, e.opened)
    <2>1. n.host.state = "PROBE" /\ n.host.listen_on
      BY <1>1, <1>2 DEF HostOK
    <2>2. h \in Hosts /\ HostOK(h) /\ Probing(h)
      BY <1>1, <2>1, ProbeTimeoutEffect, Zenon DEF HostOK, Probing
    <2> HIDE DEF h
    <2>3. Live([n EXCEPT !.host = h])
      BY <2>2, HostLive
    <2> QED
      BY <1>2, <2>3 DEF h
  <1>3. CASE /\ n.host.timeout = "announce"
             /\ n' = HostDid([n EXCEPT !.host = acd_announce_timeout(n.host).host],
                             acd_announce_timeout(n.host).callback, e)
    <2> DEFINE r == acd_announce_timeout(n.host)
               h == r.host
               v == [n EXCEPT !.host = h]
    <2>1. n.host.state = "ANNOUNCE" /\ n.host.listen_on
      BY <1>1, <1>3 DEF HostOK
    <2>2. /\ h \in Hosts /\ HostOK(h)
          /\ (r.callback = "none" /\ Probing(h)) \/ r.callback = "available"
      BY <1>1, <2>1, AnnounceTimeoutEffect DEF HostOK, Probing
    <2>3. HostDid(v, "none", e) = v /\ HostDid(v, "available", e) = acd_host_ipv4_available(v)
      BY DEF HostDid
    <2>4. n' = HostDid(v, r.callback, e)
      BY <1>3
    <2> HIDE DEF r, h
    <2>5. (Probing(h) => Live(v)) /\ Live(acd_host_ipv4_available(v))
      BY <2>2, HostLive
    <2> HIDE DEF v
    <2> QED
      BY <2>2, <2>3, <2>4, <2>5
  <1>4. CASE n.host.timeout = "defend" /\ n' = [n EXCEPT !.host = acd_defend_timeout(@)]
    <2> DEFINE h == acd_defend_timeout(n.host)
    <2>1. h \in Hosts
      BY <1>1, DefendTimeoutTyped
    <2>2. h.timeout = "none" /\ h.state = "MONITOR"
      BY <1>1 DEF acd_defend_timeout, Hosts
    <2> HIDE DEF h
    <2>3. HostOK(h) /\ ~Probing(n.host)
      BY <1>4, <2>2 DEF HostOK, Probing
    <2>4. Live([n EXCEPT !.host = h])
      BY <2>1, <2>3, HostLive
    <2> QED
      BY <1>4, <2>4 DEF h
  <1> QED
    BY <1>2, <1>3, <1>4 DEF HostTimeout

\* A host that uses its address keeps listening when another's packet arrives.
LEMMA ReceiveHolds ==
    ASSUME NEW h \in Hosts, NEW source \in BOOLEAN, h.state \in {"MONITOR", "DEFEND"},
           h.listen_on
    PROVE  LET g == acd_recv_arp_packet(h, source).host
           IN  /\ g.state \in {h.state, "DEFEND"} /\ g.listen_on
               /\ g.timeout \in {h.timeout, "defend"}
  BY ReceiveEffect

\* A packet of another host that uses or probes the address.
LEMMA HostConflictLive ==
    ASSUME NetworkOK(n), Good(n), Live(n), NEW e \in Environments, e.opened,
           NEW source \in BOOLEAN, Conflict(source, e)
    PROVE  Live(n')
  <1> DEFINE r == acd_recv_arp_packet(n.host, source)
             h == r.host
             v == [n EXCEPT !.host = h]
  <1>1. n.host \in Hosts /\ HostOK(n.host) /\ n.host.listen_on
    BY DEF Good, Base, Networks, Conflict, Hears
  <1>2. n' = HostDid(v, r.callback, e)
    BY DEF Conflict
  <1>3. h \in Hosts /\ n.host.state \in AcdStates
    BY <1>1, ReceiveEffect DEF Hosts
  <1>4. CASE n.host.state \in {"MONITOR", "DEFEND"}
    <2>1. h.state \in {"MONITOR", "DEFEND"} /\ h.timeout \in {n.host.timeout, "defend"}
          /\ h.listen_on
      <3>1. h.state \in {n.host.state, "DEFEND"}
        BY <1>1, <1>4, ReceiveHolds
      <3>2. h.listen_on
        BY <1>1, <1>4, ReceiveHolds
      <3>3. h.timeout \in {n.host.timeout, "defend"}
        BY <1>1, <1>4, ReceiveHolds
      <3> HIDE DEF h
      <3> QED
        BY <1>1, <1>4, <3>1, <3>2, <3>3
    <2>2. HostOK(h) /\ ~Probing(n.host)
      BY <1>1, <1>4, <2>1 DEF HostOK, Probing
    <2>3. r.callback \in {"none", "lost"}
      BY <1>1, <1>4, ReceiveCallback
    <2>4. n' = v \/ n' = acd_host_ipv4_lost(v, e)
      BY <1>2, <2>3 DEF HostDid
    <2> HIDE DEF r, h
    <2>5. Live(v) /\ Live(acd_host_ipv4_lost(v, e))
      BY <1>3, <2>2, HostLive
    <2> HIDE DEF v
    <2> QED
      BY <2>4, <2>5
  <1>5. CASE n.host.state \in {"PROBE", "ANNOUNCE"}
    <2>1. h.timeout = "none" /\ ~h.listen_on
      BY <1>1, <1>5, ReceiveEffect
    <2>2. HostOK(h)
      BY <2>1 DEF HostOK, Probing
    <2>3. r.callback \in {"conflict", "maxconflict"}
      BY <1>1, <1>5, ReceiveCallback
    <2>4. n' = acd_host_ipv4_conflict(v, e) \/ n' = acd_host_ipv4_maxconflict(v)
      BY <1>2, <2>3 DEF HostDid
    <2> HIDE DEF r, h
    <2>5. Live(acd_host_ipv4_conflict(v, e)) /\ Live(acd_host_ipv4_maxconflict(v))
      BY <1>3, <2>2, HostLive
    <2> HIDE DEF v
    <2> QED
      BY <2>4, <2>5
  <1> QED
    BY <1>3, <1>4, <1>5 DEF AcdStates

\* A link-local client with a timer or a listener is not a new one.
LEMMA LinkLocalTimed ==
    ASSUME NEW e, LinkLocalTimeout(e)
    PROVE  n.ll # NewLinkLocal
  BY DEF LinkLocalTimeout, NewLinkLocal, g_dhcp_client_new

\* Neither is one that hears a packet.
LEMMA LinkLocalHeard ==
    ASSUME NEW e, NEW source, LinkLocalConflict(source, e)
    PROVE  n.ll # NewLinkLocal
  BY DEF LinkLocalConflict, ClientHears, NewLinkLocal, g_dhcp_client_new

\* The timers of the link-local client, and the packets it hears.
LEMMA LinkLocalStepLive ==
    ASSUME Good(n), Live(n), NEW e \in Environments, e.opened, NEW source \in BOOLEAN,
           LinkLocalTimeout(e) \/ LinkLocalConflict(source, e)
    PROVE  Live(n')
  <1> DEFINE a == ipv4ll_announce_timeout(n.ll)
             r == ipv4ll_recv_arp_packet(n.ll, source)
             p == ipv4ll_send_probe(n.ll, e.random, e.opened)
             q == ipv4ll_probe_timeout(n.ll, e.random, e.opened)
             d == ipv4ll_defend_timeout(n.ll)
             V(c) == [n EXCEPT !.ll = c]
  <1>1. n.ll \in Clients /\ n \in Networks /\ HostOK(n.host) /\ Alive(n)
        /\ e.opened \in BOOLEAN /\ e.random \in LinkLocal
    BY EnvironmentFacts DEF Good, Base, Networks, Live
  <1>2. n.ll # NewLinkLocal
    BY LinkLocalTimed, LinkLocalHeard
  <1>3. n.method # "MANUAL"
    BY <1>2, LinkLocalRuns DEF Good, Base
  <1>4. p \in Clients /\ q \in Clients /\ d \in Clients
    BY <1>1, LinkLocalProbeTyped, LinkLocalProbeTimeoutTyped, LinkLocalDefendTyped, Zenon
  <1>5. a.client \in Clients /\ a.event \in {"none", "ipv4ll_available"}
    BY <1>1, LinkLocalAnnounceTimeoutTyped
  <1>6. r.client \in Clients /\ r.event \in {"none", "ipv4ll_lost"}
    BY <1>1, LinkLocalReceiveTyped
  <1>7. \/ n' = V(p) \/ n' = V(q) \/ n' = V(d)
        \/ n' = LinkLocalDid(V(a.client), a.event, e)
        \/ n' = LinkLocalDid(V(r.client), r.event, e)
    BY Zenon DEF LinkLocalTimeout, LinkLocalConflict
  <1> HIDE DEF a, r, p, q, d
  <1>8. ASSUME NEW c \in Clients
        PROVE  Live(V(c)) /\ Live(ipv4ll_available_cb(V(c), e)) /\ Live(ipv4ll_lost_cb(V(c)))
    BY <1>1, <1>3, LinkLocalLive
  <1> HIDE DEF V
  <1>9. ASSUME NEW c PROVE /\ LinkLocalDid(V(c), "none", e) = V(c)
                           /\ LinkLocalDid(V(c), "ipv4ll_available", e) = ipv4ll_available_cb(V(c), e)
                           /\ LinkLocalDid(V(c), "ipv4ll_lost", e) = ipv4ll_lost_cb(V(c))
    BY DEF LinkLocalDid
  <1>10. Live(LinkLocalDid(V(a.client), a.event, e))
    BY <1>5, <1>8, <1>9
  <1>11. Live(LinkLocalDid(V(r.client), r.event, e))
    BY <1>6, <1>8, <1>9
  <1> QED
    BY <1>4, <1>7, <1>8, <1>10, <1>11

LiveInv == Live(n)

\* At the start the network is neither connected nor a client runs.
LEMMA InitLive == Init => LiveInv
  BY Zenon DEF Init, LiveInv, Live, Alive, Settled

\* Every step leaves a timer running, or an address that is used or probed.
LEMMA StepLive ==
    ASSUME SocketOutcomes = {TRUE}, ServerIds = {TRUE}, IInv, AddressInv, LiveInv, [Next]_n
    PROVE  LiveInv'
<1> SUFFICES Live(n')
  BY DEF LiveInv
<1>0. /\ NetworkOK(n) /\ Good(n) /\ Live(n) /\ Alive(n) /\ Settled(n) /\ n \in Networks
      /\ ClientOK(n.client) /\ n.client \in Clients /\ n.last \in MaybeAddress
      /\ HostOK(n.host) /\ (n.dhcp => n.method # "MANUAL")
  BY DEF IInv, AddressInv, LiveInv, Live, NetworkOK, Networks, Good, Base, ClientOK
<1>e. \A e \in Environments : e.opened = TRUE
  BY Zenon DEF Environments
<1>1. CASE Connect
  <2>1. /\ n'.client = n.client /\ (n'.dhcp <=> n.dhcp) /\ (n'.retry <=> n.retry)
        /\ (n'.connected <=> n.connected) /\ n'.method = n.method /\ n'.local = n.local
        /\ n'.kernel = n.kernel /\ n'.host = n.host /\ (n'.ipv4ll_timeout <=> n.ipv4ll_timeout)
    BY <1>0, <1>1 DEF Connect, Networks
  <2> QED
    BY <1>0, <2>1 DEF Live, Alive, Settled
<1>2. CASE LinkLost
  <2>1. /\ Quieter(n, connman_network_set_error(n)) /\ ~connman_network_set_error(n).connected
        /\ Quieter(n, set_disconnected(n)) /\ ~set_disconnected(n).connected
    BY <1>0, SetErrorQuieter, SetDisconnectedQuieter
  <2>2. Quieter(n, n') /\ ~n'.connected
    BY <1>2, <2>1 DEF LinkLost
  <2> QED
    BY <1>0, <2>2, KeptAlive, OtherSettled DEF Live
<1>3. CASE Disconnect
  <2>1. Quieter(n, n') /\ ~n'.connected
    BY <1>0, <1>3, DisconnectQuieter DEF Disconnect
  <2> QED
    BY <1>0, <2>1, KeptAlive, OtherSettled DEF Live
<1>4. CASE Nak
  <2> DEFINE t == remove_timeouts(n.client)
  <2>1. ReceiveNak(n.client) \in Clients /\ t \in Clients
    BY <1>0, NakOK, RemoveEffect DEF ClientOK, Idle
  <2>2. ReceiveNak(n.client) = [t EXCEPT !.retry_times = 0, !.timeout = "restart_dhcp_timeout"]
    BY DEF ReceiveNak
  <2> HIDE DEF t
  <2>3. ReceiveNak(n.client).timeout = "restart_dhcp_timeout"
    BY <2>1, <2>2 DEF Clients
  <2> QED
    BY <1>0, <1>4, <2>1, <2>3, ClientOnlyLive DEF Nak
<1>5. ASSUME NEW e \in Environments, SetConnected(e)
      PROVE  Live(n')
  <2> DEFINE v == [n EXCEPT !.associating = FALSE, !.connected = TRUE]
  <2>1. v \in Networks
    BY <1>0, ZenonT(30) DEF Networks
  <2>2. v.client = n.client /\ v.host = n.host /\ (v.dhcp <=> n.dhcp) /\ (v.retry <=> n.retry)
    BY <1>0 DEF Networks
  <2>3. n' = __connman_network_enable_ipconfig(v, e)
    BY <1>5 DEF SetConnected
  <2> HIDE DEF v
  <2>4. Alive(v)
    BY <1>0, <2>2 DEF Alive
  <2> QED
    BY <1>0, <1>e, <2>1, <2>2, <2>3, <2>4, EnableLive
<1>6. ASSUME NEW e \in Environments, NEW method \in Methods, NEW address \in MaybeAddress,
             Reconfigure(method, address, e)
      PROVE  Live(n')
  BY <1>0, <1>6, <1>e, ReconfiguredLive
<1>7. ASSUME NEW r, r.client \in Clients, Waits(r), n.dhcp, NEW e \in Environments
      PROVE  Live(ClientDid(n, r, e))
  BY <1>0, <1>7, ClientDidAlive, OtherSettled DEF Live
<1>8. ASSUME NEW e \in Environments, ClientTimeout(e)
      PROVE  Live(n')
  <2>1. n.dhcp /\ e.random \in Addresses
    BY <1>0, <1>8, DhcpRuns, EnvironmentFacts DEF ClientTimeout
  <2>2. /\ Waits(discover_timeout(n.client, TRUE)) /\ Waits(request_timeout(n.client, TRUE))
        /\ Waits(reboot_timeout(n.client, TRUE)) /\ Waits(restart_dhcp_timeout(n.client, TRUE))
    BY <1>0, <2>1, ClientWaits, Zenon
  <2>3. CASE n.client.timeout = "discover_timeout"
             /\ n' = ClientDid(n, discover_timeout(n.client, TRUE), e)
    BY <1>0, <1>7, <2>1, <2>2, <2>3, DiscoverTimeoutOK, Zenon DEF Started, ClientOK
  <2>4. CASE n.client.timeout = "request_timeout"
             /\ n' = ClientDid(n, request_timeout(n.client, TRUE), e)
    BY <1>0, <1>7, <2>1, <2>2, <2>4, RequestTimeoutOK, Zenon DEF Started, ClientOK
  <2>5. CASE n.client.timeout = "reboot_timeout"
             /\ n' = ClientDid(n, reboot_timeout(n.client, TRUE), e)
    BY <1>0, <1>7, <2>1, <2>2, <2>5, RebootTimeoutOK, Zenon DEF Started, ClientOK
  <2>6. CASE n' = ClientDid(n, restart_dhcp_timeout(n.client, TRUE), e)
    BY <1>0, <1>7, <2>1, <2>2, <2>6, RestartTimeoutOK, Zenon DEF Started, ClientOK
  <2> QED
    BY <1>8, <1>e, <2>3, <2>4, <2>5, <2>6, ZenonT(30) DEF ClientTimeout
<1>9. ASSUME NEW e \in Environments, NEW again \in BOOLEAN, Renew(again, e) \/ Rebind(again, e)
      PROVE  Live(n')
  <2>1. n.client.t1 # "none" \/ n.client.t2 # "none" => n.client.lease
    BY <1>0 DEF ClientOK, LeaseTimers
  <2>2. ASSUME NEW c, ClientOK(c), c.lease \/ c.state \in LeaseStates, n' = [n EXCEPT !.client = c]
        PROVE  Live(n')
    <3>1. c \in Clients /\ (c.timeout # "none" \/ c.lease)
      BY <2>2 DEF ClientOK, LeaseTimers
    <3> QED
      BY <1>0, <2>2, <3>1, ClientOnlyLive
  <2>3. n.client.t1 = "start_renew" =>
          /\ ClientOK(start_renew(n.client, again, TRUE))
          /\ start_renew(n.client, again, TRUE).state \in LeaseStates
    BY <1>0, RenewOK, Zenon DEF LeaseStates
  <2>4. n.client.t1 = "continue_renew" =>
          /\ ClientOK(continue_renew(n.client, again, TRUE))
          /\ continue_renew(n.client, again, TRUE).lease
    BY <1>0, <2>1, ContinueOK, Zenon
  <2>5. n.client.t2 = "start_rebound" =>
          /\ ClientOK(start_rebound(n.client, again, TRUE))
          /\ start_rebound(n.client, again, TRUE).state \in LeaseStates
    BY <1>0, ReboundOK, Zenon DEF LeaseStates
  <2>6. n.client.t2 = "continue_rebound" =>
          /\ ClientOK(continue_rebound(n.client, again, TRUE))
          /\ continue_rebound(n.client, again, TRUE).lease
    BY <1>0, <2>1, ContinueOK, Zenon
  <2> QED
    BY <1>9, <1>e, <2>2, <2>3, <2>4, <2>5, <2>6, Zenon DEF Renew, Rebind
<1>10. ASSUME NEW e \in Environments, Expire(e)
       PROVE  Live(n')
  <2> DEFINE x == start_expire(n.client, TRUE)
             d == ClientDid(n, x, e)
  <2>1. n.dhcp /\ e.random \in Addresses
    BY <1>0, <1>10, DhcpRuns, EnvironmentFacts DEF Expire
  <2>2. x.client \in Clients /\ Waits(x) /\ Started(x)
    BY <1>0, <2>1, ExpireOK, ClientWaits, Zenon DEF Started, ClientOK
  <2>3. n' = dhcp_invalidate(d, TRUE)
    BY <1>10, <1>e, ZenonT(30) DEF Expire, lease_lost_cb
  <2> HIDE DEF x
  <2>4. Alive(d) /\ d.method # "MANUAL" /\ d \in Networks
    BY <1>0, <2>1, <2>2, ClientDidAlive, ClientDidGood DEF Good, Base
  <2> HIDE DEF d
  <2>5. AddressOnly(d, n') /\ Quieter(d, n')
    BY <2>3, <2>4, InvalidateEffect, AddressOnlyQuieter, Zenon
  <2>6. n'.method = d.method
    BY <2>5 DEF AddressOnly
  <2> QED
    BY <2>4, <2>5, <2>6, KeptAlive, OtherSettled DEF Live
<1>11. ASSUME NEW e \in Environments, NEW a \in Leasable, Offer(a, TRUE, e)
       PROVE  Live(n')
  <2>1. n.dhcp /\ a \in Addresses /\ n.client.state = "INIT_SELECTING"
    BY <1>0, <1>11, DhcpRuns DEF Offer, ClientHears, Leasable
  <2>2. /\ ReceiveOffer(n.client, a, TRUE, TRUE).client \in Clients
        /\ Waits(ReceiveOffer(n.client, a, TRUE, TRUE))
    BY <1>0, <2>1, OfferOK, ClientWaits, ZenonT(30) DEF Started, ClientOK
  <2> QED
    BY <1>7, <1>11, <1>e, <2>1, <2>2, ZenonT(30) DEF Offer
<1>12. ASSUME NEW e \in Environments, NEW a \in Leasable, NEW r \in MaybeRouter,
              NEW resized \in BOOLEAN, Ack(a, r, resized, TRUE, e)
       PROVE  Live(n')
  BY <1>0, <1>12, <1>e, AckLive DEF Leasable
<1>13. ASSUME NEW e \in Environments, dhcp_retry_cb(e)
       PROVE  Live(n')
  <2> DEFINE v == [n EXCEPT !.retry = FALSE]
             r == g_dhcp_client_start(n.client, n.last, TRUE)
  <2>1. n.dhcp
    BY <1>0, <1>13, DhcpRuns DEF dhcp_retry_cb
  <2>2. v \in Networks
    BY <1>0, Zenon DEF Networks
  <2>3. v.method = n.method
    BY <1>0 DEF Networks
  <2>4. n' = ClientDid(v, r, e)
    BY <1>13, <1>e, Zenon DEF dhcp_retry_cb
  <2>5. r.client \in Clients /\ Waits(r)
    BY <1>0, StartOK, StartWaits, Zenon DEF Started, ClientOK
  <2> HIDE DEF v, r
  <2> QED
    BY <1>0, <2>1, <2>2, <2>3, <2>4, <2>5, ClientDidAlive, OtherSettled DEF Live
<1>14. ASSUME NEW e \in Environments, set_connected_dhcp_timout(e)
       PROVE  Live(n')
  <2> DEFINE v == [n EXCEPT !.dhcp_timeout = FALSE]
  <2>1. /\ v.client = n.client /\ (v.dhcp <=> n.dhcp) /\ (v.retry <=> n.retry)
        /\ (v.connected <=> n.connected) /\ v.method = n.method /\ v.local = n.local
        /\ v.kernel = n.kernel /\ v.host = n.host /\ (v.ipv4ll_timeout <=> n.ipv4ll_timeout)
    BY <1>0 DEF Networks
  <2>2. n' = IF n.method = "DHCP" THEN set_connected_dhcp(n, e) ELSE v
    BY <1>14 DEF set_connected_dhcp_timout
  <2> HIDE DEF v
  <2>3. Live(v)
    BY <1>0, <2>1 DEF Live, Alive, Settled
  <2>4. n.method = "DHCP" => Live(set_connected_dhcp(n, e))
    BY <1>0, <1>e, SetConnectedDhcpLive
  <2> QED
    BY <2>2, <2>3, <2>4
<1>15. ASSUME NEW e \in Environments, start_ipv4ll_ontimeout(e)
       PROVE  Live(n')
  BY <1>0, <1>15, <1>e, StartLinkLocalSettled, StartLinkLocalKept, KeptAlive
     DEF Live, start_ipv4ll_ontimeout
<1>16. ASSUME NEW e \in Environments, NEW source \in BOOLEAN,
              LinkLocalTimeout(e) \/ LinkLocalConflict(source, e)
       PROVE  Live(n')
  BY <1>0, <1>16, <1>e, LinkLocalStepLive
<1>17. ASSUME NEW e \in Environments, NEW source \in BOOLEAN, Conflict(source, e)
       PROVE  Live(n')
  BY <1>0, <1>17, <1>e, HostConflictLive
<1>18. ASSUME NEW e \in Environments, HostTimeout(e)
       PROVE  Live(n')
  BY <1>0, <1>18, <1>e, HostTimeoutLive, ZenonT(30)
<1>19. CASE UNCHANGED n
  BY <1>0, <1>19
<1>20. /\ "DHCP" \in Methods /\ "OFF" \in Methods /\ "MANUAL" \in Methods
       /\ NoAddress \in MaybeAddress /\ \A a \in Addresses : a \in MaybeAddress
       /\ \A a \in UserAddresses : a \in MaybeAddress
       /\ \A e \in Unpicked : e \in Environments
  BY MaybeFacts, Ipv4Assumption DEF Methods, Unpicked
<1>21. ASSUME NEW e \in Unpicked, UserOrServer(e) PROVE Live(n')
  BY <1>6, <1>9, <1>11, <1>12, <1>20, <1>21 DEF UserOrServer
<1>22. TRUE \in BOOLEAN
  OBVIOUS
<1> QED
  BY <1>1, <1>2, <1>3, <1>4, <1>5, <1>8, <1>10, <1>13, <1>14, <1>15, <1>16, <1>17,
     <1>18, <1>19, <1>21, <1>22, ZenonT(30) DEF Next

(***************************************************************************)
(* When its sockets can be opened and servers name themselves in OFFER and *)
(* ACK, a connected network always has an IPv4 address or a timer that     *)
(* goes on looking for one: for every set of addresses and routers and     *)
(* every number of retries, also when the ACD host acts after the link is  *)
(* lost and when the configuration changes before the link is up.          *)
(* listener_event() makes the assumption on servers necessary: it removes  *)
(* the timers before it looks for the server identifier, and returns       *)
(* without one.                                                            *)
(***************************************************************************)
THEOREM NeverStuckSafety ==
    ASSUME SocketOutcomes = {TRUE}, ServerIds = {TRUE}
    PROVE  Spec => []NeverStuck
<1>1. IInv /\ AddressInv /\ LiveInv /\ [Next]_n => AddressInv' /\ LiveInv'
  BY StepAddress, StepLive
<1>2. ASSUME AddressInv, LiveInv PROVE NeverStuck
  <2>1. Served(n) /\ Alive(n) /\ Settled(n) /\ n.method \in Methods
    BY <1>2 DEF AddressInv, LiveInv, Good, Live, Base, Networks
  <2> QED
    BY <2>1 DEF Served, Alive, Settled, Methods, Probing, NeverStuck
<1> QED
  BY <1>1, <1>2, InitAddress, InitLive, NetworkInvariant, PTL DEF Spec

=============================================================================

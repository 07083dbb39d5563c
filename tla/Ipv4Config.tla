------------------------------ MODULE Ipv4Config ------------------------------
(***************************************************************************)
(* How one network gets its IPv4 address: src/network.c and src/dhcp.c on  *)
(* top of the DHCP and link-local clients (module DhcpClient) and of       *)
(* conflict detection (module Acd).  These parts call each other           *)
(* synchronously and share the ipconfig of the service; every timer and    *)
(* every packet is an event of the main loop that may come in any order    *)
(* the clocks allow.                                                       *)
(*                                                                         *)
(* The network is a record:                                                *)
(*   connected, connecting, associating, dhcp_timeout, ipv4ll_timeout,     *)
(*   host         struct connman_network (host: its acd_host)              *)
(*   active       the IPv4 family of the service is connecting or          *)
(*                connected, in the sense of is_connecting/is_connected    *)
(*   method, local, router, last   the ipconfig (last: dhcp_address)       *)
(*   dhcp, client, ll, ll_running, retry   struct connman_dhcp; retry is   *)
(*                its rate-limit timer                                     *)
(*   kernel       the addresses on the interface                           *)
(*   gateway      the service has IPv4 gateway data                        *)
(*   acd          the setting AddressConflictDetection                     *)
(* e is what the environment decides during one event: whether sockets can *)
(* be opened, and the random link-local address.                           *)
(***************************************************************************)
EXTENDS DhcpClient, TLC

CONSTANTS
    UserAddresses,   \* addresses the user may set
    Routers,         \* routers a server may announce
    ServerIds,       \* whether OFFER and ACK name their server: a set of Booleans
    AcdChanges,      \* whether a renewal may change router or mask while ACD is on
    SocketOutcomes,  \* whether sockets can be opened: a set of Booleans
    EarlyChanges,    \* whether the configuration may change before the link is up
    LateAcd,         \* whether the ACD host may act after the link is lost
    AckRetryBound    \* bound on the counter of refused requests

ASSUME Ipv4Assumption ==
    /\ SocketOutcomes \subseteq BOOLEAN
    /\ UserAddresses \subseteq Addresses
    /\ ServerIds \subseteq BOOLEAN
    /\ AcdChanges \in BOOLEAN
    /\ EarlyChanges \in BOOLEAN
    /\ LateAcd \in BOOLEAN
    /\ AckRetryBound \in Nat

VARIABLE n

Methods == {"OFF", "MANUAL", "DHCP", "AUTO"}

MaybeRouter == Routers \union {NoAddress}

Networks ==
    [connected : BOOLEAN, connecting : BOOLEAN, associating : BOOLEAN,
     active : BOOLEAN, method : Methods, local : MaybeAddress, router : MaybeRouter,
     last : MaybeAddress, dhcp : BOOLEAN, client : Clients, ll : Clients,
     ll_running : BOOLEAN, retry : BOOLEAN, dhcp_timeout : BOOLEAN,
     ipv4ll_timeout : BOOLEAN, host : Hosts, kernel : SUBSET Addresses,
     gateway : BOOLEAN, acd : BOOLEAN]

-----------------------------------------------------------------------------
(***************************************************************************)
(* The ipconfig and the interface.                                         *)
(***************************************************************************)

address_unset(w) ==
    IF w.method = "OFF" THEN w ELSE [w EXCEPT !.kernel = @ \ {w.local}]

address_remove(w) ==
    IF w.method \in {"AUTO", "DHCP"}
    THEN [address_unset(w) EXCEPT !.local = NoAddress, !.router = NoAddress]
    ELSE address_unset(w)

\* Whether __connman_ipconfig_address_add() succeeds.
CanAdd(w) == w.method = "OFF" \/ w.local # NoAddress

\* __connman_ipconfig_address_add() and __connman_ipconfig_gateway_add().
AddAddress(w) ==
    [w EXCEPT !.kernel = IF w.method = "OFF" THEN @ ELSE @ \union {w.local},
              !.gateway = TRUE]

-----------------------------------------------------------------------------
(***************************************************************************)
(* Stopping.                                                               *)
(***************************************************************************)

ipv4ll_stop_client(w) ==
    [w EXCEPT !.ll = g_dhcp_client_new("IPV4LL"), !.ll_running = FALSE]

dhcp_release(w) ==
    [ipv4ll_stop_client(w) EXCEPT !.retry = FALSE, !.client = g_dhcp_client_new("IPV4")]

\* dhcp_callback() with success false.
dhcp_failure(w) ==
    [address_remove(w) EXCEPT !.connecting = FALSE, !.gateway = FALSE]

\* dhcp_invalidate() without the callback.
Invalidate(w) ==
    [address_remove([w EXCEPT !.last = w.local])
        EXCEPT !.local = NoAddress, !.router = NoAddress]

dhcp_invalidate(w, callback) ==
    IF callback THEN dhcp_failure(Invalidate(w)) ELSE Invalidate(w)

dhcp_stop(w) ==
    IF w.dhcp
    THEN dhcp_invalidate([dhcp_release(w) EXCEPT !.dhcp = FALSE], FALSE)
    ELSE w

\* Faulty variant: DHCP is left running when the method has moved to AUTO.
Unconfigure_DhcpOnly(w) ==
    [address_unset(IF w.method = "DHCP"
                   THEN dhcp_stop([w EXCEPT !.dhcp_timeout = FALSE])
                   ELSE w)
        EXCEPT !.gateway = FALSE]

\* What set_disconnected() undoes of a connected network.
Unconfigure(w) ==
    [address_unset(IF w.method \in {"AUTO", "DHCP"}
                   THEN dhcp_stop([w EXCEPT !.method = "DHCP", !.dhcp_timeout = FALSE])
                   ELSE w)
        EXCEPT !.gateway = FALSE]

set_disconnected(w) ==
    [IF w.connected THEN Unconfigure(w) ELSE w
        EXCEPT !.connecting = FALSE, !.connected = FALSE, !.associating = FALSE,
               !.active = FALSE]

StopAcd(w) == [w EXCEPT !.ipv4ll_timeout = FALSE, !.host = acd_host_stop(w.host)]

\* The driver disconnects at once.
__connman_network_disconnect(w) ==
    IF w.connected \/ w.connecting \/ w.associating
    THEN set_disconnected(StopAcd(w))
    ELSE StopAcd(w)

connman_network_set_error(w) == __connman_network_disconnect([w EXCEPT !.active = FALSE])

-----------------------------------------------------------------------------
(***************************************************************************)
(* Configuring.                                                            *)
(***************************************************************************)

\* Called with a local address only; an error of acd_host_start() is dropped.
start_acd(w, e) ==
    [w EXCEPT !.ipv4ll_timeout = FALSE,
              !.host = acd_host_start(w.host, w.local, e.opened)]

\* The address is put on the interface, or the network fails.
Install(w) == IF CanAdd(w) THEN AddAddress(w) ELSE connman_network_set_error(w)

\* Faulty variant: the address is used while it is being probed.
Configure_AtOnce(w, e) ==
    IF w.acd /\ w.local # NoAddress THEN start_acd(Install(w), e) ELSE Install(w)

\* The common end of set_connected_manual() and dhcp_success().
Configure(w, e) ==
    IF w.acd /\ w.local # NoAddress
    THEN start_acd(w, e)
    ELSE Install([w EXCEPT !.ipv4ll_timeout = @ /\ ~w.acd])

set_connected_manual(w, e) == Configure([w EXCEPT !.connecting = FALSE], e)

dhcp_valid(w, e) == Configure([w EXCEPT !.connecting = FALSE], e)

ipv4ll_start_client(w, e) ==
    [w EXCEPT !.ll = ipv4ll_start(g_dhcp_client_new("IPV4LL"), e.random),
              !.ll_running = TRUE]

\* Faulty variant: the link-local client replaces the rate limit timer.
no_lease_cb_NoRetry(w, e) ==
    IF w.ll_running
    THEN w
    ELSE dhcp_invalidate(ipv4ll_start_client(w, e), FALSE)

no_lease_cb(w, e) ==
    IF w.ll_running
    THEN [w EXCEPT !.retry = TRUE]
    ELSE dhcp_invalidate(ipv4ll_start_client([w EXCEPT !.retry = TRUE], e), FALSE)

\* The client after one of its functions, and the callback that function made.
ClientDid(w, r, e) ==
    IF r.event = "no_lease"
    THEN no_lease_cb([w EXCEPT !.client = r.client], e)
    ELSE [w EXCEPT !.client = r.client]

\* Whether g_dhcp_client_start() returns an error.
StartFails(w, e) == g_dhcp_client_start(w.client, w.last, e.opened).err # "OK"

dhcp_start(w, e) ==
    ClientDid([w EXCEPT !.dhcp = TRUE], g_dhcp_client_start(w.client, w.last, e.opened), e)

set_connected_dhcp(w, e) == dhcp_start([w EXCEPT !.dhcp_timeout = FALSE], e)

EnableDhcp(w, e) ==
    IF StartFails(w, e)
    THEN connman_network_set_error(set_connected_dhcp(w, e))
    ELSE set_connected_dhcp(w, e)

EnableMethod(w, e) ==
    CASE w.method = "OFF" -> w
      [] w.method = "AUTO" -> connman_network_set_error(w)
      [] w.method = "MANUAL" -> set_connected_manual(w, e)
      [] w.method = "DHCP" -> EnableDhcp(w, e)

__connman_network_enable_ipconfig(w, e) == EnableMethod([w EXCEPT !.active = TRUE], e)

start_ipv4ll(w, e) == start_acd([w EXCEPT !.local = e.random], e)

-----------------------------------------------------------------------------
(***************************************************************************)
(* Callbacks of the clients and of the ACD host.                           *)
(***************************************************************************)

\* The new lease: changed says that the address, the router or the mask differs.
Leased(w, address, router, changed, e) ==
    IF changed
    THEN dhcp_valid([w EXCEPT !.local = address, !.router = router], e)
    ELSE w

\* c_gateway: the router known so far; resized: the prefix length is not the one
\* known so far.
LeaseRouter(w, address, router, resized, c_gateway, e) ==
    Leased([IF w.local \notin {address, NoAddress} THEN address_remove(w) ELSE w
               EXCEPT !.last = address, !.method = "DHCP",
                      !.gateway = @ /\ (router = c_gateway \/ c_gateway = NoAddress)],
           address, router, w.local # address \/ router # c_gateway \/ resized, e)

LeaseAddress(w, address, router, resized, e) ==
    LeaseRouter(w, address, router, resized,
                IF w.local \notin {address, NoAddress} /\ w.method \in {"AUTO", "DHCP"}
                THEN NoAddress
                ELSE w.router, e)

\* Faulty variant: the link-local client goes on.
lease_available_cb_KeepLinkLocal(w, address, router, resized, e) ==
    LeaseAddress(w, address, router, resized, e)

lease_available_cb(w, address, router, resized, e) ==
    LeaseAddress(IF w.ll_running
                 THEN dhcp_invalidate(ipv4ll_stop_client(w), FALSE)
                 ELSE w, address, router, resized, e)

ipv4ll_available_cb(w, e) ==
    dhcp_valid([w EXCEPT !.method = "AUTO", !.local = w.ll.assigned_ip,
                         !.router = NoAddress], e)

ipv4ll_lost_cb(w) == dhcp_invalidate(ipv4ll_stop_client(w), TRUE)

lease_lost_cb(w) == dhcp_invalidate(w, TRUE)

acd_host_ipv4_available(w) == Install(w)

\* Faulty variant: the lost address stays on the interface.
acd_host_ipv4_lost_KeepAddress(w, e) ==
    IF w.method = "DHCP"
    THEN __connman_network_enable_ipconfig(w, e)
    ELSE start_ipv4ll(w, e)

acd_host_ipv4_lost(w, e) ==
    IF w.method = "DHCP"
    THEN __connman_network_enable_ipconfig(address_remove(w), e)
    ELSE start_ipv4ll(address_remove(w), e)

dhcp_decline(w) ==
    IF w.dhcp /\ w.local # NoAddress
    THEN [w EXCEPT !.client = g_dhcp_client_decline(@)]
    ELSE w

acd_host_ipv4_conflict(w, e) ==
    IF w.method = "DHCP" /\ w.host.conflicts < 2
    THEN [dhcp_decline(w) EXCEPT !.dhcp_timeout = TRUE, !.local = NoAddress]
    ELSE IF w.method = "DHCP"
    THEN start_ipv4ll(dhcp_decline([w EXCEPT !.method = "AUTO"]), e)
    ELSE start_ipv4ll(w, e)

acd_host_ipv4_maxconflict(w) == [w EXCEPT !.ipv4ll_timeout = TRUE]

\* The host after one of its functions, and the callback that function made.
HostDid(w, callback, e) ==
    CASE callback = "none" -> w
      [] callback = "available" -> acd_host_ipv4_available(w)
      [] callback = "lost" -> acd_host_ipv4_lost(w, e)
      [] callback = "conflict" -> acd_host_ipv4_conflict(w, e)
      [] callback = "maxconflict" -> acd_host_ipv4_maxconflict(w)

\* The same for the link-local client.
LinkLocalDid(w, event, e) ==
    CASE event = "none" -> w
      [] event = "ipv4ll_available" -> ipv4ll_available_cb(w, e)
      [] event = "ipv4ll_lost" -> ipv4ll_lost_cb(w)

-----------------------------------------------------------------------------
(***************************************************************************)
(* Events.                                                                 *)
(***************************************************************************)

Environments == [opened : SocketOutcomes, random : LinkLocal]

\* For the steps that start no link-local client: one random address stands for all.
Unpicked == {e \in Environments : e.random = CHOOSE a \in LinkLocal : TRUE}

Leasable == Addresses \ LinkLocal

Init ==
    /\ n \in [connected : {FALSE}, connecting : {FALSE}, associating : {FALSE},
              active : {FALSE}, method : {"DHCP"}, local : {NoAddress},
              router : {NoAddress}, last : {NoAddress}, dhcp : {FALSE},
              client : {g_dhcp_client_new("IPV4")}, ll : {g_dhcp_client_new("IPV4LL")},
              ll_running : {FALSE}, retry : {FALSE}, dhcp_timeout : {FALSE},
              ipv4ll_timeout : {FALSE}, host : {acd_host_new}, kernel : {{}},
              gateway : {FALSE}, acd : BOOLEAN]

HostActs == n.connected \/ LateAcd

\* __connman_network_connect(); the driver answers later.
Connect ==
    /\ ~(n.connected \/ n.connecting \/ n.associating)
    /\ n' = [n EXCEPT !.connecting = TRUE, !.associating = TRUE, !.active = TRUE]

\* connman_network_set_connected(network, true) for the connection asked for.
SetConnected(e) ==
    /\ n.associating /\ ~n.connected
    /\ n' = __connman_network_enable_ipconfig(
                [n EXCEPT !.associating = FALSE, !.connected = TRUE], e)

\* connman_network_set_connected(network, false).
LinkLost ==
    /\ n.connecting \/ n.associating \/ n.connected
    /\ n' = IF n.connecting \/ n.associating
            THEN connman_network_set_error(n)
            ELSE set_disconnected(n)

Disconnect == n' = __connman_network_disconnect(n)

clear_ipconfig(w) ==
    CASE w.method = "OFF" -> w
      [] w.method = "MANUAL" -> address_remove(w)
      [] OTHER -> dhcp_stop([w EXCEPT !.dhcp_timeout = FALSE])

\* The new ipconfig; the router of a manual one plays no part.
NewIpconfig(w, method, address) ==
    [w EXCEPT !.method = method, !.local = address, !.router = NoAddress,
              !.last = NoAddress]

Reconfigured(w, method, address, e) ==
    IF w.active
    THEN __connman_network_enable_ipconfig(NewIpconfig(clear_ipconfig(w), method, address), e)
    ELSE NewIpconfig(w, method, address)

\* Property IPv4.Configuration is set.  A DHCP client left running on an
\* ipconfig that is replaced is outside the model.
Reconfigure(method, address, e) ==
    /\ n.active \/ ~n.dhcp
    /\ n.active => n.connected \/ EarlyChanges
    /\ n' = Reconfigured(n, method, address, e)

\* The client's own timeouts.
ClientTimeout(e) ==
    \/ /\ n.client.timeout = "discover_timeout"
       /\ n' = ClientDid(n, discover_timeout(n.client, e.opened), e)
    \/ /\ n.client.timeout = "request_timeout"
       /\ n' = ClientDid(n, request_timeout(n.client, e.opened), e)
    \/ /\ n.client.timeout = "reboot_timeout"
       /\ n' = ClientDid(n, reboot_timeout(n.client, e.opened), e)
    \/ /\ n.client.timeout = "restart_dhcp_timeout"
       /\ n.client.ack_retry_times < AckRetryBound
       /\ n' = ClientDid(n, restart_dhcp_timeout(n.client, e.opened), e)

\* The timers of the lease come in the order T1, T2, end of the lease.
Renew(again, e) ==
    \/ /\ n.client.t1 = "start_renew"
       /\ n' = [n EXCEPT !.client = start_renew(@, again, e.opened)]
    \/ /\ n.client.t1 = "continue_renew"
       /\ n' = [n EXCEPT !.client = continue_renew(@, again, e.opened)]

Rebind(again, e) ==
    \/ /\ n.client.t2 = "start_rebound" /\ n.client.t1 # "start_renew"
       /\ n' = [n EXCEPT !.client = start_rebound(@, again, e.opened)]
    \/ /\ n.client.t2 = "continue_rebound"
       /\ n' = [n EXCEPT !.client = continue_rebound(@, again, e.opened)]

Expire(e) ==
    /\ n.client.lease /\ n.client.t2 # "start_rebound"
    /\ n' = lease_lost_cb(ClientDid(n, start_expire(n.client, e.opened), e))

Offer(address, named, e) ==
    /\ ClientHears(n.client) /\ n.client.state = "INIT_SELECTING"
    /\ NoAddress \in n.client.asked
    /\ n' = ClientDid(n, ReceiveOffer(n.client, address, named, e.opened), e)

\* start_bound() follows the callback.
Bound(w) == IF w.dhcp THEN [w EXCEPT !.client = start_bound(@)] ELSE w

\* A renewal that announces another router or another prefix length is probed
\* again with conflict detection.
Renewed(address, router, resized) ==
    n.local = address => router = n.router /\ ~resized

\* The prefix length of another address makes no difference.
Ack(address, router, resized, named, e) ==
    /\ ClientHears(n.client) /\ AwaitsAck(n.client)
    /\ address \in n.client.asked
    /\ resized => n.local = address
    /\ n.acd /\ ~AcdChanges => Renewed(address, router, resized)
    /\ LET w == [n EXCEPT !.client = ReceiveAck(@, address)]
       IN  n' = IF Ignores(n.client, named)
                THEN w
                ELSE Bound(lease_available_cb(w, address, router, resized, e))

Nak ==
    /\ ClientHears(n.client) /\ AwaitsAck(n.client)
    /\ n.client.asked \ {NoAddress} # {}
    /\ n' = [n EXCEPT !.client = ReceiveNak(@)]

dhcp_retry_cb(e) ==
    /\ n.retry
    /\ n' = ClientDid([n EXCEPT !.retry = FALSE],
                      g_dhcp_client_start(n.client, n.last, e.opened), e)

set_connected_dhcp_timout(e) ==
    /\ n.dhcp_timeout
    /\ n' = IF n.method = "DHCP"
            THEN set_connected_dhcp(n, e)
            ELSE [n EXCEPT !.dhcp_timeout = FALSE]

start_ipv4ll_ontimeout(e) ==
    /\ n.ipv4ll_timeout
    /\ HostActs
    /\ n' = start_ipv4ll(n, e)

LinkLocalTimeout(e) ==
    \/ /\ n.ll.timeout = "send_probe_packet"
       /\ n' = [n EXCEPT !.ll = ipv4ll_send_probe(@, e.random, e.opened)]
    \/ /\ n.ll.timeout = "ipv4ll_probe_timeout"
       /\ n' = [n EXCEPT !.ll = ipv4ll_probe_timeout(@, e.random, e.opened)]
    \/ /\ n.ll.timeout = "ipv4ll_announce_timeout"
       /\ LET r == ipv4ll_announce_timeout(n.ll)
          IN  n' = LinkLocalDid([n EXCEPT !.ll = r.client], r.event, e)
    \/ /\ n.ll.timeout = "ipv4ll_defend_timeout"
       /\ n' = [n EXCEPT !.ll = ipv4ll_defend_timeout(@)]

LinkLocalConflict(source, e) ==
    /\ ClientHears(n.ll)
    /\ LET r == ipv4ll_recv_arp_packet(n.ll, source)
       IN  n' = LinkLocalDid([n EXCEPT !.ll = r.client], r.event, e)

HostTimeout(e) ==
    \/ /\ n.host.timeout = "probe" /\ HostActs
       /\ n' = [n EXCEPT !.host = acd_probe_timeout(@, e.opened)]
    \/ /\ n.host.timeout = "announce" /\ HostActs
       /\ LET r == acd_announce_timeout(n.host)
          IN  n' = HostDid([n EXCEPT !.host = r.host], r.callback, e)
    \/ /\ n.host.timeout = "defend" /\ HostActs
       /\ n' = [n EXCEPT !.host = acd_defend_timeout(@)]

Conflict(source, e) ==
    /\ Hears(n.host) /\ HostActs
    /\ n.host.conflicts < ConflictBound
    /\ LET r == acd_recv_arp_packet(n.host, source)
       IN  n' = HostDid([n EXCEPT !.host = r.host], r.callback, e)

\* What the user and the server do.
UserOrServer(e) ==
    \/ Reconfigure("DHCP", NoAddress, e)
    \/ Reconfigure("OFF", NoAddress, e)
    \/ \E a \in UserAddresses : Reconfigure("MANUAL", a, e)
    \/ \E again \in BOOLEAN : Renew(again, e) \/ Rebind(again, e)
    \/ \E a \in Leasable, named \in ServerIds :
          \/ Offer(a, named, e)
          \/ \E r \in MaybeRouter, resized \in BOOLEAN : Ack(a, r, resized, named, e)

Next ==
    \/ Connect
    \/ LinkLost
    \/ Disconnect
    \/ Nak
    \/ \E e \in Unpicked : UserOrServer(e)
    \/ \E e \in Environments :
          \/ SetConnected(e)
          \/ ClientTimeout(e)
          \/ Expire(e)
          \/ dhcp_retry_cb(e)
          \/ set_connected_dhcp_timout(e)
          \/ start_ipv4ll_ontimeout(e)
          \/ LinkLocalTimeout(e)
          \/ HostTimeout(e)
          \/ \E source \in BOOLEAN : LinkLocalConflict(source, e) \/ Conflict(source, e)

Spec == Init /\ [][Next]_n

-----------------------------------------------------------------------------
\* The network, its clients and its ACD host have their types.
TypeOK == n \in Networks

(***************************************************************************)
(* With AddressConflictDetection, an address is put on the interface only  *)
(* in the step in which the ACD host ends the announcement of that very    *)
(* address, whatever leases, changes of the configuration and conflicts    *)
(* came in between (start_acd() reads ipconfig->local, the callback        *)
(* acd_host_ipv4_available() reads it again later).                        *)
(***************************************************************************)
ProbedBeforeUse ==
    [][n.acd => \A a \in n'.kernel \ n.kernel :
                   n.host.state = "ANNOUNCE" /\ n.host.requested_ip = a]_n

(***************************************************************************)
(* A client that holds a lease has the timer of its end running, or is     *)
(* about to restart after a NAK: no lease is used for ever, also when it   *)
(* was declined and its timers went on, or a retry timer of an earlier     *)
(* failure restarted a bound client.                                       *)
(***************************************************************************)
LeaseGuarded ==
    n.client.state \in LeaseStates =>
        n.client.lease \/ n.client.timeout = "restart_dhcp_timeout"

(***************************************************************************)
(* A connected network whose IPv4 method is not off has an address or some *)
(* timer that will go on looking for one: the DHCP client, its lease, the  *)
(* rate limit, the retry after a conflict, or conflict detection.  It is   *)
(* never left without an address and with nothing to wait for.             *)
(***************************************************************************)
NeverStuck ==
    n.connected /\ n.method # "OFF" =>
        \/ n.kernel # {}
        \/ n.client.timeout # "none" \/ n.client.lease
        \/ n.retry \/ n.dhcp_timeout \/ n.ipv4ll_timeout
        \/ n.host.timeout # "none"

\* What may stay on the interface: with conflict detection the ACD host and the
\* link-local client pick link-local addresses side by side, and the address of
\* the one is not removed when the other's becomes the local one.
Leftovers == IF n.acd THEN LinkLocal ELSE {}

(***************************************************************************)
(* The interface has no address but the one in the ipconfig: an address    *)
(* that is replaced, lost, declined or expired is taken off, by whichever  *)
(* of the DHCP client, the link-local client and the ACD host replaced it. *)
(* A network that is not connected leaves nothing behind: no address, no   *)
(* gateway, no client and none of their timers, however it came to be      *)
(* disconnected (set_disconnected() stops DHCP by the method of that       *)
(* moment, which callbacks change between DHCP and AUTO).                  *)
(***************************************************************************)
NoStaleAddress ==
    /\ n.kernel \ {n.local} \subseteq Leftovers
    /\ ~n.connected => /\ n.kernel \subseteq Leftovers
                       /\ ~n.gateway /\ ~n.dhcp /\ ~n.ll_running
                       /\ ~n.retry /\ ~n.dhcp_timeout

(***************************************************************************)
(* While the DHCP lease is fresh the link-local client does not run: the   *)
(* two never configure the interface against each other.                   *)
(***************************************************************************)
LeaseEndsLinkLocal == n.client.state = "BOUND" => ~n.ll_running

-----------------------------------------------------------------------------
(* The view and the symmetry of the configuration. *)

\* The network without what no step reads: the conflict report of the host, the
\* address assigned to a client once it was reported, and the address that the
\* host, a link-local client or a DHCP client asked for once it has it or looks
\* for another.
WithoutReports ==
    [n EXCEPT !.host.ac_ip = NoAddress, !.host.ac_resolved = TRUE,
              !.host.requested_ip = IF n.host.state \in {"MONITOR", "DEFEND"}
                                    THEN NoAddress
                                    ELSE @,
              !.client.assigned_ip = NoAddress, !.ll.assigned_ip = NoAddress,
              !.client.requested_ip = IF n.client.state = "INIT_SELECTING"
                                      THEN NoAddress
                                      ELSE @,
              !.ll.requested_ip = IF n.ll.state \in {"IPV4LL_MONITOR", "IPV4LL_DEFEND"}
                                  THEN NoAddress
                                  ELSE @]

Symmetric == Permutations(Leasable) \union Permutations(LinkLocal)
=============================================================================

------------------------------ MODULE DhcpClient ------------------------------
(***************************************************************************)
(* The IPv4 side of gdhcp/client.c: the DHCP client and the link-local     *)
(* (IPv4LL) client.  A GDHCPClient is a record and its functions are       *)
(* operators from the client before to the client after.  Where a function *)
(* calls back, the operator also returns the name of the event, and the    *)
(* caller (module Ipv4Config) runs the callback.                           *)
(*                                                                         *)
(* Times are left out: a timer is the name of the function it will call.   *)
(* Packets are reduced to what the client can be answered with: asked      *)
(* holds the addresses requested, and a mark for a DISCOVER, under the     *)
(* current transaction id.                                                 *)
(***************************************************************************)
EXTENDS Acd

CONSTANTS
    DISCOVER_RETRIES, REQUEST_RETRIES

ASSUME DhcpAssumption ==
    /\ DISCOVER_RETRIES \in Nat \ {0}
    /\ REQUEST_RETRIES \in Nat \ {0}

ClientStates ==
    {"INIT_SELECTING", "REBOOTING", "REQUESTING", "BOUND", "DECLINED", "RENEWING",
     "REBINDING", "RELEASED", "IPV4LL_PROBE", "IPV4LL_ANNOUNCE", "IPV4LL_MONITOR",
     "IPV4LL_DEFEND"}

\* The states in which a lease is held.
LeaseStates == {"BOUND", "RENEWING", "REBINDING"}

ClientTimers ==
    {"none", "discover_timeout", "request_timeout", "reboot_timeout",
     "restart_dhcp_timeout", "send_probe_packet", "ipv4ll_probe_timeout",
     "ipv4ll_announce_timeout", "ipv4ll_defend_timeout"}

MaybeAddress == Addresses \union {NoAddress}

Clients ==
    [type : {"IPV4", "IPV4LL"}, state : ClientStates,
     listen_mode : {"L_NONE", "L2", "L3", "L_ARP"}, listener_watch : BOOLEAN,
     retry_times : Nat, ack_retry_times : Nat,
     requested_ip : MaybeAddress, assigned_ip : MaybeAddress,
     last_address : MaybeAddress, asked : SUBSET MaybeAddress,
     timeout : ClientTimers, t1 : {"none", "start_renew", "continue_renew"},
     t2 : {"none", "start_rebound", "continue_rebound"}, lease : BOOLEAN]

g_dhcp_client_new(type) ==
    [type |-> type, state |-> "INIT_SELECTING", listen_mode |-> "L_NONE",
     listener_watch |-> FALSE, retry_times |-> 0, ack_retry_times |-> 0,
     requested_ip |-> NoAddress, assigned_ip |-> NoAddress,
     last_address |-> NoAddress, asked |-> {}, timeout |-> "none", t1 |-> "none",
     t2 |-> "none", lease |-> FALSE]

remove_timeouts(c) ==
    [c EXCEPT !.timeout = "none", !.t1 = "none", !.t2 = "none", !.lease = FALSE]

\* opened: the socket of the new mode could be opened.
switch_listening_mode(c, mode, opened) ==
    IF c.listen_mode = mode
    THEN c
    ELSE IF mode = "L_NONE" \/ ~opened
    THEN [c EXCEPT !.listen_mode = "L_NONE", !.listener_watch = FALSE]
    ELSE [c EXCEPT !.listen_mode = mode, !.listener_watch = TRUE]

\* The DISCOVER is marked by the address 0.
send_discover(c) == [c EXCEPT !.asked = @ \union {NoAddress}]

send_request(c) == [c EXCEPT !.asked = @ \union ({c.requested_ip} \ {NoAddress})]

g_dhcp_client_decline(c) == [c EXCEPT !.state = "DECLINED", !.retry_times = 0]

g_dhcp_client_stop(c) ==
    [remove_timeouts(switch_listening_mode(c, "L_NONE", TRUE))
        EXCEPT !.listener_watch = FALSE, !.retry_times = 0, !.ack_retry_times = 0,
               !.requested_ip = NoAddress, !.state = "RELEASED"]

(***************************************************************************)
(* The link-local client.                                                  *)
(***************************************************************************)

\* random: the address arp_random_ip() picks.
ipv4ll_start(c, random) ==
    [switch_listening_mode(remove_timeouts(c), "L_NONE", TRUE)
        EXCEPT !.retry_times = 1, !.requested_ip = random, !.timeout = "send_probe_packet"]

ipv4ll_send_probe(c, random, opened) ==
    LET p == IF c.requested_ip = NoAddress THEN [c EXCEPT !.requested_ip = random] ELSE c
        l == IF p.retry_times = 1
             THEN switch_listening_mode([p EXCEPT !.state = "IPV4LL_PROBE"], "L_ARP", opened)
             ELSE p
    IN  [l EXCEPT !.timeout = "ipv4ll_probe_timeout"]

ipv4ll_send_announce(c) ==
    [remove_timeouts(c) EXCEPT !.timeout = IF c.state = "IPV4LL_DEFEND"
                                           THEN "ipv4ll_defend_timeout"
                                           ELSE "ipv4ll_announce_timeout"]

ipv4ll_probe_timeout(c, random, opened) ==
    IF c.retry_times = PROBE_NUM
    THEN ipv4ll_send_announce([c EXCEPT !.state = "IPV4LL_ANNOUNCE", !.retry_times = 1])
    ELSE ipv4ll_send_probe([c EXCEPT !.retry_times = @ + 1], random, opened)

ipv4ll_announce_timeout(c) ==
    IF c.retry_times # ANNOUNCE_NUM
    THEN [client |-> ipv4ll_send_announce([c EXCEPT !.retry_times = @ + 1]),
          event |-> "none"]
    ELSE [client |-> [c EXCEPT !.state = "IPV4LL_MONITOR", !.timeout = "none",
                               !.assigned_ip = c.requested_ip],
          event |-> "ipv4ll_available"]

ipv4ll_defend_timeout(c) == [c EXCEPT !.state = "IPV4LL_MONITOR", !.timeout = "none"]

ipv4ll_stop(c) ==
    [remove_timeouts(switch_listening_mode(c, "L_NONE", TRUE))
        EXCEPT !.listener_watch = FALSE, !.state = "IPV4LL_PROBE", !.retry_times = 0,
               !.requested_ip = NoAddress, !.assigned_ip = NoAddress]

\* source: the sender uses the address; otherwise it probes for it.
ipv4ll_recv_arp_packet(c, source) ==
    IF c.state = "IPV4LL_MONITOR" \/ (c.state = "IPV4LL_DEFEND" /\ ~source)
    THEN [client |-> IF source
                     THEN ipv4ll_send_announce([c EXCEPT !.state = "IPV4LL_DEFEND"])
                     ELSE c,
          event |-> "none"]
    ELSE [client |-> [ipv4ll_stop(c) EXCEPT !.retry_times = 1,
                                            !.timeout = "send_probe_packet"],
          event |-> IF c.state = "IPV4LL_DEFEND" THEN "ipv4ll_lost" ELSE "none"]

(***************************************************************************)
(* The DHCP client.                                                        *)
(***************************************************************************)

\* What g_dhcp_client_start() does with a client whose retries are not used up;
\* last: the address it is started with, or NoAddress.
StartClient(c, last, opened) ==
    LET t == remove_timeouts(c)
        fresh == [switch_listening_mode(t, "L2", opened)
                     EXCEPT !.assigned_ip = NoAddress, !.state = "INIT_SELECTING"]
        s == IF c.retry_times = 0 THEN [fresh EXCEPT !.asked = {}] ELSE t
    IN  IF c.retry_times = 0 /\ fresh.listen_mode = "L_NONE"
        THEN [client |-> fresh, event |-> "none", err |-> "EIO"]
        ELSE [client |->
                IF last = NoAddress \/ c.state = "DECLINED" \/ is_link_local(last)
                THEN send_discover([s EXCEPT !.timeout = "discover_timeout"])
                ELSE send_request([s EXCEPT !.last_address = last,
                                            !.requested_ip = last,
                                            !.state = "REBOOTING",
                                            !.timeout = "reboot_timeout"]),
              event |-> "none", err |-> "OK"]

g_dhcp_client_start(c, last, opened) ==
    IF c.retry_times = DISCOVER_RETRIES
    THEN [client |-> [remove_timeouts(c) EXCEPT !.retry_times = 0],
          event |-> "no_lease", err |-> "OK"]
    ELSE StartClient(c, last, opened)

start_request(c, opened) ==
    IF c.retry_times = REQUEST_RETRIES
    THEN [client |-> [c EXCEPT !.timeout = "none"], event |-> "no_lease"]
    ELSE [client |->
            [send_request(IF c.retry_times = 0
                          THEN switch_listening_mode([c EXCEPT !.state = "REQUESTING"],
                                                     "L2", opened)
                          ELSE c)
                EXCEPT !.timeout = "request_timeout"],
          event |-> "none"]

request_timeout(c, opened) == start_request([c EXCEPT !.retry_times = @ + 1], opened)

restart_dhcp(c, retries, opened) ==
    g_dhcp_client_start(
        switch_listening_mode([remove_timeouts(c) EXCEPT !.retry_times = retries,
                                                         !.requested_ip = NoAddress,
                                                         !.state = "INIT_SELECTING"],
                              "L2", opened),
        c.last_address, opened)

restart_dhcp_timeout(c, opened) ==
    IF c.state = "REBOOTING"
    THEN restart_dhcp([c EXCEPT !.last_address = NoAddress], 0, opened)
    ELSE restart_dhcp([c EXCEPT !.ack_retry_times = @ + 1], c.ack_retry_times + 1, opened)

discover_timeout(c, opened) ==
    g_dhcp_client_start([c EXCEPT !.retry_times = @ + 1], NoAddress, opened)

reboot_timeout(c, opened) ==
    g_dhcp_client_start([c EXCEPT !.retry_times = 0, !.requested_ip = NoAddress,
                                  !.state = "INIT_SELECTING"], NoAddress, opened)

\* Faulty variant: the timer of the end of the lease is not started.
start_bound_NoExpiry(c) ==
    [remove_timeouts(c) EXCEPT !.state = "BOUND", !.t1 = "start_renew",
                               !.t2 = "start_rebound"]

start_bound(c) ==
    [remove_timeouts(c) EXCEPT !.state = "BOUND", !.t1 = "start_renew",
                               !.t2 = "start_rebound", !.lease = TRUE]

\* again: more than a minute is left to try again before the rebind.
continue_renew(c, again, opened) ==
    [send_request(switch_listening_mode(c, "L3", opened))
        EXCEPT !.t1 = IF again THEN "continue_renew" ELSE "none"]

start_renew(c, again, opened) ==
    continue_renew([c EXCEPT !.state = "RENEWING"], again, opened)

continue_rebound(c, again, opened) ==
    [send_request(switch_listening_mode(c, "L2", opened))
        EXCEPT !.t2 = IF again THEN "continue_rebound" ELSE "none"]

start_rebound(c, again, opened) ==
    continue_rebound([c EXCEPT !.state = "REBINDING", !.t1 = "none"], again, opened)

start_expire(c, opened) == restart_dhcp(remove_timeouts(c), 0, opened)

\* An OFFER of ip in INIT_SELECTING; named: it has a server identifier.  Without
\* one the client has given up its timers when it ignores the OFFER.
ReceiveOffer(c, ip, named, opened) ==
    LET t == [remove_timeouts(c) EXCEPT !.retry_times = 0]
    IN  IF named
        THEN start_request([t EXCEPT !.requested_ip = ip, !.state = "REQUESTING"], opened)
        ELSE [client |-> t, event |-> "none"]

\* An ACK for ip, up to the check of its server identifier; lease_available_cb and
\* start_bound() follow it.
ReceiveAck(c, ip) ==
    [switch_listening_mode(remove_timeouts(c), "L_NONE", TRUE)
        EXCEPT !.retry_times = 0, !.assigned_ip = ip]

ReceiveNak(c) ==
    [remove_timeouts(c) EXCEPT !.retry_times = 0, !.timeout = "restart_dhcp_timeout"]

\* An ACK is ignored while rebooting when it has no server identifier.
Ignores(c, named) == c.state = "REBOOTING" /\ ~named

ClientHears(c) == c.listen_mode # "L_NONE" /\ c.listener_watch

\* The states whose case of listener_event() reads ACK and NAK.
AwaitsAck(c) == c.state \in {"REBOOTING", "REQUESTING", "RENEWING", "REBINDING"}
=============================================================================

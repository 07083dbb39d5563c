---------------------------- MODULE Ipv4ConfigProofs ----------------------------
(***************************************************************************)
(* What the functions of gdhcp/client.c (module DhcpClient) preserve: the  *)
(* type of the client, and the bond between its state and its timers.      *)
(***************************************************************************)
EXTENDS DhcpClient, TLAPS, Ipv4Config, AcdProofs

USE DEF ClientStates, LeaseStates, ClientTimers

\* The addresses a client may hold.
LEMMA MaybeFacts ==
    /\ NoAddress \in MaybeAddress
    /\ \A a \in Addresses : a \in MaybeAddress
    /\ \A a \in LinkLocal : a \in MaybeAddress
  BY AcdAssumption DEF MaybeAddress

(***************************************************************************)
(* A client that holds a lease has not used a retry, and has either the    *)
(* timer of the end of its lease or the restart after a NAK; T1 and T2     *)
(* never run without the timer of the end, which excludes the timeout of a *)
(* request.  The counter matters because g_dhcp_client_start() leaves the  *)
(* state alone when it is not zero, after it has removed every timer.      *)
(***************************************************************************)
LeaseTimers(c) ==
    /\ c.state \in LeaseStates =>
          /\ c.retry_times = 0
          /\ c.timeout \in {"none", "restart_dhcp_timeout"}
          /\ c.lease \/ c.timeout = "restart_dhcp_timeout"
    /\ c.t1 # "none" \/ c.t2 # "none" => c.lease
    /\ c.lease => c.retry_times = 0 /\ c.timeout = "none"

ClientOK(c) == c \in Clients /\ LeaseTimers(c)

\* r differs from c in nothing that LeaseTimers speaks of.
SameLease(c, r) ==
    /\ r \in Clients
    /\ r.state = c.state /\ r.retry_times = c.retry_times
    /\ r.timeout = c.timeout /\ r.t1 = c.t1 /\ r.t2 = c.t2
    /\ (r.lease <=> c.lease)

\* No timer of a lease runs.
Idle(c) == c \in Clients /\ c.t1 = "none" /\ c.t2 = "none" /\ ~c.lease

\* A new client of either type is well-formed.
LEMMA NewClient ==
    ASSUME NEW type \in {"IPV4", "IPV4LL"}
    PROVE  /\ ClientOK(g_dhcp_client_new(type))
           /\ g_dhcp_client_new(type).state = "INIT_SELECTING"
  BY MaybeFacts DEF ClientOK, LeaseTimers, Clients, g_dhcp_client_new

\* switch_listening_mode() changes the socket and its watch only.
LEMMA SwitchEffect ==
    ASSUME NEW c \in Clients, NEW mode \in {"L_NONE", "L2", "L3", "L_ARP"},
           NEW opened \in BOOLEAN
    PROVE  SameLease(c, switch_listening_mode(c, mode, opened))
  <1>1. CASE switch_listening_mode(c, mode, opened) = c
    BY <1>1 DEF SameLease
  <1>2. CASE switch_listening_mode(c, mode, opened) =
               [c EXCEPT !.listen_mode = "L_NONE", !.listener_watch = FALSE]
    BY <1>2, Zenon DEF Clients, SameLease
  <1>3. CASE switch_listening_mode(c, mode, opened) =
               [c EXCEPT !.listen_mode = mode, !.listener_watch = TRUE]
    BY <1>3, ZenonT(30) DEF Clients, SameLease
  <1> QED
    BY <1>1, <1>2, <1>3 DEF switch_listening_mode

\* remove_timeouts() changes the timers only.
LEMMA RemoveEffect ==
    ASSUME NEW c \in Clients
    PROVE  LET r == remove_timeouts(c)
           IN  /\ Idle(r) /\ r.timeout = "none"
               /\ r.state = c.state /\ r.retry_times = c.retry_times
  <1>1. remove_timeouts(c) \in Clients
    BY ZenonT(40) DEF Clients, remove_timeouts
  <1>2. ~remove_timeouts(c).lease
    BY DEF Clients, remove_timeouts
  <1> QED
    BY <1>1, <1>2 DEF Clients, remove_timeouts, Idle

\* Sending changes what the client can be answered with only.
LEMMA SendEffect ==
    ASSUME NEW c \in Clients
    PROVE  SameLease(c, send_discover(c)) /\ SameLease(c, send_request(c))
  <1>1. {NoAddress} \subseteq MaybeAddress /\ {c.requested_ip} \subseteq MaybeAddress
    BY MaybeFacts DEF Clients
  <1> QED
    BY <1>1 DEF Clients, SameLease, send_discover, send_request

\* What SameLease carries over.
LEMMA SameOK ==
    ASSUME NEW c, NEW r, SameLease(c, r)
    PROVE  /\ LeaseTimers(c) => ClientOK(r)
           /\ Idle(c) => Idle(r)
           /\ r.state = c.state /\ r.retry_times = c.retry_times
           /\ r \in Clients
  BY DEF SameLease, ClientOK, LeaseTimers, Idle

\* A client that holds no lease and has none of its timers is well-formed.
LEMMA IdleOK ==
    ASSUME NEW c, Idle(c), c.state \notin LeaseStates
    PROVE  ClientOK(c)
  BY DEF Idle, ClientOK, LeaseTimers

\* g_dhcp_client_decline() leaves the timers of the lease running.
LEMMA DeclineOK ==
    ASSUME NEW c, ClientOK(c)
    PROVE  ClientOK(g_dhcp_client_decline(c)) /\ g_dhcp_client_decline(c).state = "DECLINED"
  BY Zenon DEF ClientOK, LeaseTimers, Clients, g_dhcp_client_decline

\* The two ways in which g_dhcp_client_start() asks for an address.
LEMMA AskEffect ==
    ASSUME NEW c, Idle(c), c.state \notin LeaseStates, NEW last \in MaybeAddress
    PROVE  LET a == send_discover([c EXCEPT !.timeout = "discover_timeout"])
               b == send_request([c EXCEPT !.last_address = last, !.requested_ip = last,
                                           !.state = "REBOOTING",
                                           !.timeout = "reboot_timeout"])
           IN  /\ ClientOK(a) /\ a.state \notin LeaseStates
               /\ ClientOK(b) /\ b.state \notin LeaseStates
  <1> DEFINE d == [c EXCEPT !.timeout = "discover_timeout"]
             q == [c EXCEPT !.last_address = last, !.requested_ip = last,
                            !.state = "REBOOTING", !.timeout = "reboot_timeout"]
  <1>1. Idle(d) /\ d.state \notin LeaseStates
    BY DEF Clients, Idle
  <1>2. Idle(q) /\ q.state \notin LeaseStates
    BY ZenonT(30) DEF Clients, Idle
  <1> HIDE DEF d, q
  <1>3. SameLease(d, send_discover(d)) /\ SameLease(q, send_request(q))
    BY <1>1, <1>2, SendEffect DEF Idle
  <1>4. Idle(send_discover(d)) /\ send_discover(d).state \notin LeaseStates
    BY <1>1, <1>3, SameOK
  <1>5. Idle(send_request(q)) /\ send_request(q).state \notin LeaseStates
    BY <1>2, <1>3, SameOK
  <1>6. ClientOK(send_discover(d)) /\ ClientOK(send_request(q))
    BY <1>4, <1>5, IdleOK
  <1> QED
    BY <1>4, <1>5, <1>6 DEF d, q

\* A client that has been (re)started: it is well-formed and holds no lease.
Started(r) ==
    /\ ClientOK(r.client)
    /\ r.client.state \notin LeaseStates
    /\ r.event \in {"none", "no_lease"}

\* g_dhcp_client_start(): with LeaseTimers the counter is zero, and the state is
\* reset, whenever a lease was held.
LEMMA StartOK ==
    ASSUME NEW c, ClientOK(c), NEW last \in MaybeAddress, NEW opened \in BOOLEAN
    PROVE  Started(g_dhcp_client_start(c, last, opened))
  <1> DEFINE t == remove_timeouts(c)
             w == switch_listening_mode(t, "L2", opened)
             fresh == [w EXCEPT !.assigned_ip = NoAddress, !.state = "INIT_SELECTING"]
             f == [fresh EXCEPT !.asked = {}]
             z == [t EXCEPT !.retry_times = 0]
             s == IF c.retry_times = 0 THEN f ELSE t
  <1>1. Idle(t) /\ t.state = c.state
    BY RemoveEffect DEF ClientOK
  <1> HIDE DEF t
  <1>2. SameLease(t, w)
    BY <1>1, SwitchEffect DEF Idle
  <1> HIDE DEF w
  <1>3. Idle(w)
    BY <1>1, <1>2, SameOK
  <1>4. Idle(fresh) /\ fresh.state = "INIT_SELECTING"
    BY <1>3, MaybeFacts, Zenon DEF Clients, Idle
  <1>5. Idle(z) /\ z.state = c.state
    BY <1>1 DEF Clients, Idle
  <1> HIDE DEF fresh, z
  <1>6. Idle(f) /\ f.state = "INIT_SELECTING"
    BY <1>4 DEF Clients, Idle
  <1> HIDE DEF f
  <1>7. c.retry_times # 0 => c.state \notin LeaseStates
    BY DEF ClientOK, LeaseTimers
  <1>8. Idle(s) /\ s.state \notin LeaseStates
    BY <1>1, <1>6, <1>7
  <1> HIDE DEF s
  <1>9. CASE c.retry_times = DISCOVER_RETRIES
    <2>1. g_dhcp_client_start(c, last, opened) =
            [client |-> z, event |-> "no_lease", err |-> "OK"]
      BY <1>9 DEF g_dhcp_client_start, z, t
    <2>2. z.state \notin LeaseStates
      BY <1>5, <1>7, <1>9, DhcpAssumption
    <2> QED
      BY <1>5, <2>1, <2>2, IdleOK DEF Started
  <1>10. CASE c.retry_times # DISCOVER_RETRIES
    <2> DEFINE a == send_discover([s EXCEPT !.timeout = "discover_timeout"])
               b == send_request([s EXCEPT !.last_address = last, !.requested_ip = last,
                                           !.state = "REBOOTING",
                                           !.timeout = "reboot_timeout"])
    <2>1. g_dhcp_client_start(c, last, opened) =
            IF c.retry_times = 0 /\ fresh.listen_mode = "L_NONE"
            THEN [client |-> fresh, event |-> "none", err |-> "EIO"]
            ELSE [client |-> IF last = NoAddress \/ c.state = "DECLINED" \/ is_link_local(last)
                             THEN a ELSE b,
                  event |-> "none", err |-> "OK"]
      BY <1>10 DEF g_dhcp_client_start, StartClient, s, f, fresh, w, t
    <2>2. ClientOK(a) /\ a.state \notin LeaseStates /\ ClientOK(b) /\ b.state \notin LeaseStates
      BY <1>8, AskEffect, Zenon
    <2> HIDE DEF a, b
    <2>3. ClientOK(fresh)
      BY <1>4, IdleOK
    <2> QED
      BY <1>4, <2>1, <2>2, <2>3 DEF Started
  <1> QED
    BY <1>9, <1>10

\* start_request() of a client without a lease.
LEMMA RequestOK ==
    ASSUME NEW c, Idle(c), c.state \notin LeaseStates, NEW opened \in BOOLEAN
    PROVE  Started(start_request(c, opened))
  <1> DEFINE n0 == [c EXCEPT !.timeout = "none"]
             q == [c EXCEPT !.state = "REQUESTING"]
             l == switch_listening_mode(q, "L2", opened)
             i == IF c.retry_times = 0 THEN l ELSE c
             r == send_request(i)
             t == [r EXCEPT !.timeout = "request_timeout"]
  <1>1. start_request(c, opened) =
          IF c.retry_times = REQUEST_RETRIES
          THEN [client |-> n0, event |-> "no_lease"]
          ELSE [client |-> t, event |-> "none"]
    BY DEF start_request
  <1>2. Idle(n0) /\ n0.state \notin LeaseStates
    BY DEF Clients, Idle
  <1>3. Idle(q) /\ q.state \notin LeaseStates
    BY DEF Clients, Idle
  <1> HIDE DEF n0, q
  <1>4. SameLease(q, l)
    BY <1>3, SwitchEffect DEF Idle
  <1> HIDE DEF l
  <1>5. Idle(l) /\ l.state \notin LeaseStates
    BY <1>3, <1>4, SameOK
  <1>6. Idle(i) /\ i.state \notin LeaseStates
    BY <1>5
  <1> HIDE DEF i
  <1>7. SameLease(i, r)
    BY <1>6, SendEffect DEF Idle
  <1> HIDE DEF r
  <1>8. Idle(r) /\ r.state \notin LeaseStates
    BY <1>6, <1>7, SameOK
  <1>9. Idle(t) /\ t.state \notin LeaseStates
    BY <1>8 DEF Clients, Idle
  <1> HIDE DEF t
  <1>10. ClientOK(n0) /\ ClientOK(t)
    BY <1>2, <1>9, IdleOK
  <1> QED
    BY <1>1, <1>2, <1>9, <1>10 DEF Started

\* While a timeout of a request runs no lease is held.
LEMMA TimeoutIdle ==
    ASSUME NEW c, ClientOK(c), c.timeout \notin {"none", "restart_dhcp_timeout"}
    PROVE  Idle(c) /\ c.state \notin LeaseStates
  BY DEF ClientOK, LeaseTimers, Idle, Clients

\* request_timeout() fires only while no lease is held.
LEMMA RequestTimeoutOK ==
    ASSUME NEW c, ClientOK(c), c.timeout = "request_timeout", NEW opened \in BOOLEAN
    PROVE  Started(request_timeout(c, opened))
  <1> DEFINE d == [c EXCEPT !.retry_times = @ + 1]
  <1>1. Idle(c) /\ c.state \notin LeaseStates
    BY TimeoutIdle
  <1>2. Idle(d) /\ d.state \notin LeaseStates
    BY <1>1 DEF Clients, Idle
  <1> HIDE DEF d
  <1>3. Started(start_request(d, opened))
    BY <1>2, RequestOK
  <1> QED
    BY <1>3 DEF request_timeout, d

\* restart_dhcp() starts over, whatever the client was doing.
LEMMA RestartOK ==
    ASSUME NEW c \in Clients, NEW retries \in Nat, NEW opened \in BOOLEAN
    PROVE  Started(restart_dhcp(c, retries, opened))
  <1> DEFINE t == remove_timeouts(c)
             q == [t EXCEPT !.retry_times = retries, !.requested_ip = NoAddress,
                            !.state = "INIT_SELECTING"]
             l == switch_listening_mode(q, "L2", opened)
  <1>1. Idle(t)
    BY RemoveEffect
  <1> HIDE DEF t
  <1>2. Idle(q) /\ q.state \notin LeaseStates
    BY <1>1, MaybeFacts, Zenon DEF Clients, Idle
  <1> HIDE DEF q
  <1>3. SameLease(q, l)
    BY <1>2, SwitchEffect DEF Idle
  <1> HIDE DEF l
  <1>4. Idle(l) /\ l.state \notin LeaseStates
    BY <1>2, <1>3, SameOK
  <1>5. ClientOK(l)
    BY <1>4, IdleOK
  <1>6. c.last_address \in MaybeAddress
    BY DEF Clients
  <1>7. Started(g_dhcp_client_start(l, c.last_address, opened))
    BY <1>5, <1>6, StartOK
  <1> QED
    BY <1>7 DEF restart_dhcp, l, q, t

\* restart_dhcp_timeout() starts over after a NAK.
LEMMA RestartTimeoutOK ==
    ASSUME NEW c \in Clients, NEW opened \in BOOLEAN
    PROVE  Started(restart_dhcp_timeout(c, opened))
  <1> DEFINE d == [c EXCEPT !.last_address = NoAddress]
             k == [c EXCEPT !.ack_retry_times = @ + 1]
  <1>1. d \in Clients /\ k \in Clients /\ c.ack_retry_times + 1 \in Nat
    BY MaybeFacts DEF Clients
  <1> HIDE DEF d, k
  <1>2. Started(restart_dhcp(d, 0, opened))
        /\ Started(restart_dhcp(k, c.ack_retry_times + 1, opened))
    BY <1>1, RestartOK
  <1> QED
    BY <1>2 DEF restart_dhcp_timeout, d, k

\* discover_timeout() tries again or gives up.
LEMMA DiscoverTimeoutOK ==
    ASSUME NEW c, ClientOK(c), c.timeout = "discover_timeout", NEW opened \in BOOLEAN
    PROVE  Started(discover_timeout(c, opened))
  <1> DEFINE d == [c EXCEPT !.retry_times = @ + 1]
  <1>1. Idle(c) /\ c.state \notin LeaseStates
    BY TimeoutIdle
  <1>2. Idle(d) /\ d.state \notin LeaseStates
    BY <1>1 DEF Clients, Idle
  <1> HIDE DEF d
  <1>3. Started(g_dhcp_client_start(d, NoAddress, opened))
    BY <1>2, IdleOK, StartOK, MaybeFacts
  <1> QED
    BY <1>3 DEF discover_timeout, d

\* reboot_timeout() forgets the address it asked for.
LEMMA RebootTimeoutOK ==
    ASSUME NEW c, ClientOK(c), c.timeout = "reboot_timeout", NEW opened \in BOOLEAN
    PROVE  Started(reboot_timeout(c, opened))
  <1> DEFINE d == [c EXCEPT !.retry_times = 0, !.requested_ip = NoAddress,
                            !.state = "INIT_SELECTING"]
  <1>1. Idle(c)
    BY TimeoutIdle
  <1>2. Idle(d) /\ d.state \notin LeaseStates
    BY <1>1, MaybeFacts, Zenon DEF Clients, Idle
  <1> HIDE DEF d
  <1>3. Started(g_dhcp_client_start(d, NoAddress, opened))
    BY <1>2, IdleOK, StartOK, MaybeFacts
  <1> QED
    BY <1>3 DEF reboot_timeout, d

\* start_expire() starts over at the end of the lease.
LEMMA ExpireOK ==
    ASSUME NEW c \in Clients, NEW opened \in BOOLEAN
    PROVE  Started(start_expire(c, opened))
  <1>1. remove_timeouts(c) \in Clients
    BY RemoveEffect DEF Idle
  <1> QED
    BY <1>1, RestartOK DEF start_expire

\* An OFFER is answered by the first request for its address, or ignored without timers.
LEMMA OfferOK ==
    ASSUME NEW c \in Clients, c.state = "INIT_SELECTING", NEW ip \in Addresses,
           NEW named \in BOOLEAN, NEW opened \in BOOLEAN
    PROVE  Started(ReceiveOffer(c, ip, named, opened))
  <1> DEFINE r == remove_timeouts(c)
             t == [r EXCEPT !.retry_times = 0]
             q == [t EXCEPT !.requested_ip = ip, !.state = "REQUESTING"]
  <1>1. Idle(r) /\ r.state = "INIT_SELECTING"
    BY RemoveEffect
  <1> HIDE DEF r
  <1>2. Idle(t) /\ t.state \notin LeaseStates
    BY <1>1, Zenon DEF Clients, Idle
  <1> HIDE DEF t
  <1>3. Idle(q) /\ q.state \notin LeaseStates
    BY <1>2, MaybeFacts, Zenon DEF Clients, Idle
  <1> HIDE DEF q
  <1>4. Started(start_request(q, opened))
    BY <1>3, RequestOK
  <1>5. Started([client |-> t, event |-> "none"])
    BY <1>2, IdleOK DEF Started
  <1> QED
    BY <1>4, <1>5 DEF ReceiveOffer, q, t, r

\* An ACK leaves the client without timers until start_bound() sets them all.
LEMMA AckEffect ==
    ASSUME NEW c \in Clients, NEW ip \in Addresses
    PROVE  /\ Idle(ReceiveAck(c, ip)) /\ ReceiveAck(c, ip).retry_times = 0
           /\ ReceiveAck(c, ip).state = c.state
  <1> DEFINE t == remove_timeouts(c)
             l == switch_listening_mode(t, "L_NONE", TRUE)
  <1>1. Idle(t) /\ t.state = c.state
    BY RemoveEffect
  <1> HIDE DEF t
  <1>2. SameLease(t, l)
    BY <1>1, SwitchEffect, Zenon DEF Idle
  <1> HIDE DEF l
  <1>3. Idle(l) /\ l.state = c.state
    BY <1>1, <1>2, SameOK
  <1> DEFINE a == [l EXCEPT !.retry_times = 0, !.assigned_ip = ip]
  <1>4. Idle(a) /\ a.retry_times = 0 /\ a.state = c.state
    BY <1>3, MaybeFacts, Zenon DEF Clients, Idle
  <1> QED
    BY <1>4 DEF ReceiveAck, l, t

\* start_bound() sets the three timers of the lease.
LEMMA BoundOK ==
    ASSUME NEW c \in Clients, c.retry_times = 0
    PROVE  ClientOK(start_bound(c))
  <1> DEFINE t == remove_timeouts(c)
  <1>1. Idle(t) /\ t.retry_times = 0 /\ t.timeout = "none"
    BY RemoveEffect
  <1> HIDE DEF t
  <1> DEFINE b == [t EXCEPT !.state = "BOUND", !.t1 = "start_renew",
                            !.t2 = "start_rebound", !.lease = TRUE]
  <1>2. b \in Clients
    BY <1>1, ZenonT(120) DEF Clients, Idle
  <1>3. LeaseTimers(b)
    BY <1>1 DEF Clients, Idle, LeaseTimers
  <1> QED
    BY <1>2, <1>3 DEF start_bound, t, ClientOK

\* A NAK ends the timers of the lease, and starts that of the restart.
LEMMA NakOK ==
    ASSUME NEW c \in Clients
    PROVE  ClientOK(ReceiveNak(c)) /\ ReceiveNak(c).state = c.state
  <1> DEFINE t == remove_timeouts(c)
  <1>1. Idle(t) /\ t.state = c.state
    BY RemoveEffect
  <1> HIDE DEF t
  <1> DEFINE b == [t EXCEPT !.retry_times = 0, !.timeout = "restart_dhcp_timeout"]
  <1>2. b \in Clients
    <2>1. t \in Clients
      BY <1>1 DEF Idle
    <2> QED
      BY <2>1, ZenonT(40) DEF Clients
  <1>3. LeaseTimers(b) /\ b.state = c.state
    BY <1>1 DEF Clients, Idle, LeaseTimers
  <1> QED
    BY <1>2, <1>3 DEF ReceiveNak, t, ClientOK

\* A request sent while the lease goes on changes the socket only.
LEMMA AgainOK ==
    ASSUME NEW c, ClientOK(c), c.lease, NEW mode \in {"L2", "L3"}, NEW opened \in BOOLEAN
    PROVE  LET r == send_request(switch_listening_mode(c, mode, opened))
           IN  ClientOK(r) /\ r.lease /\ r.state = c.state
  <1> DEFINE l == switch_listening_mode(c, mode, opened)
             r == send_request(l)
  <1>1. SameLease(c, l)
    BY SwitchEffect DEF ClientOK
  <1> HIDE DEF l
  <1>2. SameLease(l, r)
    BY <1>1, SendEffect DEF SameLease
  <1> HIDE DEF r
  <1>3. ClientOK(r) /\ r.lease /\ r.state = c.state
    BY <1>1, <1>2, SameOK DEF SameLease, ClientOK, LeaseTimers
  <1> QED
    BY <1>3 DEF r, l

\* continue_renew() and continue_rebound() keep the end of the lease running.
LEMMA ContinueOK ==
    ASSUME NEW c, ClientOK(c), c.lease, NEW again \in BOOLEAN, NEW opened \in BOOLEAN
    PROVE  /\ ClientOK(continue_renew(c, again, opened))
           /\ continue_renew(c, again, opened).state = c.state
           /\ ClientOK(continue_rebound(c, again, opened))
           /\ continue_rebound(c, again, opened).state = c.state
           /\ continue_renew(c, again, opened).lease /\ continue_rebound(c, again, opened).lease
  <1> DEFINE p == send_request(switch_listening_mode(c, "L3", opened))
             q == send_request(switch_listening_mode(c, "L2", opened))
             u == [p EXCEPT !.t1 = IF again THEN "continue_renew" ELSE "none"]
             v == [q EXCEPT !.t2 = IF again THEN "continue_rebound" ELSE "none"]
  <1>1. ClientOK(p) /\ p.lease /\ p.state = c.state
    BY AgainOK
  <1>2. ClientOK(q) /\ q.lease /\ q.state = c.state
    BY AgainOK
  <1> HIDE DEF p, q
  <1>3. ClientOK(u) /\ u.state = c.state /\ u.lease
    BY <1>1 DEF Clients, ClientOK, LeaseTimers
  <1>4. ClientOK(v) /\ v.state = c.state /\ v.lease
    BY <1>2 DEF Clients, ClientOK, LeaseTimers
  <1> QED
    BY <1>3, <1>4 DEF continue_renew, continue_rebound, p, q

\* start_renew() fires only while the end of the lease is running.
LEMMA RenewOK ==
    ASSUME NEW c, ClientOK(c), c.t1 = "start_renew", NEW again \in BOOLEAN,
           NEW opened \in BOOLEAN
    PROVE  /\ ClientOK(start_renew(c, again, opened))
           /\ start_renew(c, again, opened).state = "RENEWING"
  <1> DEFINE d == [c EXCEPT !.state = "RENEWING"]
  <1>1. ClientOK(d) /\ d.lease /\ d.state = "RENEWING"
    BY DEF Clients, ClientOK, LeaseTimers
  <1> HIDE DEF d
  <1>2. ClientOK(continue_renew(d, again, opened))
        /\ continue_renew(d, again, opened).state = "RENEWING"
    BY <1>1, ContinueOK, Zenon
  <1> QED
    BY <1>2 DEF start_renew, d

\* start_rebound() fires only while the end of the lease is running.
LEMMA ReboundOK ==
    ASSUME NEW c, ClientOK(c), c.t2 = "start_rebound", NEW again \in BOOLEAN,
           NEW opened \in BOOLEAN
    PROVE  /\ ClientOK(start_rebound(c, again, opened))
           /\ start_rebound(c, again, opened).state = "REBINDING"
  <1> DEFINE d == [c EXCEPT !.state = "REBINDING", !.t1 = "none"]
  <1>1. ClientOK(d) /\ d.lease /\ d.state = "REBINDING"
    BY ZenonT(30) DEF Clients, ClientOK, LeaseTimers
  <1> HIDE DEF d
  <1>2. ClientOK(continue_rebound(d, again, opened))
        /\ continue_rebound(d, again, opened).state = "REBINDING"
    BY <1>1, ContinueOK, Zenon
  <1> QED
    BY <1>2 DEF start_rebound, d

-----------------------------------------------------------------------------
(***************************************************************************)
(* The link-local client keeps its type.                                   *)
(***************************************************************************)

\* The two orders in which a client is silenced.
LEMMA ClearedTyped ==
    ASSUME NEW c \in Clients
    PROVE  /\ switch_listening_mode(remove_timeouts(c), "L_NONE", TRUE) \in Clients
           /\ remove_timeouts(switch_listening_mode(c, "L_NONE", TRUE)) \in Clients
  <1>1. remove_timeouts(c) \in Clients
    BY RemoveEffect DEF Idle
  <1>2. switch_listening_mode(c, "L_NONE", TRUE) \in Clients
    BY SwitchEffect, Zenon DEF SameLease
  <1>3. switch_listening_mode(remove_timeouts(c), "L_NONE", TRUE) \in Clients
    BY <1>1, SwitchEffect, Zenon DEF SameLease
  <1>4. remove_timeouts(switch_listening_mode(c, "L_NONE", TRUE)) \in Clients
    BY <1>2, RemoveEffect, Zenon DEF Idle
  <1> QED
    BY <1>3, <1>4, Zenon

\* ipv4ll_start() keeps the type.
LEMMA LinkLocalStartTyped ==
    ASSUME NEW c \in Clients, NEW random \in LinkLocal
    PROVE  ipv4ll_start(c, random) \in Clients
  <1> DEFINE l == switch_listening_mode(remove_timeouts(c), "L_NONE", TRUE)
  <1>1. l \in Clients
    BY ClearedTyped, Zenon
  <1> HIDE DEF l
  <1>2. [l EXCEPT !.retry_times = 1, !.requested_ip = random,
                  !.timeout = "send_probe_packet"] \in Clients
    BY <1>1, MaybeFacts, ZenonT(40) DEF Clients
  <1> QED
    BY <1>2 DEF ipv4ll_start, l

\* ipv4ll_stop() keeps the type.
LEMMA LinkLocalStopTyped ==
    ASSUME NEW c \in Clients
    PROVE  ipv4ll_stop(c) \in Clients
  <1> DEFINE l == remove_timeouts(switch_listening_mode(c, "L_NONE", TRUE))
  <1>1. l \in Clients
    BY ClearedTyped, Zenon
  <1> HIDE DEF l
  <1>2. [l EXCEPT !.listener_watch = FALSE, !.state = "IPV4LL_PROBE", !.retry_times = 0,
                  !.requested_ip = NoAddress, !.assigned_ip = NoAddress] \in Clients
    BY <1>1, MaybeFacts, Zenon DEF Clients
  <1> QED
    BY <1>2 DEF ipv4ll_stop, l

\* A probe of the link-local client keeps the type.
LEMMA LinkLocalProbeTyped ==
    ASSUME NEW c \in Clients, NEW random \in LinkLocal, NEW opened \in BOOLEAN
    PROVE  ipv4ll_send_probe(c, random, opened) \in Clients
  <1> DEFINE p == IF c.requested_ip = NoAddress THEN [c EXCEPT !.requested_ip = random] ELSE c
             q == [p EXCEPT !.state = "IPV4LL_PROBE"]
             s == switch_listening_mode(q, "L_ARP", opened)
             l == IF p.retry_times = 1 THEN s ELSE p
  <1>1. p \in Clients
    BY MaybeFacts DEF Clients
  <1> HIDE DEF p
  <1>2. q \in Clients
    BY <1>1 DEF Clients
  <1> HIDE DEF q
  <1>3. s \in Clients
    BY <1>2, SwitchEffect DEF SameLease
  <1> HIDE DEF s
  <1>4. l \in Clients
    BY <1>1, <1>3
  <1> HIDE DEF l
  <1>5. [l EXCEPT !.timeout = "ipv4ll_probe_timeout"] \in Clients
    BY <1>4 DEF Clients
  <1> QED
    BY <1>5 DEF ipv4ll_send_probe, l, s, q, p

\* An announcement of the link-local client keeps the type.
LEMMA LinkLocalAnnounceTyped ==
    ASSUME NEW c \in Clients
    PROVE  ipv4ll_send_announce(c) \in Clients
  <1> DEFINE t == remove_timeouts(c)
  <1>1. t \in Clients
    BY RemoveEffect DEF Idle
  <1> HIDE DEF t
  <1>2. [t EXCEPT !.timeout = IF c.state = "IPV4LL_DEFEND" THEN "ipv4ll_defend_timeout"
                              ELSE "ipv4ll_announce_timeout"] \in Clients
    BY <1>1 DEF Clients
  <1> QED
    BY <1>2 DEF ipv4ll_send_announce, t

\* ipv4ll_probe_timeout() keeps the type.
LEMMA LinkLocalProbeTimeoutTyped ==
    ASSUME NEW c \in Clients, NEW random \in LinkLocal, NEW opened \in BOOLEAN
    PROVE  ipv4ll_probe_timeout(c, random, opened) \in Clients
  <1> DEFINE a == [c EXCEPT !.state = "IPV4LL_ANNOUNCE", !.retry_times = 1]
             b == [c EXCEPT !.retry_times = @ + 1]
  <1>1. a \in Clients
    BY Zenon DEF Clients
  <1>2. b \in Clients
    BY DEF Clients
  <1> HIDE DEF a, b
  <1>3. ipv4ll_send_announce(a) \in Clients /\ ipv4ll_send_probe(b, random, opened) \in Clients
    BY <1>1, <1>2, LinkLocalAnnounceTyped, LinkLocalProbeTyped
  <1> QED
    BY <1>3 DEF ipv4ll_probe_timeout, a, b

\* ipv4ll_announce_timeout() keeps the type, and reports no other event.
LEMMA LinkLocalAnnounceTimeoutTyped ==
    ASSUME NEW c \in Clients
    PROVE  /\ ipv4ll_announce_timeout(c).client \in Clients
           /\ ipv4ll_announce_timeout(c).event \in {"none", "ipv4ll_available"}
           /\ ipv4ll_announce_timeout(c).client.assigned_ip \in MaybeAddress
  <1> DEFINE a == [c EXCEPT !.retry_times = @ + 1]
             m == [c EXCEPT !.state = "IPV4LL_MONITOR", !.timeout = "none",
                            !.assigned_ip = c.requested_ip]
  <1>1. a \in Clients
    BY DEF Clients
  <1>2. m \in Clients
    BY ZenonT(30) DEF Clients
  <1> HIDE DEF a, m
  <1>3. ipv4ll_send_announce(a) \in Clients
    BY <1>1, LinkLocalAnnounceTyped
  <1>4. ipv4ll_announce_timeout(c) =
          IF c.retry_times # ANNOUNCE_NUM
          THEN [client |-> ipv4ll_send_announce(a), event |-> "none"]
          ELSE [client |-> m, event |-> "ipv4ll_available"]
    BY DEF ipv4ll_announce_timeout, a, m
  <1>5. ipv4ll_announce_timeout(c).client \in Clients
        /\ ipv4ll_announce_timeout(c).event \in {"none", "ipv4ll_available"}
    BY <1>2, <1>3, <1>4
  <1> QED
    BY <1>5 DEF Clients

\* ipv4ll_recv_arp_packet() keeps the type, and reports no other event.
LEMMA LinkLocalReceiveTyped ==
    ASSUME NEW c \in Clients, NEW source \in BOOLEAN
    PROVE  /\ ipv4ll_recv_arp_packet(c, source).client \in Clients
           /\ ipv4ll_recv_arp_packet(c, source).event \in {"none", "ipv4ll_lost"}
  <1> DEFINE d == [c EXCEPT !.state = "IPV4LL_DEFEND"]
             s == ipv4ll_stop(c)
             p == [s EXCEPT !.retry_times = 1, !.timeout = "send_probe_packet"]
  <1>1. d \in Clients
    BY DEF Clients
  <1>2. s \in Clients
    BY LinkLocalStopTyped
  <1> HIDE DEF d, s
  <1>3. p \in Clients
    BY <1>2, ZenonT(40) DEF Clients
  <1> HIDE DEF p
  <1>4. ipv4ll_send_announce(d) \in Clients
    BY <1>1, LinkLocalAnnounceTyped
  <1>5. ipv4ll_recv_arp_packet(c, source) =
          IF c.state = "IPV4LL_MONITOR" \/ (c.state = "IPV4LL_DEFEND" /\ ~source)
          THEN [client |-> IF source THEN ipv4ll_send_announce(d) ELSE c, event |-> "none"]
          ELSE [client |-> p,
                event |-> IF c.state = "IPV4LL_DEFEND" THEN "ipv4ll_lost" ELSE "none"]
    BY DEF ipv4ll_recv_arp_packet, d, p, s
  <1> QED
    BY <1>3, <1>4, <1>5

\* ipv4ll_defend_timeout() keeps the type.
LEMMA LinkLocalDefendTyped ==
    ASSUME NEW c \in Clients
    PROVE  ipv4ll_defend_timeout(c) \in Clients
  BY ZenonT(30) DEF Clients, ipv4ll_defend_timeout

-----------------------------------------------------------------------------
(***************************************************************************)
(* The safety of the IPv4 configuration of one network, for every set of   *)
(* addresses and routers, every number of retries, and with every fault    *)
(* the constants allow.                                                    *)
(***************************************************************************)

NewClient4 == g_dhcp_client_new("IPV4")

(***************************************************************************)
(* What every function of src/network.c and src/dhcp.c preserves.  That a  *)
(* lease is guarded needs the bond of state, counter and timers of the     *)
(* client (LeaseTimers); that start_bound(), which runs after the callback *)
(* of an ACK, finds a client needs that a network without DHCP has only a  *)
(* fresh one.                                                              *)
(***************************************************************************)
NetworkOK(w) ==
    /\ w \in Networks
    /\ ClientOK(w.client)
    /\ w.client.state = "BOUND" => ~w.ll_running
    /\ ~w.dhcp => w.client = NewClient4 /\ ~w.retry

\* From w to r the DHCP client and its rate limit timer are left alone or DHCP has
\* ended, and the link-local client has not started.
Kept(w, r) ==
    /\ r \in Networks
    /\ r.ll_running => w.ll_running
    /\ \/ r.client = w.client /\ (r.dhcp <=> w.dhcp) /\ (r.retry <=> w.retry)
       \/ r.client = NewClient4 /\ ~r.dhcp /\ ~r.retry

\* Kept is transitive.
LEMMA KeptTrans ==
    ASSUME NEW u, NEW v, NEW w, Kept(u, v), Kept(v, w)
    PROVE  Kept(u, w)
  BY DEF Kept

\* Kept carries the invariant over.
LEMMA KeptOK ==
    ASSUME NEW w, NEW r, NetworkOK(w), Kept(w, r)
    PROVE  NetworkOK(r)
  <1>1. CASE r.client = w.client /\ (r.dhcp <=> w.dhcp)
    BY <1>1 DEF NetworkOK, Kept
  <1>2. CASE r.client = NewClient4 /\ ~r.dhcp /\ ~r.retry
    BY <1>2, NewClient DEF NetworkOK, Kept, NewClient4
  <1> QED
    BY <1>1, <1>2 DEF Kept

\* Doing nothing keeps everything.
LEMMA KeptRefl ==
    ASSUME NEW w \in Networks
    PROVE  Kept(w, w)
  BY DEF Kept

-----------------------------------------------------------------------------
\* address_unset() touches the interface only.
LEMMA UnsetKept ==
    ASSUME NEW w \in Networks
    PROVE  Kept(w, address_unset(w))
  <1>1. [w EXCEPT !.kernel = @ \ {w.local}] \in Networks
    BY DEF Networks
  <1>2. Kept(w, [w EXCEPT !.kernel = @ \ {w.local}])
    BY <1>1 DEF Kept, Networks
  <1> QED
    BY <1>2, KeptRefl DEF address_unset

\* address_remove() touches the interface and the ipconfig only.
LEMMA RemoveKept ==
    ASSUME NEW w \in Networks
    PROVE  Kept(w, address_remove(w))
  <1> DEFINE u == address_unset(w)
             r == [u EXCEPT !.local = NoAddress, !.router = NoAddress]
  <1>1. Kept(w, u) /\ u \in Networks
    BY UnsetKept DEF Kept
  <1> HIDE DEF u
  <1>2. r \in Networks
    BY <1>1, MaybeFacts, Zenon DEF Networks, MaybeRouter
  <1>3. Kept(u, r)
    BY <1>1, <1>2 DEF Kept, Networks
  <1> HIDE DEF r
  <1>4. Kept(w, r)
    BY <1>1, <1>3, KeptTrans
  <1> QED
    BY <1>1, <1>4 DEF address_remove, r, u

-----------------------------------------------------------------------------
\* ipv4ll_stop_client() ends the link-local client.
LEMMA StopClientKept ==
    ASSUME NEW w \in Networks
    PROVE  Kept(w, ipv4ll_stop_client(w)) /\ ~ipv4ll_stop_client(w).ll_running
  <1>1. g_dhcp_client_new("IPV4LL") \in Clients
    BY NewClient DEF ClientOK
  <1>2. ipv4ll_stop_client(w) \in Networks
    BY <1>1, Zenon DEF Networks, ipv4ll_stop_client
  <1> QED
    BY <1>2 DEF Kept, Networks, ipv4ll_stop_client

\* dhcp_callback() of a failure leaves the clients alone.
LEMMA FailureKept ==
    ASSUME NEW w \in Networks
    PROVE  Kept(w, dhcp_failure(w))
  <1> DEFINE u == address_remove(w)
             r == [u EXCEPT !.connecting = FALSE, !.gateway = FALSE]
  <1>1. Kept(w, u) /\ u \in Networks
    BY RemoveKept DEF Kept
  <1> HIDE DEF u
  <1>2. r \in Networks
    BY <1>1, Zenon DEF Networks
  <1>3. Kept(u, r)
    BY <1>1, <1>2 DEF Kept, Networks
  <1> HIDE DEF r
  <1>4. Kept(w, r)
    BY <1>1, <1>3, KeptTrans
  <1> QED
    BY <1>4 DEF dhcp_failure, r, u

\* dhcp_invalidate() leaves the clients alone.
LEMMA InvalidateKept ==
    ASSUME NEW w \in Networks
    PROVE  Kept(w, Invalidate(w))
  <1> DEFINE v == [w EXCEPT !.last = w.local]
             u == address_remove(v)
             r == [u EXCEPT !.local = NoAddress, !.router = NoAddress]
  <1>1. v \in Networks
    BY DEF Networks
  <1>2. Kept(w, v)
    BY <1>1 DEF Kept, Networks
  <1> HIDE DEF v
  <1>3. Kept(v, u) /\ u \in Networks
    BY <1>1, RemoveKept DEF Kept
  <1> HIDE DEF u
  <1>4. r \in Networks
    BY <1>3, MaybeFacts, Zenon DEF Networks, MaybeRouter
  <1>5. Kept(u, r)
    BY <1>3, <1>4 DEF Kept, Networks
  <1> HIDE DEF r
  <1>6. Kept(w, r)
    BY <1>2, <1>3, <1>5, KeptTrans
  <1> QED
    BY <1>6 DEF Invalidate, r, u, v

\* dhcp_invalidate() leaves the clients alone, with its callback too.
LEMMA DhcpInvalidateKept ==
    ASSUME NEW w \in Networks, NEW called \in BOOLEAN
    PROVE  Kept(w, dhcp_invalidate(w, called))
  <1>1. Kept(w, Invalidate(w)) /\ Invalidate(w) \in Networks
    BY InvalidateKept DEF Kept
  <1>2. Kept(Invalidate(w), dhcp_failure(Invalidate(w)))
    BY <1>1, FailureKept
  <1>3. Kept(w, dhcp_failure(Invalidate(w)))
    BY <1>1, <1>2, KeptTrans
  <1> QED
    BY <1>1, <1>3 DEF dhcp_invalidate

\* __connman_dhcp_stop() ends DHCP, or finds it ended.
LEMMA DhcpStopKept ==
    ASSUME NEW w \in Networks
    PROVE  Kept(w, dhcp_stop(w))
  <1> DEFINE u == ipv4ll_stop_client(w)
             v == [u EXCEPT !.retry = FALSE, !.client = NewClient4]
             r == [v EXCEPT !.dhcp = FALSE]
  <1>1. Kept(w, u) /\ u \in Networks /\ ~u.ll_running
    BY StopClientKept DEF Kept
  <1> HIDE DEF u
  <1>2. NewClient4 \in Clients
    BY NewClient DEF ClientOK, NewClient4
  <1>3. v \in Networks /\ v.client = NewClient4 /\ ~v.retry /\ ~v.ll_running
    BY <1>1, <1>2, Zenon DEF Networks
  <1> HIDE DEF v
  <1>4. r \in Networks
    BY <1>3, Zenon DEF Networks
  <1>5. r.client = NewClient4 /\ ~r.retry /\ ~r.ll_running /\ ~r.dhcp
    BY <1>3 DEF Networks
  <1> HIDE DEF r
  <1>6. Kept(w, r)
    BY <1>4, <1>5 DEF Kept
  <1>7. Kept(r, dhcp_invalidate(r, FALSE))
    BY <1>4, DhcpInvalidateKept, Zenon
  <1>8. Kept(w, dhcp_invalidate(r, FALSE))
    BY <1>6, <1>7, KeptTrans, Zenon
  <1> QED
    BY <1>8, KeptRefl, Zenon DEF dhcp_stop, dhcp_release, r, v, u, NewClient4

\* What set_disconnected() undoes may end DHCP and starts nothing.
LEMMA UnconfigureKept ==
    ASSUME NEW w \in Networks
    PROVE  Kept(w, Unconfigure(w))
  <1> DEFINE m == [w EXCEPT !.method = "DHCP", !.dhcp_timeout = FALSE]
             d == dhcp_stop(m)
             i == IF w.method \in {"AUTO", "DHCP"} THEN d ELSE w
             u == address_unset(i)
             r == [u EXCEPT !.gateway = FALSE]
  <1>1. m \in Networks
    BY Zenon DEF Networks, Methods
  <1>2. Kept(w, m)
    BY <1>1 DEF Kept, Networks
  <1> HIDE DEF m
  <1>3. Kept(m, d)
    BY <1>1, DhcpStopKept
  <1> HIDE DEF d
  <1>4. Kept(w, d)
    BY <1>2, <1>3, KeptTrans
  <1>5. Kept(w, i) /\ i \in Networks
    BY <1>4, KeptRefl DEF Kept
  <1> HIDE DEF i
  <1>6. Kept(i, u) /\ u \in Networks
    BY <1>5, UnsetKept DEF Kept
  <1> HIDE DEF u
  <1>7. r \in Networks
    BY <1>6, Zenon DEF Networks
  <1>8. Kept(u, r)
    BY <1>6, <1>7 DEF Kept, Networks
  <1> HIDE DEF r
  <1>9. Kept(w, r)
    BY <1>5, <1>6, <1>8, KeptTrans
  <1> QED
    BY <1>9 DEF Unconfigure, r, u, i, d, m

\* set_disconnected() may end DHCP and starts nothing.
LEMMA SetDisconnectedKept ==
    ASSUME NEW w \in Networks
    PROVE  Kept(w, set_disconnected(w))
  <1> DEFINE u == IF w.connected THEN Unconfigure(w) ELSE w
             r == [u EXCEPT !.connecting = FALSE, !.connected = FALSE,
                            !.associating = FALSE, !.active = FALSE]
  <1>1. Kept(w, u) /\ u \in Networks
    BY UnconfigureKept, KeptRefl DEF Kept
  <1> HIDE DEF u
  <1>2. r \in Networks
    BY <1>1, ZenonT(30) DEF Networks
  <1>3. Kept(u, r)
    BY <1>1, <1>2 DEF Kept, Networks
  <1> HIDE DEF r
  <1>4. Kept(w, r)
    BY <1>1, <1>3, KeptTrans
  <1> QED
    BY <1>4 DEF set_disconnected, r, u

\* Stopping conflict detection leaves the clients alone.
LEMMA StopAcdKept ==
    ASSUME NEW w \in Networks
    PROVE  Kept(w, StopAcd(w))
  <1>1. acd_host_stop(w.host) \in Hosts
    BY StopEffect DEF Networks
  <1>2. StopAcd(w) \in Networks
    BY <1>1, Zenon DEF Networks, StopAcd
  <1> QED
    BY <1>2 DEF Kept, Networks, StopAcd

\* __connman_network_disconnect() may end DHCP and starts nothing.
LEMMA DisconnectKept ==
    ASSUME NEW w \in Networks
    PROVE  Kept(w, __connman_network_disconnect(w))
  <1>1. Kept(w, StopAcd(w)) /\ StopAcd(w) \in Networks
    BY StopAcdKept DEF Kept
  <1>2. Kept(StopAcd(w), set_disconnected(StopAcd(w)))
    BY <1>1, SetDisconnectedKept
  <1>3. Kept(w, set_disconnected(StopAcd(w)))
    BY <1>1, <1>2, KeptTrans
  <1> QED
    BY <1>1, <1>3 DEF __connman_network_disconnect

\* connman_network_set_error() may end DHCP and starts nothing.
LEMMA SetErrorKept ==
    ASSUME NEW w \in Networks
    PROVE  Kept(w, connman_network_set_error(w))
  <1> DEFINE a == [w EXCEPT !.active = FALSE]
  <1>1. a \in Networks
    BY Zenon DEF Networks
  <1>2. Kept(w, a)
    BY <1>1 DEF Kept, Networks
  <1> HIDE DEF a
  <1>3. Kept(a, __connman_network_disconnect(a))
    BY <1>1, DisconnectKept
  <1>4. Kept(w, __connman_network_disconnect(a))
    BY <1>2, <1>3, KeptTrans
  <1> QED
    BY <1>4 DEF connman_network_set_error, a

-----------------------------------------------------------------------------
\* What an event may find in its environment.
LEMMA EnvironmentFacts ==
    ASSUME NEW e \in Environments
    PROVE  e.opened \in BOOLEAN /\ e.random \in LinkLocal /\ e.random \in Addresses
  BY Ipv4Assumption, AcdAssumption DEF Environments

\* start_acd() leaves the clients alone.
LEMMA StartAcdKept ==
    ASSUME NEW w \in Networks, NEW e \in Environments
    PROVE  Kept(w, start_acd(w, e))
  <1>1. w.host \in Hosts /\ w.local \in Addresses \union {NoAddress}
    BY DEF Networks, MaybeAddress
  <1>2. acd_host_start(w.host, w.local, e.opened) \in Hosts
    BY <1>1, EnvironmentFacts, StartEffect
  <1>3. start_acd(w, e) \in Networks
    BY <1>2, Zenon DEF Networks, start_acd
  <1> QED
    BY <1>3 DEF Kept, Networks, start_acd

\* Putting the address on the interface may fail, which may end DHCP.
LEMMA InstallKept ==
    ASSUME NEW w \in Networks
    PROVE  Kept(w, Install(w))
  <1>1. CASE CanAdd(w)
    <2>1. (IF w.method = "OFF" THEN w.kernel ELSE w.kernel \union {w.local})
            \in SUBSET Addresses
      BY <1>1 DEF CanAdd, Networks, MaybeAddress
    <2>2. AddAddress(w) \in Networks
      BY <2>1, Zenon DEF Networks, AddAddress
    <2>3. Kept(w, AddAddress(w))
      BY <2>2 DEF Kept, Networks, AddAddress
    <2> QED
      BY <1>1, <2>3 DEF Install
  <1>2. CASE ~CanAdd(w)
    BY <1>2, SetErrorKept DEF Install
  <1> QED
    BY <1>1, <1>2

\* The configuration of an address may fail, which may end DHCP.
LEMMA ConfigureKept ==
    ASSUME NEW w \in Networks, NEW e \in Environments
    PROVE  Kept(w, Configure(w, e))
  <1> DEFINE v == [w EXCEPT !.ipv4ll_timeout = @ /\ ~w.acd]
  <1>0. (w.ipv4ll_timeout /\ ~w.acd) \in BOOLEAN
    OBVIOUS
  <1>1. v \in Networks
    BY <1>0, Zenon DEF Networks
  <1>2. Kept(w, v)
    BY <1>1 DEF Kept, Networks
  <1> HIDE DEF v
  <1>3. Kept(v, Install(v))
    BY <1>1, InstallKept
  <1>4. Kept(w, Install(v))
    BY <1>2, <1>3, KeptTrans
  <1>5. Kept(w, start_acd(w, e))
    BY StartAcdKept
  <1> QED
    BY <1>4, <1>5 DEF Configure, v

\* dhcp_success() and set_connected_manual() start no client.
LEMMA ValidKept ==
    ASSUME NEW w \in Networks, NEW e \in Environments
    PROVE  Kept(w, dhcp_valid(w, e)) /\ Kept(w, set_connected_manual(w, e))
  <1> DEFINE v == [w EXCEPT !.connecting = FALSE]
  <1>1. v \in Networks
    BY Zenon DEF Networks
  <1>2. Kept(w, v)
    BY <1>1 DEF Kept, Networks
  <1> HIDE DEF v
  <1>3. Kept(v, Configure(v, e))
    BY <1>1, ConfigureKept
  <1>4. Kept(w, Configure(v, e))
    BY <1>2, <1>3, KeptTrans
  <1> QED
    BY <1>4 DEF dhcp_valid, set_connected_manual, v

\* start_ipv4ll() leaves the clients alone: it is the ACD host that probes.
LEMMA StartLinkLocalKept ==
    ASSUME NEW w \in Networks, NEW e \in Environments
    PROVE  Kept(w, start_ipv4ll(w, e))
  <1> DEFINE v == [w EXCEPT !.local = e.random]
  <1>1. v \in Networks
    BY EnvironmentFacts, MaybeFacts DEF Networks
  <1>2. Kept(w, v)
    BY <1>1 DEF Kept, Networks
  <1> HIDE DEF v
  <1>3. Kept(v, start_acd(v, e))
    BY <1>1, StartAcdKept
  <1>4. Kept(w, start_acd(v, e))
    BY <1>2, <1>3, KeptTrans
  <1> QED
    BY <1>4 DEF start_ipv4ll, v

\* no_lease_cb() runs while the DHCP client holds no lease.
LEMMA NoLeaseOK ==
    ASSUME NEW w \in Networks, NEW e \in Environments, w.dhcp,
           ClientOK(w.client), w.client.state \notin LeaseStates
    PROVE  NetworkOK(no_lease_cb(w, e))
  <1> DEFINE v == [w EXCEPT !.retry = TRUE]
             l == ipv4ll_start_client(v, e)
  <1>1. v \in Networks
    BY Zenon DEF Networks
  <1>2. NetworkOK(v) /\ v.dhcp /\ v.client = w.client
    BY <1>1 DEF LeaseStates, NetworkOK, Networks
  <1> HIDE DEF v
  <1>3. ipv4ll_start(g_dhcp_client_new("IPV4LL"), e.random) \in Clients
    BY NewClient, EnvironmentFacts, LinkLocalStartTyped DEF ClientOK
  <1>4. l \in Networks
    BY <1>1, <1>3, Zenon DEF Networks, ipv4ll_start_client
  <1>5. l.client = w.client /\ l.dhcp
    BY <1>1, <1>2 DEF Networks, ipv4ll_start_client
  <1> HIDE DEF l
  <1>6. NetworkOK(l)
    BY <1>4, <1>5 DEF LeaseStates, NetworkOK
  <1>7. Kept(l, dhcp_invalidate(l, FALSE))
    BY <1>4, DhcpInvalidateKept, Zenon
  <1>8. NetworkOK(dhcp_invalidate(l, FALSE))
    BY <1>6, <1>7, KeptOK, Zenon
  <1> QED
    BY <1>2, <1>8, Zenon DEF no_lease_cb, l, v

\* A function of the client that ends without a lease, with its callback.
LEMMA ClientDidOK ==
    ASSUME NEW w \in Networks, NEW r, NEW e \in Environments, w.dhcp, Started(r)
    PROVE  NetworkOK(ClientDid(w, r, e))
  <1> DEFINE v == [w EXCEPT !.client = r.client]
  <1>1. r.client \in Clients /\ ClientOK(r.client) /\ r.client.state \notin LeaseStates
    BY DEF Started, ClientOK
  <1>2. v \in Networks
    BY <1>1 DEF Networks
  <1>3. v.client = r.client /\ v.dhcp
    BY DEF Networks
  <1> HIDE DEF v
  <1>4. NetworkOK(v)
    BY <1>1, <1>2, <1>3 DEF LeaseStates, NetworkOK
  <1>5. NetworkOK(no_lease_cb(v, e))
    BY <1>1, <1>2, <1>3, NoLeaseOK
  <1> QED
    BY <1>4, <1>5 DEF ClientDid, v

\* __connman_dhcp_start() starts the client of the network.
LEMMA DhcpStartOK ==
    ASSUME NEW w, NetworkOK(w), NEW e \in Environments
    PROVE  NetworkOK(dhcp_start(w, e))
  <1> DEFINE v == [w EXCEPT !.dhcp = TRUE]
  <1>1. w \in Networks /\ ClientOK(w.client) /\ w.last \in MaybeAddress
    BY DEF NetworkOK, Networks
  <1>2. v \in Networks /\ v.dhcp
    BY <1>1, Zenon DEF Networks
  <1> HIDE DEF v
  <1>3. Started(g_dhcp_client_start(w.client, w.last, e.opened))
    BY <1>1, EnvironmentFacts, StartOK
  <1>4. NetworkOK(ClientDid(v, g_dhcp_client_start(w.client, w.last, e.opened), e))
    BY <1>2, <1>3, ClientDidOK
  <1> QED
    BY <1>4 DEF dhcp_start, v

\* set_connected_dhcp() keeps the invariant.
LEMMA SetConnectedDhcpOK ==
    ASSUME NEW w, NetworkOK(w), NEW e \in Environments
    PROVE  NetworkOK(set_connected_dhcp(w, e))
  <1> DEFINE v == [w EXCEPT !.dhcp_timeout = FALSE]
  <1>1. v \in Networks
    BY Zenon DEF Networks, NetworkOK
  <1>2. Kept(w, v)
    BY <1>1 DEF Kept, Networks, NetworkOK
  <1> HIDE DEF v
  <1>3. NetworkOK(v)
    BY <1>2, KeptOK
  <1>4. NetworkOK(dhcp_start(v, e))
    BY <1>3, DhcpStartOK
  <1> QED
    BY <1>4 DEF set_connected_dhcp, v

\* __connman_network_enable_ipconfig() keeps the invariant, for every method.
LEMMA EnableOK ==
    ASSUME NEW w, NetworkOK(w), NEW e \in Environments
    PROVE  NetworkOK(__connman_network_enable_ipconfig(w, e))
  <1> DEFINE v == [w EXCEPT !.active = TRUE]
             d == set_connected_dhcp(v, e)
  <1>1. v \in Networks
    BY Zenon DEF Networks, NetworkOK
  <1>2. Kept(w, v)
    BY <1>1 DEF Kept, Networks, NetworkOK
  <1> HIDE DEF v
  <1>3. NetworkOK(v)
    BY <1>2, KeptOK
  <1>4. NetworkOK(d) /\ d \in Networks
    BY <1>3, SetConnectedDhcpOK DEF NetworkOK
  <1> HIDE DEF d
  <1>5. Kept(d, connman_network_set_error(d))
    BY <1>4, SetErrorKept
  <1>6. NetworkOK(connman_network_set_error(d))
    BY <1>4, <1>5, KeptOK
  <1>7. NetworkOK(EnableDhcp(v, e))
    BY <1>4, <1>6 DEF EnableDhcp, d
  <1>8. Kept(v, connman_network_set_error(v)) /\ Kept(v, set_connected_manual(v, e))
    BY <1>1, SetErrorKept, ValidKept
  <1>9. NetworkOK(connman_network_set_error(v)) /\ NetworkOK(set_connected_manual(v, e))
    BY <1>3, <1>8, KeptOK
  <1>10. v.method \in {"OFF", "MANUAL", "DHCP", "AUTO"}
    BY <1>1 DEF Networks, Methods
  <1>11. NetworkOK(EnableMethod(v, e))
    BY <1>3, <1>7, <1>9, <1>10 DEF EnableMethod
  <1> QED
    BY <1>11 DEF __connman_network_enable_ipconfig, v

-----------------------------------------------------------------------------
\* The end of lease_available_cb() starts no client.
LEMMA LeasedKept ==
    ASSUME NEW w \in Networks, NEW address \in Addresses, NEW router \in MaybeRouter,
           NEW changed, NEW e \in Environments
    PROVE  Kept(w, Leased(w, address, router, changed, e))
  <1> DEFINE v == [w EXCEPT !.local = address, !.router = router]
  <1>1. v \in Networks
    BY MaybeFacts, Zenon DEF Networks
  <1>2. Kept(w, v)
    BY <1>1 DEF Kept, Networks
  <1> HIDE DEF v
  <1>3. Kept(v, dhcp_valid(v, e))
    BY <1>1, ValidKept
  <1>4. Kept(w, dhcp_valid(v, e))
    BY <1>2, <1>3, KeptTrans
  <1> QED
    BY <1>4, KeptRefl DEF Leased, v

\* The middle of lease_available_cb() starts no client.
LEMMA LeaseRouterKept ==
    ASSUME NEW w \in Networks, NEW address \in Addresses, NEW router \in MaybeRouter,
           NEW resized, NEW c_gateway \in MaybeRouter, NEW e \in Environments
    PROVE  Kept(w, LeaseRouter(w, address, router, resized, c_gateway, e))
  <1> DEFINE u == IF w.local \notin {address, NoAddress} THEN address_remove(w) ELSE w
             b == u.gateway /\ (router = c_gateway \/ c_gateway = NoAddress)
             v == [u EXCEPT !.last = address, !.method = "DHCP", !.gateway = b]
             changed == w.local # address \/ router # c_gateway \/ resized
  <1>1. Kept(w, u) /\ u \in Networks
    BY RemoveKept, KeptRefl DEF Kept
  <1> HIDE DEF u
  <1>2. b \in BOOLEAN
    OBVIOUS
  <1>3. LeaseRouter(w, address, router, resized, c_gateway, e)
          = Leased(v, address, router, changed, e)
    BY DEF LeaseRouter, u
  <1> HIDE DEF b, changed
  <1>4. v \in Networks
    BY <1>1, <1>2, MaybeFacts, Zenon DEF Networks, Methods
  <1>5. Kept(u, v)
    BY <1>1, <1>4 DEF Kept, Networks
  <1> HIDE DEF v
  <1>6. Kept(v, Leased(v, address, router, changed, e))
    BY <1>4, LeasedKept
  <1> QED
    BY <1>1, <1>3, <1>5, <1>6, KeptTrans

\* lease_available_cb() after the link-local client is stopped.
LEMMA LeaseAddressKept ==
    ASSUME NEW w \in Networks, NEW address \in Addresses, NEW router \in MaybeRouter,
           NEW resized, NEW e \in Environments
    PROVE  Kept(w, LeaseAddress(w, address, router, resized, e))
  <1> DEFINE g == IF w.local \notin {address, NoAddress} /\ w.method \in {"AUTO", "DHCP"}
                  THEN NoAddress ELSE w.router
  <1>1. g \in MaybeRouter
    BY DEF Networks, MaybeRouter
  <1> HIDE DEF g
  <1>2. Kept(w, LeaseRouter(w, address, router, resized, g, e))
    BY <1>1, LeaseRouterKept
  <1> QED
    BY <1>2 DEF LeaseAddress, g

\* lease_available_cb() leaves no link-local client running.
LEMMA LeaseAvailableKept ==
    ASSUME NEW w \in Networks, NEW address \in Addresses, NEW router \in MaybeRouter,
           NEW resized, NEW e \in Environments
    PROVE  /\ Kept(w, lease_available_cb(w, address, router, resized, e))
           /\ ~lease_available_cb(w, address, router, resized, e).ll_running
  <1> DEFINE s == ipv4ll_stop_client(w)
             d == dhcp_invalidate(s, FALSE)
             u == IF w.ll_running THEN d ELSE w
  <1>1. Kept(w, s) /\ s \in Networks /\ ~s.ll_running
    BY StopClientKept DEF Kept
  <1> HIDE DEF s
  <1>2. Kept(s, d)
    BY <1>1, DhcpInvalidateKept, Zenon
  <1> HIDE DEF d
  <1>3. Kept(w, d) /\ ~d.ll_running
    BY <1>1, <1>2, KeptTrans DEF Kept
  <1>4. Kept(w, u) /\ u \in Networks /\ ~u.ll_running
    BY <1>3, KeptRefl DEF Kept
  <1> HIDE DEF u
  <1>5. Kept(u, LeaseAddress(u, address, router, resized, e))
    BY <1>4, LeaseAddressKept
  <1>6. ~LeaseAddress(u, address, router, resized, e).ll_running
    BY <1>4, <1>5 DEF Kept
  <1>7. Kept(w, LeaseAddress(u, address, router, resized, e))
    BY <1>4, <1>5, KeptTrans
  <1> QED
    BY <1>6, <1>7, Zenon DEF lease_available_cb, u, d, s

\* The callbacks of the link-local client keep the invariant.
LEMMA LinkLocalDidOK ==
    ASSUME NEW w, NetworkOK(w), NEW event \in {"none", "ipv4ll_available", "ipv4ll_lost"},
           NEW e \in Environments
    PROVE  NetworkOK(LinkLocalDid(w, event, e))
  <1> DEFINE v == [w EXCEPT !.method = "AUTO", !.local = w.ll.assigned_ip,
                            !.router = NoAddress]
             s == ipv4ll_stop_client(w)
  <1>1. w \in Networks /\ w.ll.assigned_ip \in MaybeAddress
    BY DEF NetworkOK, Networks, Clients
  <1>2. v \in Networks
    BY <1>1, MaybeFacts, Zenon DEF Networks, Methods, MaybeRouter
  <1>3. Kept(w, v)
    BY <1>1, <1>2 DEF Kept, Networks
  <1>4. Kept(w, s) /\ s \in Networks
    BY <1>1, StopClientKept DEF Kept
  <1> HIDE DEF v, s
  <1>5. Kept(v, dhcp_valid(v, e)) /\ Kept(s, dhcp_invalidate(s, TRUE))
    BY <1>2, <1>4, ValidKept, DhcpInvalidateKept, Zenon
  <1>6. NetworkOK(dhcp_valid(v, e)) /\ NetworkOK(dhcp_invalidate(s, TRUE))
    BY <1>3, <1>4, <1>5, KeptTrans, KeptOK, Zenon
  <1>7. NetworkOK(ipv4ll_available_cb(w, e)) /\ NetworkOK(ipv4ll_lost_cb(w))
    BY <1>6, Zenon DEF ipv4ll_available_cb, ipv4ll_lost_cb, v, s
  <1> QED
    BY <1>7 DEF LinkLocalDid

\* acd_host_ipv4_lost() keeps the invariant.
LEMMA LostOK ==
    ASSUME NEW w, NetworkOK(w), NEW e \in Environments
    PROVE  NetworkOK(acd_host_ipv4_lost(w, e))
  <1> DEFINE u == address_remove(w)
  <1>1. Kept(w, u) /\ u \in Networks
    BY RemoveKept DEF Kept, NetworkOK
  <1> HIDE DEF u
  <1>2. NetworkOK(u)
    BY <1>1, KeptOK
  <1>3. NetworkOK(__connman_network_enable_ipconfig(u, e))
    BY <1>2, EnableOK
  <1>4. Kept(u, start_ipv4ll(u, e))
    BY <1>1, StartLinkLocalKept
  <1>5. NetworkOK(start_ipv4ll(u, e))
    BY <1>2, <1>4, KeptOK
  <1> QED
    BY <1>3, <1>5 DEF acd_host_ipv4_lost, u

\* __connman_dhcp_decline() keeps the invariant.
LEMMA DhcpDeclineOK ==
    ASSUME NEW w, NetworkOK(w)
    PROVE  NetworkOK(dhcp_decline(w))
  <1> DEFINE v == [w EXCEPT !.client = g_dhcp_client_decline(@)]
  <1>1. CASE w.dhcp /\ w.local # NoAddress
    <2>1. w \in Networks /\ ClientOK(g_dhcp_client_decline(w.client))
          /\ g_dhcp_client_decline(w.client).state = "DECLINED"
      BY DeclineOK DEF NetworkOK
    <2>2. v \in Networks
      BY <2>1 DEF Networks, ClientOK
    <2>3. v.client = g_dhcp_client_decline(w.client) /\ (v.dhcp <=> w.dhcp)
      BY <2>1 DEF Networks
    <2> HIDE DEF v
    <2>4. NetworkOK(v)
      BY <1>1, <2>1, <2>2, <2>3 DEF NetworkOK
    <2> QED
      BY <1>1, <2>4 DEF dhcp_decline, v
  <1>2. CASE ~(w.dhcp /\ w.local # NoAddress)
    BY <1>2 DEF dhcp_decline
  <1> QED
    BY <1>1, <1>2

\* acd_host_ipv4_conflict() keeps the invariant.
LEMMA ConflictOK ==
    ASSUME NEW w, NetworkOK(w), NEW e \in Environments
    PROVE  NetworkOK(acd_host_ipv4_conflict(w, e))
  <1> DEFINE d == dhcp_decline(w)
             p == [d EXCEPT !.dhcp_timeout = TRUE, !.local = NoAddress]
             m == [w EXCEPT !.method = "AUTO"]
             a == dhcp_decline(m)
  <1>1. NetworkOK(d) /\ d \in Networks
    BY DhcpDeclineOK DEF NetworkOK
  <1> HIDE DEF d
  <1>2. p \in Networks
    BY <1>1, MaybeFacts, Zenon DEF Networks
  <1>3. Kept(d, p)
    BY <1>1, <1>2 DEF Kept, Networks
  <1>4. m \in Networks
    BY DEF NetworkOK, Networks, Methods
  <1>5. Kept(w, m)
    BY <1>4 DEF Kept, NetworkOK, Networks
  <1> HIDE DEF p, m
  <1>6. NetworkOK(p) /\ NetworkOK(m)
    BY <1>1, <1>3, <1>5, KeptOK
  <1>7. NetworkOK(a) /\ a \in Networks /\ w \in Networks
    BY <1>6, DhcpDeclineOK DEF NetworkOK
  <1> HIDE DEF a
  <1>8. Kept(a, start_ipv4ll(a, e)) /\ Kept(w, start_ipv4ll(w, e))
    BY <1>7, StartLinkLocalKept
  <1>9. NetworkOK(start_ipv4ll(a, e)) /\ NetworkOK(start_ipv4ll(w, e))
    BY <1>7, <1>8, KeptOK
  <1> QED
    BY <1>6, <1>9 DEF acd_host_ipv4_conflict, p, d, a, m

\* The callbacks of the ACD host keep the invariant.
LEMMA HostDidOK ==
    ASSUME NEW w, NetworkOK(w), NEW called \in Callbacks, NEW e \in Environments
    PROVE  NetworkOK(HostDid(w, called, e))
  <1>1. w \in Networks
    BY DEF NetworkOK
  <1>2. Kept(w, acd_host_ipv4_available(w))
    BY <1>1, InstallKept DEF acd_host_ipv4_available
  <1>3. acd_host_ipv4_maxconflict(w) \in Networks
    BY <1>1, Zenon DEF Networks, acd_host_ipv4_maxconflict
  <1>4. Kept(w, acd_host_ipv4_maxconflict(w))
    BY <1>1, <1>3 DEF Kept, Networks, acd_host_ipv4_maxconflict
  <1>5. NetworkOK(acd_host_ipv4_available(w)) /\ NetworkOK(acd_host_ipv4_maxconflict(w))
    BY <1>2, <1>4, KeptOK
  <1>6. NetworkOK(acd_host_ipv4_lost(w, e)) /\ NetworkOK(acd_host_ipv4_conflict(w, e))
    BY LostOK, ConflictOK
  <1> QED
    BY <1>5, <1>6 DEF HostDid, Callbacks

\* A step of the link-local client or of the ACD host alone.
LEMMA OthersKept ==
    ASSUME NEW w, NetworkOK(w), NEW c \in Clients, NEW h \in Hosts
    PROVE  NetworkOK([w EXCEPT !.ll = c]) /\ NetworkOK([w EXCEPT !.host = h])
  <1>1. [w EXCEPT !.ll = c] \in Networks
    BY DEF NetworkOK, Networks
  <1>2. [w EXCEPT !.host = h] \in Networks
    BY DEF NetworkOK, Networks
  <1>3. Kept(w, [w EXCEPT !.ll = c]) /\ Kept(w, [w EXCEPT !.host = h])
    BY <1>1, <1>2 DEF Kept, NetworkOK, Networks
  <1> QED
    BY <1>3, KeptOK

-----------------------------------------------------------------------------
\* Events.
IInv == NetworkOK(n)

\* A new network satisfies the invariant.
LEMMA InitHolds == Init => IInv
  <1> SUFFICES ASSUME Init PROVE NetworkOK(n)
    BY DEF IInv
  <1>1. /\ ClientOK(NewClient4) /\ NewClient4.state = "INIT_SELECTING"
        /\ NewClient4 \in Clients /\ g_dhcp_client_new("IPV4LL") \in Clients
    BY NewClient DEF NewClient4, ClientOK
  <1>2. acd_host_new \in Hosts
    BY AcdAssumption DEF Hosts, acd_host_new, AcdStates, Timers
  <1>3. n.client = NewClient4 /\ ~n.retry
    BY Zenon DEF Init, NewClient4
  <1>4. n \in Networks
    BY <1>1, <1>2, MaybeFacts, Zenon DEF Init, Networks, NewClient4, Methods, MaybeRouter
  <1> QED
    BY <1>1, <1>3, <1>4 DEF NetworkOK

\* A new client has no timer and hears nothing: DHCP runs when one fires.
LEMMA DhcpRuns ==
    ASSUME NEW w, NetworkOK(w),
           \/ w.client.timeout # "none" \/ w.client.t1 # "none" \/ w.client.t2 # "none"
           \/ w.client.lease \/ w.client.listen_mode # "L_NONE" \/ w.retry
    PROVE  w.dhcp
  BY DEF NetworkOK, NewClient4, g_dhcp_client_new

\* A step of the DHCP client alone, from a network in which DHCP runs.
LEMMA ClientStep ==
    ASSUME NEW w, NetworkOK(w), w.dhcp, NEW c, ClientOK(c),
           c.state # "BOUND" \/ c.state = w.client.state
    PROVE  NetworkOK([w EXCEPT !.client = c])
  <1> DEFINE v == [w EXCEPT !.client = c]
  <1>1. v \in Networks
    BY DEF Networks, ClientOK, NetworkOK
  <1>2. v.client = c /\ v.dhcp /\ (v.ll_running <=> w.ll_running)
    BY DEF Networks, NetworkOK
  <1> HIDE DEF v
  <1>3. NetworkOK(v)
    BY <1>1, <1>2 DEF NetworkOK
  <1> QED
    BY <1>3 DEF v

\* A new IPv4 configuration keeps the invariant.
LEMMA ReconfigureOK ==
    ASSUME NEW w, NetworkOK(w), NEW method \in Methods, NEW address \in MaybeAddress,
           NEW e \in Environments
    PROVE  NetworkOK(Reconfigured(w, method, address, e))
  <1>1. \A v : NetworkOK(v) => NetworkOK(NewIpconfig(v, method, address))
    <2> SUFFICES ASSUME NEW v, NetworkOK(v)
                 PROVE  NetworkOK(NewIpconfig(v, method, address))
      OBVIOUS
    <2>1. NewIpconfig(v, method, address) \in Networks
      BY MaybeFacts, Zenon DEF NetworkOK, Networks, NewIpconfig, MaybeRouter
    <2>2. Kept(v, NewIpconfig(v, method, address))
      BY <2>1 DEF Kept, NetworkOK, Networks, NewIpconfig
    <2> QED
      BY <2>2, KeptOK
  <1> DEFINE t == [w EXCEPT !.dhcp_timeout = FALSE]
             c == clear_ipconfig(w)
  <1>2. t \in Networks
    BY Zenon DEF NetworkOK, Networks
  <1>3. Kept(w, t)
    BY <1>2 DEF Kept, NetworkOK, Networks
  <1> HIDE DEF t
  <1>4. Kept(t, dhcp_stop(t)) /\ Kept(w, address_remove(w)) /\ Kept(w, w)
    BY <1>2, DhcpStopKept, RemoveKept, KeptRefl DEF NetworkOK
  <1>5. Kept(w, dhcp_stop(t))
    BY <1>3, <1>4, KeptTrans
  <1>6. Kept(w, c)
    BY <1>4, <1>5 DEF clear_ipconfig, t
  <1> HIDE DEF c
  <1>7. NetworkOK(c)
    BY <1>6, KeptOK
  <1>8. NetworkOK(__connman_network_enable_ipconfig(NewIpconfig(c, method, address), e))
    BY <1>1, <1>7, EnableOK
  <1> QED
    BY <1>1, <1>8 DEF Reconfigured, c

\* An ACK without a server identifier leaves a rebooting client without timers.
LEMMA IgnoredOK ==
    ASSUME NEW w, NetworkOK(w), ClientHears(w.client), NEW address \in Addresses,
           w.client.state = "REBOOTING"
    PROVE  NetworkOK([w EXCEPT !.client = ReceiveAck(@, address)])
  <1> DEFINE a == ReceiveAck(w.client, address)
             v == [w EXCEPT !.client = a]
  <1>1. Idle(a) /\ a.state = "REBOOTING"
    BY AckEffect DEF NetworkOK, ClientOK
  <1>2. w.dhcp
    BY DhcpRuns DEF ClientHears
  <1> HIDE DEF a
  <1>3. ClientOK(a)
    BY <1>1, IdleOK
  <1>4. v \in Networks
    BY <1>3 DEF NetworkOK, Networks, ClientOK
  <1>5. v.client = a /\ v.dhcp
    BY <1>2 DEF NetworkOK, Networks
  <1> HIDE DEF v
  <1>6. NetworkOK(v)
    BY <1>1, <1>3, <1>4, <1>5 DEF NetworkOK
  <1> QED
    BY <1>6 DEF v, a

\* An ACK: the callback may end DHCP, otherwise start_bound() follows.
LEMMA AckOK ==
    ASSUME NEW w, NetworkOK(w), ClientHears(w.client), NEW address \in Addresses,
           NEW router \in MaybeRouter, NEW resized, NEW e \in Environments
    PROVE  NetworkOK(Bound(lease_available_cb([w EXCEPT !.client = ReceiveAck(@, address)],
                                              address, router, resized, e)))
  <1> DEFINE a == ReceiveAck(w.client, address)
             v == [w EXCEPT !.client = a]
             l == lease_available_cb(v, address, router, resized, e)
             b == [l EXCEPT !.client = start_bound(@)]
  <1>1. Idle(a) /\ a \in Clients /\ a.retry_times = 0
    BY AckEffect DEF NetworkOK, ClientOK, Idle
  <1>2. w.dhcp
    BY DhcpRuns DEF ClientHears
  <1> HIDE DEF a
  <1>3. v \in Networks
    BY <1>1 DEF NetworkOK, Networks
  <1>4. v.client = a /\ v.dhcp
    BY <1>2 DEF NetworkOK, Networks
  <1> HIDE DEF v
  <1>5. Kept(v, l) /\ ~l.ll_running /\ l \in Networks
    BY <1>3, LeaseAvailableKept DEF Kept
  <1> HIDE DEF l
  <1>6. CASE l.dhcp
    <2>1. l.client = a
      BY <1>4, <1>5, <1>6 DEF Kept
    <2>2. ClientOK(start_bound(a))
      BY <1>1, BoundOK
    <2>3. b \in Networks
      BY <1>5, <2>1, <2>2 DEF Networks, ClientOK
    <2>4. b.client = start_bound(a) /\ b.dhcp /\ ~b.ll_running
      BY <1>5, <1>6, <2>1 DEF Networks
    <2> HIDE DEF b
    <2>5. NetworkOK(b)
      BY <2>2, <2>3, <2>4 DEF NetworkOK
    <2> QED
      BY <1>6, <2>5 DEF Bound, b, l, v, a
  <1>7. CASE ~l.dhcp
    <2>1. l.client = NewClient4 /\ ~l.retry
      BY <1>4, <1>5, <1>7 DEF Kept
    <2>2. NetworkOK(l)
      BY <1>5, <1>7, <2>1, NewClient DEF NetworkOK, NewClient4
    <2> QED
      BY <1>7, <2>2 DEF Bound, l, v, a
  <1> QED
    BY <1>6, <1>7

(***************************************************************************)
(* Every event keeps the invariant.  A timer of the DHCP client finds      *)
(* DHCP running and, by LeaseTimers, a lease only where it belongs to one. *)
(***************************************************************************)
LEMMA StepHolds == IInv /\ [Next]_n => IInv'
<1> SUFFICES ASSUME NetworkOK(n), [Next]_n PROVE NetworkOK(n')
  BY DEF IInv
<1>0. n \in Networks /\ ClientOK(n.client) /\ n.client \in Clients /\ n.ll \in Clients
      /\ n.host \in Hosts /\ n.last \in MaybeAddress
  BY DEF NetworkOK, Networks
<1>1. CASE Connect
  <2>1. n' \in Networks
    BY <1>0, <1>1, Zenon DEF Connect, Networks
  <2>2. Kept(n, n')
    BY <1>0, <1>1, <2>1 DEF Connect, Kept, Networks
  <2> QED
    BY <2>2, KeptOK
<1>2. CASE LinkLost
  BY <1>0, <1>2, SetErrorKept, SetDisconnectedKept, KeptOK DEF LinkLost
<1>3. CASE Disconnect
  BY <1>0, <1>3, DisconnectKept, KeptOK DEF Disconnect
<1>4. CASE Nak
  <2>1. n.dhcp
    BY <1>4, DhcpRuns DEF Nak, ClientHears
  <2>2. ClientOK(ReceiveNak(n.client)) /\ ReceiveNak(n.client).state # "BOUND"
    BY <1>0, <1>4, NakOK DEF Nak, AwaitsAck
  <2> QED
    BY <1>0, <1>4, <2>1, <2>2, ClientStep DEF Nak
<1>5. ASSUME NEW e \in Environments, SetConnected(e) PROVE NetworkOK(n')
  <2> DEFINE v == [n EXCEPT !.associating = FALSE, !.connected = TRUE]
  <2>1. v \in Networks
    BY <1>0, Zenon DEF Networks
  <2>2. Kept(n, v)
    BY <1>0, <2>1 DEF Kept, Networks
  <2> HIDE DEF v
  <2>3. NetworkOK(v)
    BY <2>2, KeptOK
  <2>4. NetworkOK(__connman_network_enable_ipconfig(v, e))
    BY <2>3, EnableOK
  <2> QED
    BY <1>5, <2>4 DEF SetConnected, v
<1>6. ASSUME NEW e \in Environments, NEW method \in Methods, NEW address \in MaybeAddress,
             Reconfigure(method, address, e)
      PROVE  NetworkOK(n')
  BY <1>6, ReconfigureOK DEF Reconfigure
<1>7. ASSUME NEW e \in Environments, ClientTimeout(e) PROVE NetworkOK(n')
  <2>1. n.dhcp /\ e.opened \in BOOLEAN
    BY <1>7, DhcpRuns, EnvironmentFacts DEF ClientTimeout
  <2>2. CASE n.client.timeout = "discover_timeout"
             /\ n' = ClientDid(n, discover_timeout(n.client, e.opened), e)
    BY <1>0, <2>1, <2>2, DiscoverTimeoutOK, ClientDidOK
  <2>3. CASE n.client.timeout = "request_timeout"
             /\ n' = ClientDid(n, request_timeout(n.client, e.opened), e)
    BY <1>0, <2>1, <2>3, RequestTimeoutOK, ClientDidOK
  <2>4. CASE n.client.timeout = "reboot_timeout"
             /\ n' = ClientDid(n, reboot_timeout(n.client, e.opened), e)
    BY <1>0, <2>1, <2>4, RebootTimeoutOK, ClientDidOK
  <2>5. CASE n' = ClientDid(n, restart_dhcp_timeout(n.client, e.opened), e)
    BY <1>0, <2>1, <2>5, RestartTimeoutOK, ClientDidOK
  <2> QED
    BY <1>7, <2>2, <2>3, <2>4, <2>5 DEF ClientTimeout
<1>8. ASSUME NEW e \in Environments, NEW again \in BOOLEAN, Renew(again, e)
      PROVE  NetworkOK(n')
  <2>1. n.dhcp /\ e.opened \in BOOLEAN
    BY <1>8, DhcpRuns, EnvironmentFacts DEF Renew
  <2>2. CASE n.client.t1 = "start_renew"
             /\ n' = [n EXCEPT !.client = start_renew(@, again, e.opened)]
    <3>1. ClientOK(start_renew(n.client, again, e.opened))
          /\ start_renew(n.client, again, e.opened).state # "BOUND"
      BY <1>0, <2>1, <2>2, RenewOK
    <3> QED
      BY <1>0, <2>1, <2>2, <3>1, ClientStep
  <2>3. CASE n.client.t1 = "continue_renew"
             /\ n' = [n EXCEPT !.client = continue_renew(@, again, e.opened)]
    <3>1. n.client.lease
      BY <1>0, <2>3 DEF ClientOK, LeaseTimers
    <3>2. ClientOK(continue_renew(n.client, again, e.opened))
          /\ continue_renew(n.client, again, e.opened).state = n.client.state
      BY <1>0, <2>1, <3>1, ContinueOK, Zenon
    <3> QED
      BY <2>1, <2>3, <3>2, ClientStep
  <2> QED
    BY <1>8, <2>2, <2>3 DEF Renew
<1>9. ASSUME NEW e \in Environments, NEW again \in BOOLEAN, Rebind(again, e)
      PROVE  NetworkOK(n')
  <2>1. n.dhcp /\ e.opened \in BOOLEAN
    BY <1>9, DhcpRuns, EnvironmentFacts DEF Rebind
  <2>2. CASE n.client.t2 = "start_rebound"
             /\ n' = [n EXCEPT !.client = start_rebound(@, again, e.opened)]
    <3>1. ClientOK(start_rebound(n.client, again, e.opened))
          /\ start_rebound(n.client, again, e.opened).state # "BOUND"
      BY <1>0, <2>1, <2>2, ReboundOK
    <3> QED
      BY <2>1, <2>2, <3>1, ClientStep
  <2>3. CASE n.client.t2 = "continue_rebound"
             /\ n' = [n EXCEPT !.client = continue_rebound(@, again, e.opened)]
    <3>1. n.client.lease
      BY <1>0, <2>3 DEF ClientOK, LeaseTimers
    <3>2. ClientOK(continue_rebound(n.client, again, e.opened))
          /\ continue_rebound(n.client, again, e.opened).state = n.client.state
      BY <1>0, <2>1, <3>1, ContinueOK, Zenon
    <3> QED
      BY <2>1, <2>3, <3>2, ClientStep
  <2> QED
    BY <1>9, <2>2, <2>3 DEF Rebind
<1>10. ASSUME NEW e \in Environments, Expire(e) PROVE NetworkOK(n')
  <2> DEFINE d == ClientDid(n, start_expire(n.client, e.opened), e)
  <2>1. n.dhcp /\ e.opened \in BOOLEAN
    BY <1>10, DhcpRuns, EnvironmentFacts DEF Expire
  <2>2. NetworkOK(d) /\ d \in Networks
    BY <1>0, <2>1, ExpireOK, ClientDidOK DEF NetworkOK
  <2> HIDE DEF d
  <2>3. Kept(d, dhcp_invalidate(d, TRUE))
    BY <2>2, DhcpInvalidateKept, Zenon
  <2>4. NetworkOK(dhcp_invalidate(d, TRUE))
    BY <2>2, <2>3, KeptOK, Zenon
  <2> QED
    BY <1>10, <2>4, Zenon DEF Expire, lease_lost_cb, d
<1>11. ASSUME NEW e \in Environments, NEW a \in Leasable, NEW named \in ServerIds,
              Offer(a, named, e)
       PROVE  NetworkOK(n')
  <2>1. /\ n.dhcp /\ e.opened \in BOOLEAN /\ a \in Addresses /\ named \in BOOLEAN
        /\ n.client.state = "INIT_SELECTING"
    BY <1>11, DhcpRuns, EnvironmentFacts, Ipv4Assumption DEF Offer, ClientHears, Leasable
  <2>2. Started(ReceiveOffer(n.client, a, named, e.opened))
    BY <1>0, <2>1, OfferOK
  <2> QED
    BY <1>0, <1>11, <2>1, <2>2, ClientDidOK DEF Offer
<1>12. ASSUME NEW e \in Environments, NEW a \in Leasable, NEW named \in ServerIds,
              NEW r \in MaybeRouter, NEW resized \in BOOLEAN, Ack(a, r, resized, named, e)
       PROVE  NetworkOK(n')
  <2>1. a \in Addresses /\ ClientHears(n.client)
    BY <1>12 DEF Ack, Leasable
  <2>2. CASE Ignores(n.client, named)
    BY <1>12, <2>1, <2>2, IgnoredOK DEF Ack, Ignores
  <2>3. CASE ~Ignores(n.client, named)
    BY <1>12, <2>1, <2>3, AckOK DEF Ack
  <2> QED
    BY <2>2, <2>3
<1>13. ASSUME NEW e \in Environments, dhcp_retry_cb(e) PROVE NetworkOK(n')
  <2> DEFINE v == [n EXCEPT !.retry = FALSE]
  <2>1. n.dhcp /\ e.opened \in BOOLEAN
    BY <1>13, DhcpRuns, EnvironmentFacts DEF dhcp_retry_cb
  <2>2. v \in Networks /\ v.dhcp
    BY <1>0, <2>1, Zenon DEF Networks
  <2> HIDE DEF v
  <2>3. Started(g_dhcp_client_start(n.client, n.last, e.opened))
    BY <1>0, <2>1, StartOK
  <2>4. NetworkOK(ClientDid(v, g_dhcp_client_start(n.client, n.last, e.opened), e))
    BY <2>2, <2>3, ClientDidOK
  <2> QED
    BY <1>13, <2>4 DEF dhcp_retry_cb, v
<1>14. ASSUME NEW e \in Environments, set_connected_dhcp_timout(e) PROVE NetworkOK(n')
  <2> DEFINE v == [n EXCEPT !.dhcp_timeout = FALSE]
  <2>1. v \in Networks
    BY <1>0, Zenon DEF Networks
  <2>2. Kept(n, v)
    BY <1>0, <2>1 DEF Kept, Networks
  <2> HIDE DEF v
  <2>3. NetworkOK(v)
    BY <2>2, KeptOK
  <2>4. NetworkOK(set_connected_dhcp(n, e))
    BY SetConnectedDhcpOK
  <2> QED
    BY <1>14, <2>3, <2>4 DEF set_connected_dhcp_timout, v
<1>15. ASSUME NEW e \in Environments, start_ipv4ll_ontimeout(e) PROVE NetworkOK(n')
  BY <1>0, <1>15, StartLinkLocalKept, KeptOK DEF start_ipv4ll_ontimeout
<1>16. ASSUME NEW e \in Environments, LinkLocalTimeout(e) PROVE NetworkOK(n')
  <2>1. e.opened \in BOOLEAN /\ e.random \in LinkLocal
    BY EnvironmentFacts
  <2>2. CASE n' = [n EXCEPT !.ll = ipv4ll_send_probe(@, e.random, e.opened)]
    BY <1>0, <2>1, <2>2, LinkLocalProbeTyped, OthersKept, Zenon
  <2>3. CASE n' = [n EXCEPT !.ll = ipv4ll_probe_timeout(@, e.random, e.opened)]
    BY <1>0, <2>1, <2>3, LinkLocalProbeTimeoutTyped, OthersKept, Zenon
  <2>4. CASE n' = LinkLocalDid([n EXCEPT !.ll = ipv4ll_announce_timeout(n.ll).client],
                               ipv4ll_announce_timeout(n.ll).event, e)
    <3>1. NetworkOK([n EXCEPT !.ll = ipv4ll_announce_timeout(n.ll).client])
      BY <1>0, LinkLocalAnnounceTimeoutTyped, OthersKept, Zenon
    <3>2. ipv4ll_announce_timeout(n.ll).event \in {"none", "ipv4ll_available", "ipv4ll_lost"}
      BY <1>0, LinkLocalAnnounceTimeoutTyped
    <3> QED
      BY <2>4, <3>1, <3>2, LinkLocalDidOK
  <2>5. CASE n' = [n EXCEPT !.ll = ipv4ll_defend_timeout(@)]
    BY <1>0, <2>5, LinkLocalDefendTyped, OthersKept, Zenon
  <2> QED
    BY <1>16, <2>2, <2>3, <2>4, <2>5 DEF LinkLocalTimeout
<1>17. ASSUME NEW e \in Environments, NEW source \in BOOLEAN, LinkLocalConflict(source, e)
       PROVE  NetworkOK(n')
  <2>1. NetworkOK([n EXCEPT !.ll = ipv4ll_recv_arp_packet(n.ll, source).client])
    BY <1>0, LinkLocalReceiveTyped, OthersKept, Zenon
  <2>2. ipv4ll_recv_arp_packet(n.ll, source).event
          \in {"none", "ipv4ll_available", "ipv4ll_lost"}
    BY <1>0, LinkLocalReceiveTyped
  <2> QED
    BY <1>17, <2>1, <2>2, LinkLocalDidOK DEF LinkLocalConflict
<1>18. ASSUME NEW e \in Environments, HostTimeout(e) PROVE NetworkOK(n')
  <2>1. e.opened \in BOOLEAN
    BY EnvironmentFacts
  <2>2. CASE n' = [n EXCEPT !.host = acd_probe_timeout(@, e.opened)]
    BY <1>0, <2>1, <2>2, ProbeTimeoutTyped, OthersKept, Zenon
  <2>3. CASE n' = HostDid([n EXCEPT !.host = acd_announce_timeout(n.host).host],
                          acd_announce_timeout(n.host).callback, e)
    <3>1. NetworkOK([n EXCEPT !.host = acd_announce_timeout(n.host).host])
      BY <1>0, AnnounceTimeoutTyped, OthersKept, Zenon
    <3>2. acd_announce_timeout(n.host).callback \in Callbacks
      BY <1>0, AnnounceTimeoutTyped DEF Callbacks
    <3> QED
      BY <2>3, <3>1, <3>2, HostDidOK
  <2>4. CASE n' = [n EXCEPT !.host = acd_defend_timeout(@)]
    BY <1>0, <2>4, DefendTimeoutTyped, OthersKept, Zenon
  <2> QED
    BY <1>18, <2>2, <2>3, <2>4 DEF HostTimeout
<1>19. ASSUME NEW e \in Environments, NEW source \in BOOLEAN, Conflict(source, e)
       PROVE  NetworkOK(n')
  <2>1. NetworkOK([n EXCEPT !.host = acd_recv_arp_packet(n.host, source).host])
    BY <1>0, ReceiveEffect, OthersKept, Zenon
  <2>2. acd_recv_arp_packet(n.host, source).callback \in Callbacks
    BY <1>0, ReceiveEffect
  <2> QED
    BY <1>19, <2>1, <2>2, HostDidOK DEF Conflict
<1>20. CASE UNCHANGED n
  BY <1>20
<1>21. /\ "DHCP" \in Methods /\ "OFF" \in Methods /\ "MANUAL" \in Methods
       /\ NoAddress \in MaybeAddress /\ \A a \in Addresses : a \in MaybeAddress
       /\ \A a \in UserAddresses : a \in MaybeAddress
       /\ \A e \in Unpicked : e \in Environments
  BY MaybeFacts, Ipv4Assumption DEF Methods, Unpicked
<1>22. ASSUME NEW e \in Unpicked, UserOrServer(e) PROVE NetworkOK(n')
  BY <1>6, <1>8, <1>9, <1>11, <1>12, <1>21, <1>22 DEF UserOrServer
<1> QED
  BY <1>1, <1>2, <1>3, <1>4, <1>5, <1>7, <1>10, <1>13, <1>14, <1>15, <1>16, <1>17,
     <1>18, <1>19, <1>20, <1>22 DEF Next

(***************************************************************************)
(* The invariant of the network, in every behaviour.                       *)
(***************************************************************************)
THEOREM NetworkInvariant == Spec => []IInv
  BY InitHolds, StepHolds, PTL DEF Spec

(***************************************************************************)
(* Type correctness: the network, its DHCP and link-local clients and its  *)
(* ACD host.                                                               *)
(***************************************************************************)
THEOREM TypeCorrect == Spec => []TypeOK
<1>1. IInv => TypeOK
  BY DEF IInv, NetworkOK, TypeOK
<1> QED
  BY <1>1, NetworkInvariant, PTL

(***************************************************************************)
(* No lease is used for ever: a client in a lease state has the timer of   *)
(* start_expire() or that of the restart after a NAK, however declines,    *)
(* conflicts, retries and reconfigurations are interleaved.                *)
(***************************************************************************)
THEOREM LeaseSafety == Spec => []LeaseGuarded
<1>1. IInv => LeaseGuarded
  BY DEF IInv, NetworkOK, ClientOK, LeaseTimers, LeaseGuarded
<1> QED
  BY <1>1, NetworkInvariant, PTL

(***************************************************************************)
(* lease_available_cb() ends the link-local client, and no_lease_cb(),     *)
(* which starts it, runs only in a client that has no lease.               *)
(***************************************************************************)
THEOREM LinkLocalEnds == Spec => []LeaseEndsLinkLocal
<1>1. IInv => LeaseEndsLinkLocal
  BY DEF IInv, NetworkOK, LeaseEndsLinkLocal
<1> QED
  BY <1>1, NetworkInvariant, PTL

=============================================================================

-------------------------------- MODULE Dhcpv6 --------------------------------
(***************************************************************************)
(* src/dhcpv6.c with its caller in src/network.c and the IPv6 half of       *)
(* gdhcp/client.c, for one network whose IPv6 method is "auto": router      *)
(* solicitations, the stateful and the stateless exchange, duplicate        *)
(* address detection, declining, and the follow-up of the lease.            *)
(*                                                                         *)
(* The lease is "t0" before T1, "t1" until T2, "t2" until the addresses     *)
(* expire, then "over"; or "forever".                                       *)
(***************************************************************************)
EXTENDS Naturals

CONSTANTS REQ_MAX_RC,         \* transmissions of a Request
          RTR_SOLICITATIONS,  \* repetitions of a router solicitation
          RS_REFRESH_COUNT,   \* transmissions of a refreshing solicitation
          MaxRs,              \* bound on the router solicitations under way
          Late,               \* whether the network may be taken down, or an answer
                              \* arrive, while a callback nobody cancels is pending
          StartsFail,         \* whether a client may fail to start: the interface is down
          Repeats             \* whether an answer may ask for the message at once again

VARIABLE s

NONE == "none"
NoDhcp == [on |-> FALSE, stateless |-> FALSE, timer |-> NONE, cb |-> NONE,
           listen |-> NONE, count |-> 0, lease |-> NONE]
-------------------------------------------------------------------------------
(* The exchange.  Every message goes out with g_dhcp_client_start, which     *)
(* listens for the answer; RT, and with it the delay, is left out.           *)
g_dhcp_client_start(w, kind) == [w EXCEPT !.d.listen = kind]
clear_timer(w) == [w EXCEPT !.d.timer = NONE]
arm(w, timer) == [w EXCEPT !.d.timer = timer]
retransmit(w, timer) == g_dhcp_client_start(arm(w, timer), w.d.listen)

__connman_dhcpv6_stop(w) ==
    IF w.d.on
    THEN [w EXCEPT !.d = NoDhcp, !.refs = @ - 1, !.idle = IF @ = "live" THEN "freed" ELSE @]
    ELSE w

\* The Release is sent and nobody waits for its answer.
__connman_dhcpv6_start_release(w) ==
    IF w.d.on /\ ~w.d.stateless THEN g_dhcp_client_start(clear_timer(w), "release") ELSE w

release_dhcpv6(w) == __connman_dhcpv6_stop(__connman_dhcpv6_start_release(w))

begin(w, stateless, cb, timer) ==
    IF w.d.on THEN w
    ELSE [w EXCEPT !.d = [NoDhcp EXCEPT !.on = TRUE, !.stateless = stateless,
                                        !.cb = cb, !.timer = timer],
                   !.refs = @ + 1]

__connman_dhcpv6_start(w) == begin(w, FALSE, "start", "start_solicitation")
__connman_dhcpv6_start_info(w) == begin(w, TRUE, "info", "start_info_req")

dhcpv6_request(w) == g_dhcp_client_start(w, "request")
dhcpv6_renew(w) == g_dhcp_client_start(w, "renew")
dhcpv6_rebind(w) == g_dhcp_client_start(w, "rebind")

\* A new client holds no lease yet.  If it cannot be made nothing is left to try again.
start_solicitation(w, made) ==
    LET q == [w EXCEPT !.d.lease = NONE] IN
    IF made THEN g_dhcp_client_start(arm(q, "timeout_solicitation"), "solicit")
    ELSE clear_timer(q)

start_info_req(w, made) ==
    IF made THEN g_dhcp_client_start(arm(w, "timeout_info_req"), "info") ELSE clear_timer(w)
-------------------------------------------------------------------------------
(* network.c *)
set_disconnected(w) ==
    [release_dhcpv6([w EXCEPT !.solicit = 0]) EXCEPT !.connected = FALSE, !.addr = FALSE]

\* Its timer runs even if the message could not be sent.
__connman_inet_ipv6_send_rs(w) == [w EXCEPT !.rs = @ + 1]

autoconf_ipv6_set(w) ==
    IF w.solicit > 0 THEN w
    ELSE __connman_inet_ipv6_send_rs([w EXCEPT !.addr = FALSE, !.refs = @ + 1,
                                               !.solicit = RTR_SOLICITATIONS])

\* The lease has expired: dhcpv6_restart runs when the main loop is idle.
check_restart(w) == [w EXCEPT !.d.timer = NONE, !.idle = "live"]

\* T1 and T2 have been replaced by shares of the lifetime if the server left them open.
__connman_dhcpv6_start_renew(w) ==
    LET q == [clear_timer(w) EXCEPT !.d.cb = "renew"] IN
    CASE ~w.d.on -> w
      [] w.d.on /\ w.d.lease \in {NONE, "forever"} -> clear_timer(w)
      [] w.d.on /\ w.d.lease = "over" -> check_restart(q)
      [] w.d.on /\ w.d.lease = "t0" -> arm(q, "start_renew")
      [] OTHER -> arm(q, "start_rebind")

\* Faulty variant: a failed renewal only ends the exchange.
dhcpv6_renew_callback_NoRestart(w, status) ==
    IF status = "succeed" THEN __connman_dhcpv6_start_renew([w EXCEPT !.addr = TRUE])
    ELSE __connman_dhcpv6_stop(w)

\* "unset" is a success whose address the kernel refuses: connman_network_set_error
\* disconnects the network.
dhcpv6_callback(w, status) ==
    CASE status = "succeed" -> __connman_dhcpv6_start_renew([w EXCEPT !.addr = TRUE])
      [] status = "unset" -> __connman_dhcpv6_stop(IF w.connected THEN set_disconnected(w) ELSE w)
      [] status = "restart" -> autoconf_ipv6_set(__connman_dhcpv6_stop(w))
      [] OTHER -> __connman_dhcpv6_stop(w)

dhcpv6_renew_callback(w, status) ==
    IF status \in {"succeed", "unset"} THEN dhcpv6_callback(w, status)
    ELSE autoconf_ipv6_set(__connman_dhcpv6_stop(w))

dhcpv6_info_callback(w) == __connman_dhcpv6_stop(w)

report(w, cb, status) ==
    CASE cb = "start" -> dhcpv6_callback(w, status)
      [] cb = "renew" -> dhcpv6_renew_callback(w, status)
      [] OTHER -> dhcpv6_info_callback(w)

fail(w) == report(w, w.d.cb, "fail")

\* Without a router the solicitation is repeated until the count is used up.
check_dhcpv6_NoReply(w) ==
    IF w.solicit > 0
    THEN __connman_inet_ipv6_send_rs([w EXCEPT !.rs = @ - 1, !.solicit = @ - 1])
    ELSE [w EXCEPT !.rs = @ - 1, !.refs = @ - 1]

check_dhcpv6(w, flags) ==
    LET q == [w EXCEPT !.rs = @ - 1, !.solicit = 0, !.refs = @ - 1] IN
    CASE ~w.connected -> q
      [] w.connected /\ flags = "managed" -> __connman_dhcpv6_start(q)
      [] w.connected /\ flags = "other" -> __connman_dhcpv6_start_info(q)
      [] OTHER -> q
-------------------------------------------------------------------------------
(* Answers of the server *)

\* There is no detection if the interface does none or it could not be started.  The
\* client keeps one address of an answer (gdhcp/client.c, get_addresses), so that a
\* detection has one reply and it is the last.
do_dad(w, how) ==
    IF how = "detect" THEN [w EXCEPT !.dad = w.d.cb] ELSE report(w, w.d.cb, how)

\* Faulty variant: the last attempt is followed by silence.
do_resend_request_Quiet(w) ==
    IF w.d.count >= REQ_MAX_RC THEN [w EXCEPT !.d.count = 0]
    ELSE arm([w EXCEPT !.d.count = @ + 1], "request_resend")

do_resend_request(w) ==
    IF w.d.count >= REQ_MAX_RC THEN fail([w EXCEPT !.d.count = 0])
    ELSE arm([w EXCEPT !.d.count = @ + 1], "request_resend")

again(w, kind) == CASE kind = "request" -> dhcpv6_request(w)
                    [] kind = "renew" -> dhcpv6_renew(w)
                    [] OTHER -> dhcpv6_rebind(w)

\* A message sent again at once has no timer: its answer is only listened for.
AtOnce(kind, status) == status \in {"binding", "mcast"} \/ (status = "noia" /\ kind # "request")

re_cb(w, kind, status, how, made) ==
    LET q == clear_timer(w) IN
    CASE status = "binding" -> dhcpv6_request(q)
      [] status = "mcast" -> again(q, kind)
      [] status = "link" -> IF kind = "request" THEN start_solicitation(q, made) ELSE fail(q)
      [] status = "failure" -> IF kind = "request" THEN do_resend_request(q) ELSE fail(q)
      [] status = "noia" -> IF kind = "request" THEN do_resend_request(q) ELSE again(q, kind)
      [] status = "success" -> do_dad(q, how)
      [] OTHER -> fail(q)

\* An answer restarts the clock of the lease, and a successful one brings a new lease.
get_dhcpv6_request(w, status, lease) ==
    [w EXCEPT !.d.listen = NONE,
              !.d.lease = CASE status = "success" -> lease
                            [] status # "success" /\ @ \in {"t1", "t2", "over"} -> "t0"
                            [] OTHER -> @]

advertise_cb(w, status) ==
    IF status # "success" THEN fail(clear_timer(w))
    ELSE dhcpv6_request([arm(w, "timeout_request") EXCEPT !.d.count = 1])

solicitation_cb(w, status, how) ==
    IF status # "success" THEN fail(clear_timer(w)) ELSE do_dad(clear_timer(w), how)

info_req_cb(w) == report(w, w.d.cb, "succeed")

dhcpv6_decline(w) == [w EXCEPT !.declined = w.dad, !.d.listen = IF w.d.on THEN "decline" ELSE NONE]

dad_reply(w, how) ==
    IF how = "taken" THEN [dhcpv6_decline(w) EXCEPT !.dad = NONE]
    ELSE report([w EXCEPT !.dad = NONE], w.dad, how)

decline_reply_callback(w) ==
    report([w EXCEPT !.declined = NONE, !.d.listen = NONE], w.declined, "restart")
-------------------------------------------------------------------------------
(* Timers *)
timeout_request(w, timer) ==
    IF w.d.count >= REQ_MAX_RC THEN fail([w EXCEPT !.d.count = 0, !.d.timer = NONE])
    ELSE retransmit([w EXCEPT !.d.count = @ + 1], timer)

request_resend(w) == dhcpv6_request(arm(w, "timeout_request_resend"))

start_renew(w) == dhcpv6_renew(arm(w, "timeout_renew"))

start_rebind(w) ==
    IF w.d.lease = "over" THEN check_restart(w) ELSE dhcpv6_rebind(arm(w, "timeout_rebind"))

timeout_rebind(w) ==
    IF w.d.lease = "over" THEN check_restart(w) ELSE retransmit(w, "timeout_rebind")

timeout_renew(w) ==
    CASE w.d.lease = "over" -> check_restart(w)
      [] w.d.lease = "t2" -> start_rebind(w)
      [] OTHER -> retransmit(w, "timeout_renew")

dhcpv6_restart(w) == fail([w EXCEPT !.idle = NONE])
-------------------------------------------------------------------------------
Init == s = [connected |-> FALSE, rs |-> 0, solicit |-> 0, refresh |-> 0, refs |-> 1,
             addr |-> FALSE, d |-> NoDhcp, idle |-> NONE, dad |-> NONE, declined |-> NONE]

Becomes(st) == st.rs <= MaxRs /\ s' = st

Undisturbed == Late \/ (s.idle = NONE /\ s.dad = NONE /\ s.declined = NONE)

Connected == ~s.connected /\ Becomes(autoconf_ipv6_set([s EXCEPT !.connected = TRUE]))
Disconnected == s.connected /\ Undisturbed /\ Becomes(set_disconnected(s))

\* Setting IPv6.Configuration: __connman_network_clear_ipconfig and _enable_ipconfig.
Reconfigured == s.connected /\ Undisturbed /\ Becomes(autoconf_ipv6_set(release_dhcpv6(s)))

RouterSilent == s.rs > 0 /\ Becomes(check_dhcpv6_NoReply(s))
RouterAdvertises == s.rs > 0 /\ \E flags \in {"managed", "other", "neither"} :
    Becomes(check_dhcpv6(s, flags))

\* The resolver asks for fresh RDNSS options.
RefreshRs ==
    /\ s.connected /\ s.refresh = 0
    /\ Becomes([s EXCEPT !.refresh = RS_REFRESH_COUNT, !.refs = @ + 1])
RefreshReply == s.refresh > 0 /\ \E answered \in BOOLEAN :
    Becomes(IF ~answered /\ s.refresh > 1 THEN [s EXCEPT !.refresh = @ - 1]
            ELSE [s EXCEPT !.refresh = 0, !.refs = @ - 1])

Fires(timer) == s.d.timer = timer

Made == IF StartsFail THEN BOOLEAN ELSE {TRUE}

StartSolicitation == \E made \in Made :
    Fires("start_solicitation") /\ Becomes(start_solicitation(s, made))
Resend == \E timer \in {"timeout_solicitation", "timeout_info_req"} :
    Fires(timer) /\ Becomes(retransmit(s, timer))
ResendRequest == \E timer \in {"timeout_request", "timeout_request_resend"} :
    Fires(timer) /\ Becomes(timeout_request(s, timer))
RequestResend == Fires("request_resend") /\ Becomes(request_resend(s))
StartInfo == \E made \in Made :
    Fires("start_info_req") /\ Becomes(start_info_req(s, made))
StartRenew == Fires("start_renew") /\ s.d.lease # "t0" /\ Becomes(start_renew(s))
TimeoutRenew == Fires("timeout_renew") /\ Becomes(timeout_renew(s))
StartRebind ==
    Fires("start_rebind") /\ s.d.lease \in {"t2", "over"} /\ Becomes(start_rebind(s))
TimeoutRebind == Fires("timeout_rebind") /\ Becomes(timeout_rebind(s))
Restart == s.idle = "live" /\ Becomes(dhcpv6_restart(s))

TimePasses == \E i \in 1 .. 3 :
    LET ages == <<"t0", "t1", "t2", "over">> IN
    /\ s.d.lease = ages[i]
    /\ Becomes([s EXCEPT !.d.lease = ages[i + 1]])

Statuses == {"success", "noia", "binding", "mcast", "link", "failure", "noaddrs"}
Leases == {"t0", "forever"}

Uses == {"detect", "succeed", "unset"}

Answered == \E status \in Statuses, lease \in Leases, how \in Uses, made \in Made :
    /\ s.d.listen \in {"request", "renew", "rebind"} /\ (Late \/ s.idle = NONE)
    /\ Repeats \/ ~AtOnce(s.d.listen, status)
    /\ Becomes(re_cb(get_dhcpv6_request(s, status, lease), s.d.listen, status, how, made))
Advertised == \E status \in {"success", "noaddrs"} :
    /\ s.d.listen = "solicit"
    /\ Becomes(advertise_cb(get_dhcpv6_request(s, status, NONE), status))
RapidlyCommitted == \E status \in {"success", "noaddrs"}, lease \in Leases, how \in Uses :
    /\ s.d.listen = "solicit"
    /\ Becomes(solicitation_cb(get_dhcpv6_request(s, status, lease), status, how))
Informed == s.d.listen = "info" /\ Becomes(info_req_cb(s))

DadEnds == s.dad # NONE /\ \E how \in {"taken", "succeed", "unset"} : Becomes(dad_reply(s, how))

\* The server confirms the Decline, or its time is up.
DeclineEnds == s.declined # NONE /\ Becomes(decline_reply_callback(s))

Next == \/ Connected \/ Disconnected \/ Reconfigured \/ RouterSilent \/ RouterAdvertises
        \/ RefreshRs \/ RefreshReply \/ StartSolicitation \/ Resend \/ ResendRequest
        \/ RequestResend \/ StartInfo \/ StartRenew \/ TimeoutRenew \/ StartRebind
        \/ TimeoutRebind \/ Restart \/ TimePasses \/ Answered \/ Advertised
        \/ RapidlyCommitted \/ Informed \/ DadEnds \/ DeclineEnds

Spec == Init /\ [][Next]_s
-------------------------------------------------------------------------------
UnderWay ==
    s.d.timer # NONE \/ s.dad # NONE \/ s.declined # NONE \/ s.idle # NONE

\* Every client could be made and no message had to be sent again at once.
Smooth == ~StartsFail /\ ~Repeats

\* An exchange that was started has a timer or a pending callback until it is stopped or
\* its lease never ends, unless a client cannot be made or an answer asks for the message
\* at once again; always, the address it brought stays on the interface only while a
\* stateful exchange of a connected network runs, and every reference to the network
\* belongs to an exchange or a solicitation (dhcpv6.c, network.c: autoconf_ipv6_set,
\* check_dhcpv6).
LeaseFollowed ==
    /\ Smooth => (s.d.on => UnderWay \/ s.d.lease = "forever")
    /\ s.addr => s.d.on /\ ~s.d.stateless /\ s.connected
    /\ s.refs = 1 + s.rs + (IF s.d.on THEN 1 ELSE 0) + (IF s.refresh > 0 THEN 1 ELSE 0)
================================================================================

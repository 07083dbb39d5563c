-------------------------------- MODULE Ipv6Pd --------------------------------
(***************************************************************************)
(* src/ipv6pd.c with the second half of src/dhcpv6.c: while the host is     *)
(* tethering, a prefix is requested over the default service and advertised *)
(* on the bridge.                                                          *)
(***************************************************************************)
EXTENDS Naturals, FiniteSets

CONSTANTS Services,    \* services that may become the default
          REQ_MAX_RC,  \* transmissions of a Request
          Toggles,     \* whether the uplink loses IPv6 while a prefix is in use or a
                       \* repetition is pending
          Late,        \* whether other events overtake a restart that waits for
                       \* the main loop to be idle
          Unplugs      \* whether the interface of a service may vanish

VARIABLE s

NONE == "none"
NoDhcp == [timer |-> NONE, confirm |-> FALSE, listen |-> NONE, count |-> 0, cb |-> NONE,
           prefixes |-> FALSE, shared |-> FALSE, old |-> FALSE]

\* w.pd maps the network of every service in network_pd_table to its exchange.
d(w, v) == w.pd[v]
Running(w) == {v \in Services : w.pd[v] # NoDhcp}
-------------------------------------------------------------------------------
(* dhcpv6.c, prefix delegation for service v *)
clear_timer(w, v) == [w EXCEPT !.pd[v].timer = NONE, !.pd[v].confirm = FALSE]
sent(w, v, timer, kind) == [w EXCEPT !.pd[v].timer = timer, !.pd[v].listen = kind]
retransmit(w, v, timer) == sent(w, v, timer, d(w, v).listen)

\* Faulty variant: the reference to the network is kept.
__connman_dhcpv6_stop_pd_KeepRef(w, v) == [w EXCEPT !.pd[v] = NoDhcp]

\* A list of prefixes that ipv6pd.c lent out is freed with the exchange.  Nothing is
\* stopped once the service or its interface cannot be found any more.
__connman_dhcpv6_stop_pd(w, v) ==
    IF v \notin Running(w) \/ v \in w.gone THEN w
    ELSE [w EXCEPT !.pd[v] = NoDhcp, !.refs[v] = @ - 1,
                   !.dangling = @ \/ d(w, v).shared,
                   !.idle = @ \ {v}, !.stale = @ \/ v \in w.idle]

start_pd_solicitation(w, v) == sent(w, v, "timeout_solicitation", "solicit")

start_pd_rebind_with_confirm(w, v) ==
    [sent(w, v, "timeout_pd_rebind_confirm", "rebind") EXCEPT !.pd[v].confirm = TRUE]

\* Prefixes of an earlier delegation are tried again: those the caller has, or those
\* that were saved with the service.
__connman_dhcpv6_start_pd(w, v) ==
    LET q == [w EXCEPT !.refs[v] = @ + 1,
                       !.pd[v] = [NoDhcp EXCEPT !.cb = "start", !.shared = w.prefixes,
                                                !.prefixes = w.prefixes \/ w.saved[v]]]
    IN IF v \in Running(w) \/ v \in w.gone THEN w
       ELSE IF d(q, v).prefixes THEN start_pd_rebind_with_confirm(q, v)
       ELSE start_pd_solicitation(q, v)

\* The lifetime of the delegation is the minimum of 0 and the lifetimes of its
\* prefixes (get_addresses), counted from the creation of the client: it is over as
\* soon as the clock shows another second.
check_pd_restart(w, v) == d(w, v).old
dhcpv6_restart_soon(w, v) == [w EXCEPT !.pd[v].timer = NONE, !.idle = @ \cup {v}]

\* The server chose how the delegation is followed: "never" (T1 is infinite), "once" (T2
\* is infinite or not given), or with a timer.  The clock has not passed T1 yet, unless
\* the sum that is compared with it overflows: then a rebind is armed instead.
__connman_dhcpv6_start_pd_renew(w, v, follow) ==
    LET q == [clear_timer(w, v) EXCEPT !.pd[v].cb = "renew"] IN
    CASE v \notin Running(w) -> w
      [] v \in Running(w) /\ follow = "never" -> clear_timer(w, v)
      [] v \in Running(w) /\ follow # "never" /\ check_pd_restart(w, v) ->
            dhcpv6_restart_soon(q, v)
      [] v \in Running(w) /\ follow = "once" /\ ~check_pd_restart(w, v) -> q
      [] OTHER -> [q EXCEPT !.pd[v].timer = follow]
-------------------------------------------------------------------------------
(* ipv6pd.c *)

\* The previous list is freed, unless the exchange freed it already.
start_ra(w) == [w EXCEPT !.prefixes = TRUE, !.timer_ra = TRUE,
                         !.twice = @ \/ (w.prefixes /\ w.dangling), !.dangling = FALSE]

stop_ra(w) == [w EXCEPT !.timer_ra = FALSE, !.prefixes = FALSE,
                        !.twice = @ \/ (w.prefixes /\ w.dangling), !.dangling = FALSE]

\* Faulty variant: the delegation over the previous default service goes on.
setup_prefix_delegation_Keep(w) ==
    LET v == w.default IN
    IF v = NONE THEN w
    ELSE IF ~w.ipv6[v] THEN [w EXCEPT !.interface = NONE]
    ELSE __connman_dhcpv6_start_pd([w EXCEPT !.interface = v], v)

setup_prefix_delegation(w) ==
    LET v == w.default
        q == IF w.interface # NONE
             THEN __connman_dhcpv6_stop_pd(stop_ra(w), w.interface) ELSE w
    IN IF v = NONE THEN w
       ELSE IF ~w.ipv6[v] THEN [q EXCEPT !.interface = NONE]
       ELSE __connman_dhcpv6_start_pd([q EXCEPT !.interface = v], v)

cleanup(w) == [w EXCEPT !.uplink = FALSE, !.prefixes = FALSE,
                        !.twice = @ \/ (w.prefixes /\ w.dangling), !.dangling = FALSE]

dhcpv6_callback(w, v, status, got, follow) ==
    CASE status = "fail" -> cleanup(w)
      [] status # "fail" /\ ~got -> [w EXCEPT !.uplink = TRUE]
      [] OTHER -> __connman_dhcpv6_start_pd_renew(start_ra(w), v, follow)

dhcpv6_renew_callback(w, v, status, got, follow) ==
    IF status = "succeed" THEN dhcpv6_callback(w, v, status, got, follow)
    ELSE setup_prefix_delegation(w)

report(w, v, status, got, follow) ==
    IF d(w, v).cb = "renew" THEN dhcpv6_renew_callback(w, v, status, got, follow)
    ELSE dhcpv6_callback(w, v, status, got, follow)

\* A repetition that fails again stays armed, though its identifier is forgotten.
do_setup(w) ==
    LET q == setup_prefix_delegation([w EXCEPT !.uplink = FALSE]) IN
    [q EXCEPT !.leaked = w.default # NONE /\ ~w.ipv6[w.default]]

update_ipconfig(w, v) ==
    IF v # w.default THEN w
    ELSE IF ~w.ipv6[v]
    THEN IF w.interface = NONE THEN w
         ELSE [__connman_dhcpv6_stop_pd(w, w.interface) EXCEPT !.interface = NONE]
    ELSE IF w.interface = NONE THEN setup_prefix_delegation(w) ELSE w

__connman_ipv6pd_setup(w) == setup_prefix_delegation([w EXCEPT !.bridge = TRUE])

__connman_ipv6pd_cleanup(w) ==
    LET q == stop_ra(cleanup(w)) IN
    [IF w.interface = NONE THEN q ELSE __connman_dhcpv6_stop_pd(q, w.interface)
        EXCEPT !.bridge = FALSE, !.interface = NONE]
-------------------------------------------------------------------------------
(* Answers and timers of the exchange *)

\* The list is replaced by a copy of what was delegated and saved with the service.
set_prefixes(w, v, got, follow) ==
    report([w EXCEPT !.pd[v].prefixes = got, !.pd[v].shared = FALSE, !.saved[v] = got,
                     !.dangling = @ \/ d(w, v).shared],
           v, "succeed", got, follow)

no_prefix(w, v) ==
    report([w EXCEPT !.pd[v].prefixes = FALSE, !.pd[v].shared = FALSE,
                     !.dangling = @ \/ d(w, v).shared],
           v, "fail", FALSE, "never")

dhcpv6_pd_request(w, v) == [w EXCEPT !.pd[v].listen = "request"]

re_pd_cb(w, v, status, follow) ==
    CASE status = "binding" -> dhcpv6_pd_request(w, v)
      [] status = "noprefix" -> no_prefix(w, v)
      [] OTHER -> set_prefixes(w, v, status = "success", follow)

advertise_pd_cb(w, v, ok) ==
    IF ~ok THEN report(clear_timer(w, v), v, "fail", FALSE, "never")
    ELSE dhcpv6_pd_request([clear_timer(w, v) EXCEPT !.pd[v].timer = "timeout_pd_request",
                                                     !.pd[v].count = 1], v)

timeout_pd_request(w, v) ==
    IF d(w, v).count >= REQ_MAX_RC
    THEN report([w EXCEPT !.pd[v].count = 0, !.pd[v].timer = NONE], v, "fail", FALSE, "never")
    ELSE retransmit([w EXCEPT !.pd[v].count = @ + 1], v, "timeout_pd_request")

timeout_pd_max_confirm(w, v) == report(clear_timer(w, v), v, "fail", FALSE, "never")

start_pd_renew(w, v) == sent(w, v, "timeout_pd_renew", "renew")

timeout_pd_renew(w, v) ==
    IF check_pd_restart(w, v) THEN dhcpv6_restart_soon(w, v)
    ELSE retransmit(w, v, "timeout_renew")

start_pd_rebind(w, v) ==
    IF check_pd_restart(w, v) THEN dhcpv6_restart_soon(w, v)
    ELSE sent(w, v, "timeout_pd_rebind", "rebind")

dhcpv6_restart(w, v) == report([w EXCEPT !.idle = @ \ {v}], v, "fail", FALSE, "never")
-------------------------------------------------------------------------------
Each(x) == [v \in Services |-> x]

Init == s = [bridge |-> FALSE, default |-> NONE, interface |-> NONE, ipv6 |-> Each(TRUE),
             pd |-> Each(NoDhcp), refs |-> Each(0), saved |-> Each(FALSE), idle |-> {},
             prefixes |-> FALSE, timer_ra |-> FALSE, uplink |-> FALSE, leaked |-> FALSE,
             dangling |-> FALSE, twice |-> FALSE, stale |-> FALSE, gone |-> {}]

Settled == Late \/ s.idle = {}

StartTethering == ~s.bridge /\ Settled /\ s' = __connman_ipv6pd_setup(s)
StopTethering == s.bridge /\ Settled /\ s' = __connman_ipv6pd_cleanup(s)

\* The notifier is registered only while tethering.  The previous default may have lost
\* its interface.
DefaultChanges == \E v \in (Services \cup {NONE}) \ s.gone,
                     lost \in IF Unplugs THEN {{}, {s.default} \ {NONE}} ELSE {{}} :
    /\ v # s.default /\ Settled
    /\ Toggles \/ (~s.prefixes /\ ~s.uplink) \/ (v # NONE => s.ipv6[v])
    /\ s' = LET q == [s EXCEPT !.default = v, !.gone = @ \cup lost] IN
            IF s.bridge THEN setup_prefix_delegation(q) ELSE q

Ipv6Changes == \E v \in Services :
    /\ Settled
    /\ Toggles \/ (~s.prefixes /\ ~s.uplink) \/ v # s.default
    /\ s' = LET q == [s EXCEPT !.ipv6[v] = ~@] IN IF s.bridge THEN update_ipconfig(q, v) ELSE q

Setup == (s.uplink \/ s.leaked) /\ Settled /\ s' = do_setup(s)

Fires(v, timer) == d(s, v).timer = timer

Resend == \E v \in Services, timer \in {"timeout_solicitation", "timeout_pd_rebind_confirm"} :
    Fires(v, timer) /\ s' = retransmit(s, v, timer)
TimeoutPdRequest == \E v \in Services :
    Fires(v, "timeout_pd_request") /\ s' = timeout_pd_request(s, v)
TimeoutPdMaxConfirm == \E v \in Services :
    d(s, v).confirm /\ s' = timeout_pd_max_confirm(s, v)
StartPdRenew == \E v \in Services : Fires(v, "start_pd_renew") /\ s' = start_pd_renew(s, v)
TimeoutPdRenew == \E v \in Services :
    Fires(v, "timeout_pd_renew") /\ d(s, v).old /\ s' = timeout_pd_renew(s, v)
StartPdRebind == \E v \in Services :
    Fires(v, "start_pd_rebind") /\ d(s, v).old /\ s' = start_pd_rebind(s, v)
Restart == \E v \in s.idle : s' = dhcpv6_restart(s, v)
SecondPasses == \E v \in Running(s) : ~d(s, v).old /\ s' = [s EXCEPT !.pd[v].old = TRUE]

received(v) == [s EXCEPT !.pd[v].listen = NONE]

Advertised == \E v \in Services, ok \in BOOLEAN :
    d(s, v).listen = "solicit" /\ s' = advertise_pd_cb(received(v), v, ok)
Answered == \E v \in Services, status \in {"success", "binding", "noprefix", "empty"},
               follow \in {"never", "once", "start_pd_renew", "start_pd_rebind"} :
    /\ d(s, v).listen \in {"request", "renew", "rebind"} /\ Settled
    /\ s' = re_pd_cb(received(v), v, status, follow)

Next == \/ StartTethering \/ StopTethering \/ DefaultChanges \/ Ipv6Changes \/ Setup
        \/ Resend \/ TimeoutPdRequest \/ TimeoutPdMaxConfirm \/ StartPdRenew
        \/ TimeoutPdRenew \/ StartPdRebind \/ Restart \/ SecondPasses \/ Advertised \/ Answered

Spec == Init /\ [][Next]_s
-------------------------------------------------------------------------------
\* As long as its interface does not vanish, a prefix is requested over one service only,
\* the one whose interface ipv6pd.c regards as the default; every exchange holds one reference to its network; no list
\* of prefixes is freed twice and no timer runs on a freed exchange; and once tethering
\* has ended no exchange, no advertisement and no repetition is left.
OneDelegation ==
    /\ Running(s) = {s.interface} \ {NONE}
    /\ \A v \in Services : s.refs[v] = IF v \in Running(s) THEN 1 ELSE 0
    /\ ~s.twice /\ ~s.stale
    /\ ~s.bridge => s.interface = NONE /\ ~s.timer_ra /\ ~s.uplink /\ ~s.prefixes
================================================================================

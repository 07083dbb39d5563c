----------------------------- MODULE Dhcpv6Proofs -----------------------------
(***************************************************************************)
(* A DHCPv6 exchange is followed up until it ends: the property            *)
(* LeaseFollowed of Dhcpv6 for every number of transmissions, as long as   *)
(* no event overtakes a callback that nobody cancels (~Late), whether or   *)
(* not clients fail to start and messages are asked for at once again.     *)
(*                                                                         *)
(* LeaseFollowed is not inductive: that an exchange has something under    *)
(* way after a step depends on which timer runs while which answer is      *)
(* listened for (Phase), on what callback will hear of its end (an        *)
(* address is only taken away by the callback of a renewal), and on the    *)
(* pending callbacks each excluding the rest.  Good adds these.            *)
(***************************************************************************)
EXTENDS Dhcpv6, Integers, TLAPS

InfoTimers == {"start_info_req", "timeout_info_req"}

\* The timer that runs, with the answer that is listened for.
Phase(timer, listen) ==
    \/ timer \in {"start_solicitation", "request_resend", "start_info_req", "start_renew",
                  "start_rebind"} /\ listen = NONE
    \/ timer = "timeout_solicitation" /\ listen = "solicit"
    \/ timer \in {"timeout_request", "timeout_request_resend"} /\ listen = "request"
    \/ timer = "timeout_info_req" /\ listen = "info"
    \/ timer = "timeout_renew" /\ listen = "renew"
    \/ timer = "timeout_rebind" /\ listen = "rebind"
    \/ timer = NONE /\ listen \in {NONE, "request", "renew", "rebind", "decline"}

Timers == {NONE, "start_solicitation", "timeout_solicitation", "timeout_request",
           "timeout_request_resend", "request_resend", "start_info_req", "timeout_info_req",
           "start_renew", "timeout_renew", "start_rebind", "timeout_rebind"}
Listens == {NONE, "solicit", "request", "info", "renew", "rebind", "decline", "release"}
Ages == {NONE, "t0", "t1", "t2", "over", "forever"}
Followers == {"start", "renew"}

Exchanges == [on : BOOLEAN, stateless : BOOLEAN, timer : Timers,
              cb : {NONE, "start", "renew", "info"}, listen : Listens, count : Nat, lease : Ages]

Networks == [connected : BOOLEAN, rs : Nat, solicit : Nat, refresh : Nat, refs : Int,
             addr : BOOLEAN, d : Exchanges, idle : {NONE, "live", "freed"},
             dad : {NONE} \cup Followers, declined : {NONE} \cup Followers]

Counted(w) ==
    w.refs = 1 + w.rs + (IF w.d.on THEN 1 ELSE 0) + (IF w.refresh > 0 THEN 1 ELSE 0)

\* No callback is pending that outlives the exchange.
Calm(w) == w.idle = NONE /\ w.dad = NONE /\ w.declined = NONE

\* Without an exchange nothing of one is left.
Off(w) == w.d = NoDhcp /\ Calm(w) /\ ~w.addr

\* The stateless exchange.
Informing(w) == /\ w.d.stateless /\ w.d.cb = "info" /\ Calm(w) /\ ~w.addr
                /\ w.d.timer \in InfoTimers \/ (~Smooth /\ w.d.timer = NONE /\ w.d.listen = NONE)

\* The stateful exchange: as long as it goes smoothly a timer runs, one callback is
\* pending, or the lease never ends.
Leasing(w) ==
    /\ ~w.d.stateless /\ w.d.cb \in Followers /\ w.d.timer \notin InfoTimers
    /\ w.addr => w.d.cb = "renew" \/ (Calm(w) /\ w.d.timer = NONE /\ w.d.listen = NONE)
    /\ w.idle \in {NONE, "live"}
    /\ w.idle = "live" => /\ w.d.timer = NONE /\ w.d.listen # "decline"
                          /\ w.dad = NONE /\ w.declined = NONE
    /\ w.dad # NONE => /\ w.d.timer = NONE /\ w.d.listen = NONE /\ w.d.lease # NONE
                       /\ w.declined = NONE
    /\ w.declined # NONE => w.d.timer = NONE /\ w.d.listen = "decline"
    /\ w.d.listen = "decline" => w.declined # NONE
    /\ Smooth /\ w.d.timer = NONE /\ Calm(w) => w.d.lease = "forever"

On(w) == /\ w.connected /\ w.solicit = 0 /\ Phase(w.d.timer, w.d.listen)
         /\ Informing(w) \/ Leasing(w)

Good(w) == w \in Networks /\ Counted(w) /\ (IF w.d.on THEN On(w) ELSE Off(w))

-------------------------------------------------------------------------------
(* The ends of an exchange.                                                *)

\* An exchange whose end is about to be reported: no callback is pending, and an
\* address is only there if the callback of a renewal will hear of it.
Ending(w) == /\ w \in Networks /\ Counted(w) /\ Calm(w)
             /\ w.d.on /\ w.connected /\ w.solicit = 0
             /\ w.addr => w.d.cb = "renew"

\* dhcpv6.c: stopping leaves nothing of the exchange but what the kernel has.
LEMMA Stopping ==
    ASSUME NEW w \in Networks, Counted(w), Calm(w), w.d.on
    PROVE  LET r == __connman_dhcpv6_stop(w) IN
           /\ r \in Networks /\ Counted(r) /\ Calm(r) /\ r.d = NoDhcp
           /\ (r.addr <=> w.addr) /\ (r.connected <=> w.connected) /\ r.solicit = w.solicit
<1> DEFINE r == __connman_dhcpv6_stop(w)
<1>1. NoDhcp \in Exchanges /\ NoDhcp.on = FALSE
  BY DEF NoDhcp, Exchanges, Timers, Listens, Ages, NONE
<1>2. r = [w EXCEPT !.d = NoDhcp, !.refs = w.refs - 1, !.idle = NONE]
  BY DEF __connman_dhcpv6_stop, Calm, NONE
<1>3. /\ r.d = NoDhcp /\ r.refs = w.refs - 1 /\ r.idle = NONE
      /\ (r.addr <=> w.addr) /\ (r.connected <=> w.connected) /\ r.solicit = w.solicit
      /\ r.rs = w.rs /\ r.refresh = w.refresh /\ r.dad = w.dad /\ r.declined = w.declined
  BY <1>2 DEF Networks
<1>5. ASSUME NEW n \in Int
      PROVE  [w EXCEPT !.d = NoDhcp, !.refs = n, !.idle = NONE] \in Networks
  BY <1>1, Zenon DEF Networks
<1>6. r \in Networks
  <2>1. w.refs - 1 \in Int
    BY DEF Networks
  <2> QED
    BY <1>2, <1>5, <2>1, Zenon
<1> HIDE DEF r
<1>4. Counted(r)
  <2>1. w.refs = 1 + w.rs + 1 + (IF w.refresh > 0 THEN 1 ELSE 0)
    BY DEF Counted
  <2>2. w.rs \in Nat /\ w.refresh \in Nat /\ w.refs \in Int
    BY DEF Networks
  <2> QED
    BY <1>1, <1>3, <2>1, <2>2 DEF Counted
<1> QED
  BY <1>3, <1>4, <1>6 DEF r, Calm

\* network.c: a new solicitation takes the address away first.
LEMMA Soliciting ==
    ASSUME RTR_SOLICITATIONS \in Nat, NEW w \in Networks, Counted(w), Calm(w), w.d = NoDhcp,
           w.solicit = 0
    PROVE  Good(autoconf_ipv6_set(w))
<1> DEFINE r == autoconf_ipv6_set(w)
<1>1. r = [w EXCEPT !.addr = FALSE, !.refs = w.refs + 1, !.solicit = RTR_SOLICITATIONS,
                    !.rs = w.rs + 1]
  BY DEF autoconf_ipv6_set, __connman_inet_ipv6_send_rs, Networks
<1>6. ASSUME NEW m \in Nat, NEW n \in Int
      PROVE  [w EXCEPT !.addr = FALSE, !.refs = n, !.solicit = RTR_SOLICITATIONS,
                       !.rs = m] \in Networks
  BY Zenon DEF Networks
<1>5. r \in Networks
  <2>1. w.refs + 1 \in Int /\ w.rs + 1 \in Nat
    BY DEF Networks
  <2> QED
    BY <1>1, <1>6, <2>1, ZenonT(30)
<1>2. /\ r.d = NoDhcp /\ r.refs = w.refs + 1 /\ r.idle = w.idle /\ ~r.addr
      /\ r.rs = w.rs + 1 /\ r.refresh = w.refresh /\ r.dad = w.dad /\ r.declined = w.declined
  BY <1>1, Zenon DEF Networks
<1> HIDE DEF r
<1>3. NoDhcp.on = FALSE
  BY DEF NoDhcp
<1>4. Counted(r)
  BY <1>2, <1>3 DEF Counted, Networks
<1> QED
  BY <1>2, <1>3, <1>4, <1>5 DEF r, Good, Off, Calm

\* network.c: however the exchange fails, it is stopped, and without an address.
LEMMA Failing ==
    ASSUME RTR_SOLICITATIONS \in Nat, NEW w, Ending(w)
    PROVE  Good(fail(w))
<1> DEFINE r == __connman_dhcpv6_stop(w)
<1>1. /\ r \in Networks /\ Counted(r) /\ Calm(r) /\ r.d = NoDhcp
      /\ (r.addr <=> w.addr) /\ r.solicit = 0
  BY Stopping DEF Ending
<1> HIDE DEF r
<1>2. CASE w.d.cb = "renew"
  <2>1. fail(w) = autoconf_ipv6_set(r)
    BY <1>2 DEF fail, report, dhcpv6_renew_callback, r
  <2> QED
    BY <1>1, <2>1, Soliciting
<1>3. CASE w.d.cb # "renew"
  <2>1. fail(w) = r
    BY <1>3 DEF fail, report, dhcpv6_callback, dhcpv6_info_callback, r
  <2>2. ~r.addr
    BY <1>1, <1>3 DEF Ending
  <2>3. NoDhcp.on = FALSE
    BY DEF NoDhcp
  <2> QED
    BY <1>1, <2>1, <2>2, <2>3 DEF Good, Off
<1> QED
  BY <1>2, <1>3

\* network.c: after a Decline the exchange starts anew with a solicitation.
LEMMA Restarting ==
    ASSUME RTR_SOLICITATIONS \in Nat, NEW w \in Networks, Counted(w), Calm(w), w.d.on,
           w.solicit = 0, NEW cb \in Followers
    PROVE  Good(report(w, cb, "restart"))
<1> DEFINE r == __connman_dhcpv6_stop(w)
<1>1. /\ r \in Networks /\ Counted(r) /\ Calm(r) /\ r.d = NoDhcp /\ r.solicit = 0
  BY Stopping
<1> HIDE DEF r
<1>2. report(w, cb, "restart") = autoconf_ipv6_set(r)
  BY DEF report, dhcpv6_callback, dhcpv6_renew_callback, r, Followers
<1> QED
  BY <1>1, <1>2, Soliciting

\* Pieces of Networks, in the form the steps need.
LEMMA NetworkFields ==
    ASSUME NEW w \in Networks
    PROVE  /\ w.rs \in Nat /\ w.solicit \in Nat /\ w.refresh \in Nat /\ w.refs \in Int
           /\ w.d \in Exchanges /\ w.d.timer \in Timers /\ w.d.listen \in Listens
           /\ w.d.count \in Nat /\ w.d.lease \in Ages /\ w.d.cb \in {NONE, "start", "renew", "info"}
           /\ w.dad \in {NONE} \cup Followers /\ w.declined \in {NONE} \cup Followers
<1>1. /\ w.rs \in Nat /\ w.solicit \in Nat /\ w.refresh \in Nat /\ w.refs \in Int
      /\ w.d \in Exchanges
      /\ w.dad \in {NONE} \cup Followers /\ w.declined \in {NONE} \cup Followers
  BY DEF Networks
<1> QED
  BY <1>1 DEF Exchanges

-------------------------------------------------------------------------------
(* Steps of an exchange that goes on.                                      *)

\* The exchange goes on: only its timer, the answer it listens for and the number of
\* its transmissions may differ.
Same(w, r) ==
    /\ r \in Networks /\ Counted(r) /\ r.d.on
    /\ (r.d.stateless <=> w.d.stateless) /\ r.d.cb = w.d.cb /\ r.d.lease = w.d.lease
    /\ (r.connected <=> w.connected) /\ (r.addr <=> w.addr) /\ r.solicit = w.solicit
    /\ r.idle = w.idle /\ r.dad = w.dad /\ r.declined = w.declined

Exchanging(w) == w \in Networks /\ Counted(w) /\ w.d.on

\* A new exchange record in place of the old one, both of them running.
LEMMA Moving ==
    ASSUME NEW w, Exchanging(w), NEW e \in Exchanges, e.on
    PROVE  LET r == [w EXCEPT !.d = e] IN
           /\ r \in Networks /\ Counted(r) /\ r.d = e
           /\ (r.connected <=> w.connected) /\ (r.addr <=> w.addr) /\ r.solicit = w.solicit
           /\ r.idle = w.idle /\ r.dad = w.dad /\ r.declined = w.declined
<1> DEFINE r == [w EXCEPT !.d = e]
<1>1. w \in Networks
  BY DEF Exchanging
<1>2. r \in Networks
  BY <1>1 DEF Networks
<1>3. /\ r.d = e /\ (r.connected <=> w.connected) /\ (r.addr <=> w.addr)
      /\ r.solicit = w.solicit /\ r.idle = w.idle /\ r.dad = w.dad /\ r.declined = w.declined
      /\ r.rs = w.rs /\ r.refresh = w.refresh /\ r.refs = w.refs
  BY <1>1 DEF Networks
<1> HIDE DEF r
<1>4. Counted(r)
  BY <1>3 DEF Counted, Exchanging
<1> QED
  BY <1>2, <1>3, <1>4 DEF r

\* dhcpv6.c: a timer is armed.
LEMMA Arming ==
    ASSUME NEW w, Exchanging(w), NEW timer \in Timers
    PROVE  LET r == arm(w, timer) IN
           Same(w, r) /\ r.d.timer = timer /\ r.d.listen = w.d.listen /\ r.d.count = w.d.count
<1> DEFINE e == [w.d EXCEPT !.timer = timer]
           r == [w EXCEPT !.d = e]
<1>1. w.d \in Exchanges /\ w.d.on
  BY NetworkFields DEF Exchanging
<1>2. e \in Exchanges
  BY <1>1 DEF Exchanges
<1>3. /\ e.on /\ (e.stateless <=> w.d.stateless) /\ e.cb = w.d.cb /\ e.lease = w.d.lease
      /\ e.timer = timer /\ e.listen = w.d.listen /\ e.count = w.d.count
  BY <1>1 DEF Exchanges
<1> HIDE DEF e
<1>4. /\ r \in Networks /\ Counted(r) /\ r.d = e
      /\ (r.connected <=> w.connected) /\ (r.addr <=> w.addr) /\ r.solicit = w.solicit
      /\ r.idle = w.idle /\ r.dad = w.dad /\ r.declined = w.declined
  BY <1>2, <1>3, Moving
<1>5. arm(w, timer) = r
  BY DEF arm, e
<1> HIDE DEF r
<1> QED
  BY <1>3, <1>4, <1>5 DEF Same

\* dhcpv6.c: a message is sent and its answer listened for.
LEMMA Listening ==
    ASSUME NEW w, Exchanging(w), NEW kind \in Listens
    PROVE  LET r == g_dhcp_client_start(w, kind) IN
           Same(w, r) /\ r.d.timer = w.d.timer /\ r.d.listen = kind /\ r.d.count = w.d.count
<1> DEFINE e == [w.d EXCEPT !.listen = kind]
           r == [w EXCEPT !.d = e]
<1>1. w.d \in Exchanges /\ w.d.on
  BY NetworkFields DEF Exchanging
<1>2. e \in Exchanges
  BY <1>1 DEF Exchanges
<1>3. /\ e.on /\ (e.stateless <=> w.d.stateless) /\ e.cb = w.d.cb /\ e.lease = w.d.lease
      /\ e.timer = w.d.timer /\ e.listen = kind /\ e.count = w.d.count
  BY <1>1 DEF Exchanges
<1> HIDE DEF e
<1>4. /\ r \in Networks /\ Counted(r) /\ r.d = e
      /\ (r.connected <=> w.connected) /\ (r.addr <=> w.addr) /\ r.solicit = w.solicit
      /\ r.idle = w.idle /\ r.dad = w.dad /\ r.declined = w.declined
  BY <1>2, <1>3, Moving
<1>5. g_dhcp_client_start(w, kind) = r
  BY DEF g_dhcp_client_start, e
<1> HIDE DEF r
<1> QED
  BY <1>3, <1>4, <1>5 DEF Same

\* dhcpv6.c: request_count changes.
LEMMA Counting ==
    ASSUME NEW w, Exchanging(w), NEW n \in Nat
    PROVE  LET r == [w EXCEPT !.d.count = n] IN
           Same(w, r) /\ r.d.timer = w.d.timer /\ r.d.listen = w.d.listen
<1> DEFINE e == [w.d EXCEPT !.count = n]
           r == [w EXCEPT !.d = e]
<1>1. w.d \in Exchanges /\ w.d.on
  BY NetworkFields DEF Exchanging
<1>2. e \in Exchanges
  BY <1>1 DEF Exchanges
<1>3. /\ e.on /\ (e.stateless <=> w.d.stateless) /\ e.cb = w.d.cb /\ e.lease = w.d.lease
      /\ e.timer = w.d.timer /\ e.listen = w.d.listen
  BY <1>1 DEF Exchanges
<1> HIDE DEF e
<1>4. /\ r \in Networks /\ Counted(r) /\ r.d = e
      /\ (r.connected <=> w.connected) /\ (r.addr <=> w.addr) /\ r.solicit = w.solicit
      /\ r.idle = w.idle /\ r.dad = w.dad /\ r.declined = w.declined
  BY <1>2, <1>3, Moving
<1>5. [w EXCEPT !.d.count = n] = r
  BY DEF e
<1> HIDE DEF r
<1> QED
  BY <1>3, <1>4, <1>5, Zenon DEF Same

\* Such steps follow one another.
LEMMA SameTrans ==
    ASSUME NEW w, NEW u, NEW r, Same(w, u), Same(u, r)
    PROVE  Same(w, r)
  BY DEF Same

\* What stays the same is still an exchange of the same network.
LEMMA SameExchanging ==
    ASSUME NEW w, NEW r, Same(w, r)
    PROVE  Exchanging(r)
  BY DEF Same, Exchanging

\* dhcpv6.c: the callback of renewals is the one that hears of the exchange from now on.
LEMMA Following ==
    ASSUME NEW w, Exchanging(w)
    PROVE  LET r == [w EXCEPT !.d.cb = "renew"] IN
           /\ Exchanging(r) /\ r.d.cb = "renew" /\ r.d.timer = w.d.timer
           /\ r.d.listen = w.d.listen /\ r.d.lease = w.d.lease
           /\ (r.d.stateless <=> w.d.stateless)
           /\ (r.connected <=> w.connected) /\ (r.addr <=> w.addr) /\ r.solicit = w.solicit
           /\ r.idle = w.idle /\ r.dad = w.dad /\ r.declined = w.declined
<1> DEFINE e == [w.d EXCEPT !.cb = "renew"]
           r == [w EXCEPT !.d = e]
<1>1. w.d \in Exchanges /\ w.d.on
  BY NetworkFields DEF Exchanging
<1>2. e \in Exchanges
  BY <1>1 DEF Exchanges
<1>3. /\ e.on /\ (e.stateless <=> w.d.stateless) /\ e.cb = "renew" /\ e.lease = w.d.lease
      /\ e.timer = w.d.timer /\ e.listen = w.d.listen
  BY <1>1 DEF Exchanges
<1> HIDE DEF e
<1>4. /\ r \in Networks /\ Counted(r) /\ r.d = e
      /\ (r.connected <=> w.connected) /\ (r.addr <=> w.addr) /\ r.solicit = w.solicit
      /\ r.idle = w.idle /\ r.dad = w.dad /\ r.declined = w.declined
  BY <1>2, <1>3, Moving
<1>5. [w EXCEPT !.d.cb = "renew"] = r
  BY DEF e
<1> HIDE DEF r
<1> QED
  BY <1>3, <1>4, <1>5, Zenon DEF Exchanging

\* The lease of a running exchange changes.
LEMMA Ageing ==
    ASSUME NEW w, Exchanging(w), NEW lease \in Ages
    PROVE  LET r == [w EXCEPT !.d.lease = lease] IN
           /\ Exchanging(r) /\ r.d.cb = w.d.cb /\ r.d.timer = w.d.timer
           /\ r.d.listen = w.d.listen /\ r.d.lease = lease
           /\ (r.d.stateless <=> w.d.stateless)
           /\ (r.connected <=> w.connected) /\ (r.addr <=> w.addr) /\ r.solicit = w.solicit
           /\ r.idle = w.idle /\ r.dad = w.dad /\ r.declined = w.declined
<1> DEFINE e == [w.d EXCEPT !.lease = lease]
           r == [w EXCEPT !.d = e]
<1>1. w.d \in Exchanges /\ w.d.on
  BY NetworkFields DEF Exchanging
<1>2. e \in Exchanges
  BY <1>1 DEF Exchanges
<1>3. /\ e.on /\ (e.stateless <=> w.d.stateless) /\ e.cb = w.d.cb /\ e.lease = lease
      /\ e.timer = w.d.timer /\ e.listen = w.d.listen
  BY <1>1 DEF Exchanges
<1> HIDE DEF e
<1>4. /\ r \in Networks /\ Counted(r) /\ r.d = e
      /\ (r.connected <=> w.connected) /\ (r.addr <=> w.addr) /\ r.solicit = w.solicit
      /\ r.idle = w.idle /\ r.dad = w.dad /\ r.declined = w.declined
  BY <1>2, <1>3, Moving
<1>5. [w EXCEPT !.d.lease = lease] = r
  BY DEF e
<1> HIDE DEF r
<1> QED
  BY <1>3, <1>4, <1>5, Zenon DEF Exchanging

\* dhcpv6.c, check_restart: the restart waits for the main loop to be idle.
LEMMA Expiring ==
    ASSUME NEW w, Exchanging(w)
    PROVE  LET r == check_restart(w) IN
           /\ Exchanging(r) /\ r.d.cb = w.d.cb /\ r.d.timer = NONE
           /\ r.d.listen = w.d.listen /\ r.d.lease = w.d.lease
           /\ (r.d.stateless <=> w.d.stateless)
           /\ (r.connected <=> w.connected) /\ (r.addr <=> w.addr) /\ r.solicit = w.solicit
           /\ r.idle = "live" /\ r.dad = w.dad /\ r.declined = w.declined
<1> DEFINE u == arm(w, NONE)
           r == [u EXCEPT !.idle = "live"]
<1>1. Same(w, u) /\ u.d.timer = NONE /\ u.d.listen = w.d.listen
  BY Arming DEF Timers
<1>2. check_restart(w) = r
  BY DEF check_restart, arm
<1> HIDE DEF u
<1>3. u \in Networks
  BY <1>1 DEF Same
<1>4. r \in Networks
  BY <1>3 DEF Networks
<1>5. /\ r.d = u.d /\ (r.connected <=> u.connected) /\ (r.addr <=> u.addr)
      /\ r.solicit = u.solicit /\ r.idle = "live" /\ r.dad = u.dad /\ r.declined = u.declined
      /\ r.rs = u.rs /\ r.refresh = u.refresh /\ r.refs = u.refs
  BY <1>3 DEF Networks
<1> HIDE DEF r
<1>6. Counted(r)
  BY <1>1, <1>5 DEF Counted, Same
<1> QED
  BY <1>1, <1>2, <1>4, <1>5, <1>6 DEF Same, Exchanging

\* dhcpv6.c, network.c: an exchange that succeeded has its address set and is followed up
\* for as long as the lease runs.
LEMMA Succeeding ==
    ASSUME NEW w, Exchanging(w), Calm(w), w.connected, w.solicit = 0, ~w.d.stateless,
           w.d.cb \in Followers, w.d.listen = NONE, w.d.lease # NONE, NEW cb \in Followers
    PROVE  Good(report(w, cb, "succeed"))
<1> DEFINE a == [w EXCEPT !.addr = TRUE]
           c == arm(a, NONE)
           q == [c EXCEPT !.d.cb = "renew"]
           r == __connman_dhcpv6_start_renew(a)
<1>1. report(w, cb, "succeed") = r
  BY DEF report, dhcpv6_callback, dhcpv6_renew_callback, Followers
<1>2. a \in Networks
  BY Zenon DEF Exchanging, Networks
<1>3. /\ a.d = w.d /\ a.addr /\ (a.connected <=> w.connected) /\ a.solicit = w.solicit
      /\ a.idle = w.idle /\ a.dad = w.dad /\ a.declined = w.declined
      /\ a.rs = w.rs /\ a.refresh = w.refresh /\ a.refs = w.refs
  BY DEF Exchanging, Networks
<1> HIDE DEF a
<1>4. Exchanging(a)
  BY <1>2, <1>3 DEF Exchanging, Counted
<1>5. Same(a, c) /\ c.d.timer = NONE /\ c.d.listen = NONE
  BY <1>3, <1>4, Arming DEF Timers
<1>6. clear_timer(a) = c
  BY DEF clear_timer, arm
<1> HIDE DEF c
<1>7. Exchanging(c)
  BY <1>5, SameExchanging
<1>8. /\ Exchanging(q) /\ q.d.cb = "renew" /\ q.d.timer = NONE /\ q.d.listen = NONE
      /\ q.d.lease = w.d.lease /\ ~q.d.stateless /\ q.connected /\ q.addr /\ q.solicit = 0
      /\ Calm(q)
  BY <1>3, <1>5, <1>7, Following DEF Same, Calm
<1>9. w.d.lease \in Ages
  BY NetworkFields DEF Exchanging
<1>10. a.d.on
  BY <1>4 DEF Exchanging
<1> HIDE DEF q
<1>11. CASE w.d.lease = "forever"
  <2>1. r = c
    BY <1>3, <1>6, <1>10, <1>11 DEF __connman_dhcpv6_start_renew
  <2>2. Good(c)
    BY <1>3, <1>5, <1>7, <1>11 DEF Good, Same, Exchanging, On, Leasing, Phase, Calm, InfoTimers, NONE
  <2> QED
    BY <1>1, <2>1, <2>2
<1>12. CASE w.d.lease = "over"
  <2>1. r = check_restart(q)
    BY <1>3, <1>6, <1>10, <1>12 DEF __connman_dhcpv6_start_renew, q, NONE
  <2>2. Good(check_restart(q))
    BY <1>8, Expiring DEF Good, Exchanging, On, Leasing, Phase, Calm, InfoTimers, Followers, NONE
  <2> QED
    BY <1>1, <2>1, <2>2
<1>13. CASE w.d.lease = "t0"
  <2>1. r = arm(q, "start_renew")
    BY <1>3, <1>6, <1>10, <1>13 DEF __connman_dhcpv6_start_renew, q, NONE
  <2>2. Good(arm(q, "start_renew"))
    BY <1>8, Arming DEF Good, Same, Exchanging, On, Leasing, Phase, Calm, InfoTimers, Timers, Followers, NONE
  <2> QED
    BY <1>1, <2>1, <2>2
<1>14. CASE w.d.lease \in {"t1", "t2"}
  <2>1. r = arm(q, "start_rebind")
    BY <1>3, <1>6, <1>10, <1>14 DEF __connman_dhcpv6_start_renew, q, NONE
  <2>2. Good(arm(q, "start_rebind"))
    BY <1>8, Arming DEF Good, Same, Exchanging, On, Leasing, Phase, Calm, InfoTimers, Timers, Followers, NONE
  <2> QED
    BY <1>1, <2>1, <2>2
<1> QED
  BY <1>9, <1>11, <1>12, <1>13, <1>14 DEF Ages

\* An exchange is the same as itself.
LEMMA SameRefl ==
    ASSUME NEW w, Exchanging(w)
    PROVE  Same(w, w)
  BY DEF Same, Exchanging

\* dhcpv6.c: a release ends the exchange, if there is one.
LEMMA Released ==
    ASSUME NEW w \in Networks, Counted(w), Calm(w), w.d.on \/ w.d = NoDhcp
    PROVE  LET r == release_dhcpv6(w) IN
           /\ r \in Networks /\ Counted(r) /\ Calm(r) /\ r.d = NoDhcp
           /\ r.solicit = w.solicit /\ (w.d.on \/ r = w)
<1>1. CASE w.d.on
  <2> DEFINE u == arm(w, NONE)
             v == g_dhcp_client_start(u, "release")
             x == __connman_dhcpv6_start_release(w)
  <2>1. Exchanging(w)
    BY <1>1 DEF Exchanging
  <2>2. Same(w, u)
    BY <2>1, Arming DEF Timers
  <2>3. Exchanging(u)
    BY <2>2, SameExchanging
  <2>4. clear_timer(w) = u
    BY DEF clear_timer, arm
  <2>5. x = v \/ x = w
    BY <2>4 DEF __connman_dhcpv6_start_release
  <2> HIDE DEF u
  <2>6. Same(u, v)
    BY <2>3, Listening DEF Listens
  <2>7. Same(w, v) /\ Same(w, w)
    BY <2>1, <2>2, <2>6, SameTrans, SameRefl
  <2> HIDE DEF v, x
  <2>8. x \in Networks /\ Counted(x) /\ Calm(x) /\ x.d.on /\ x.solicit = w.solicit
    BY <2>5, <2>7 DEF Same, Calm
  <2> QED
    BY <1>1, <2>8, Stopping DEF release_dhcpv6, x
<1>2. CASE ~w.d.on
  <2>1. release_dhcpv6(w) = w
    BY <1>2 DEF release_dhcpv6, __connman_dhcpv6_start_release, __connman_dhcpv6_stop
  <2> QED
    BY <1>2, <2>1
<1> QED
  BY <1>1, <1>2

\* network.c: set_disconnected ends the exchange and takes its address away.
LEMMA Disconnecting ==
    ASSUME NEW w \in Networks, Counted(w), Calm(w), w.d.on \/ w.d = NoDhcp
    PROVE  Good(set_disconnected(w)) /\ ~set_disconnected(w).d.on
<1> DEFINE u == [w EXCEPT !.solicit = 0]
           v == release_dhcpv6(u)
           r == [v EXCEPT !.connected = FALSE, !.addr = FALSE]
<1>1. set_disconnected(w) = r
  BY DEF set_disconnected
<1>2. u \in Networks
  BY DEF Networks
<1>3. /\ u.d = w.d /\ u.idle = w.idle /\ u.dad = w.dad /\ u.declined = w.declined
      /\ u.rs = w.rs /\ u.refresh = w.refresh /\ u.refs = w.refs
  BY DEF Networks
<1> HIDE DEF u
<1>4. Counted(u) /\ Calm(u)
  BY <1>3 DEF Counted, Calm
<1>5. v \in Networks /\ Counted(v) /\ Calm(v) /\ v.d = NoDhcp
  BY <1>2, <1>3, <1>4, Released
<1> HIDE DEF v
<1>6. r \in Networks
  BY <1>5, Zenon DEF Networks
<1>7. /\ r.d = v.d /\ ~r.addr /\ r.idle = v.idle /\ r.dad = v.dad /\ r.declined = v.declined
      /\ r.rs = v.rs /\ r.refresh = v.refresh /\ r.refs = v.refs
  BY <1>5 DEF Networks
<1> HIDE DEF r
<1>8. NoDhcp.on = FALSE
  BY DEF NoDhcp
<1>9. Good(r) /\ ~r.d.on
  BY <1>5, <1>6, <1>7, <1>8 DEF Good, Off, Calm, Counted
<1> QED
  BY <1>1, <1>9

\* network.c, dhcpv6_callback: an address that cannot be set takes the network down.
LEMMA Refused ==
    ASSUME NEW w, Exchanging(w), Calm(w), w.connected, NEW cb \in Followers
    PROVE  Good(report(w, cb, "unset"))
<1>1. report(w, cb, "unset") = __connman_dhcpv6_stop(set_disconnected(w))
  BY DEF report, dhcpv6_callback, dhcpv6_renew_callback, Followers
<1>2. Good(set_disconnected(w)) /\ ~set_disconnected(w).d.on
  BY Disconnecting DEF Exchanging
<1> QED
  BY <1>1, <1>2 DEF __connman_dhcpv6_stop

-------------------------------------------------------------------------------
(* The stateful exchange with no callback pending.                         *)

Live(w) == /\ Exchanging(w) /\ Calm(w) /\ w.connected /\ w.solicit = 0
           /\ ~w.d.stateless /\ w.d.cb \in Followers
           /\ w.addr => w.d.cb = "renew"

\* A stateful exchange without pending callbacks may be reported as ended.
LEMMA LiveEnding ==
    ASSUME NEW w, Live(w)
    PROVE  Ending(w)
  BY DEF Live, Ending, Exchanging

\* ... and stays one when only its timer, its message or its count changes.
LEMMA LiveSame ==
    ASSUME NEW w, NEW r, Live(w), Same(w, r)
    PROVE  Live(r) /\ Exchanging(r)
  BY DEF Live, Same, Exchanging, Calm

\* It is in order while it waits for a timer, and otherwise if something went wrong.
LEMMA LiveGood ==
    ASSUME NEW r, Live(r), Phase(r.d.timer, r.d.listen), r.d.timer \notin InfoTimers,
           r.d.timer # NONE \/ ~Smooth, r.d.listen # "decline"
    PROVE  Good(r)
  BY DEF Live, Good, Exchanging, On, Leasing, Calm, NONE

\* A timer other than those of the stateless exchange runs only for a live one.
LEMMA TimerLive ==
    ASSUME NEW w, Good(w), w.d.timer \notin InfoTimers, w.d.timer # NONE
    PROVE  Live(w) /\ Exchanging(w) /\ Phase(w.d.timer, w.d.listen)
<1>1. NoDhcp.timer = NONE
  BY DEF NoDhcp
<1>2. w.d.on
  BY <1>1 DEF Good, Off
<1> QED
  BY <1>2 DEF Good, On, Informing, Leasing, Live, Exchanging, Calm, NONE

\* So does the wait for an answer to one of its messages.
LEMMA AnswerLive ==
    ASSUME NEW w, Good(w), w.d.listen \in {"solicit", "request", "renew", "rebind"},
           w.idle = NONE \/ w.d.listen = "solicit"
    PROVE  Live(w) /\ Exchanging(w)
<1>1. NoDhcp.listen = NONE
  BY DEF NoDhcp
<1>2. w.d.on
  BY <1>1 DEF Good, Off, NONE
<1>3. ~Informing(w)
  BY <1>2 DEF Good, On, Informing, Phase, InfoTimers, NONE
<1>4. w.d.listen = "solicit" => w.d.timer = "timeout_solicitation"
  BY <1>2 DEF Good, On, Phase, NONE
<1> QED
  BY <1>2, <1>3, <1>4 DEF Good, On, Leasing, Live, Exchanging, Calm, NONE

\* dhcpv6.c: a message is sent with a timer for its repetition.
LEMMA Sending ==
    ASSUME NEW w, Live(w), NEW timer \in Timers, NEW kind \in Listens,
           Phase(timer, kind), timer \notin InfoTimers, timer # NONE, kind # "decline"
    PROVE  Good(g_dhcp_client_start(arm(w, timer), kind))
<1> DEFINE u == arm(w, timer)
           r == g_dhcp_client_start(u, kind)
<1>1. Same(w, u) /\ u.d.timer = timer
  BY Arming DEF Live
<1>2. Live(u) /\ Exchanging(u)
  BY <1>1, LiveSame
<1> HIDE DEF u
<1>3. Same(u, r) /\ r.d.timer = timer /\ r.d.listen = kind
  BY <1>1, <1>2, Listening
<1>4. Live(r)
  BY <1>2, <1>3, LiveSame
<1> HIDE DEF r
<1>5. Good(r)
  BY <1>3, <1>4, LiveGood
<1> QED
  BY <1>5 DEF r, u

\* dhcpv6.c, start_solicitation: for a new client, which holds no lease, or none at all.
LEMMA Solicited ==
    ASSUME NEW w, Live(w), w.d.listen = NONE, NEW made \in Made
    PROVE  Good(start_solicitation(w, made))
<1> DEFINE q == [w EXCEPT !.d.lease = NONE]
<1>1. NONE \in Ages
  BY DEF Ages
<1>2. /\ Exchanging(q) /\ q.d.cb = w.d.cb /\ (q.d.stateless <=> w.d.stateless)
      /\ q.d.listen = w.d.listen
      /\ (q.connected <=> w.connected) /\ (q.addr <=> w.addr) /\ q.solicit = w.solicit
      /\ q.idle = w.idle /\ q.dad = w.dad /\ q.declined = w.declined
  BY <1>1, Ageing DEF Live
<1> HIDE DEF q
<1>3. Live(q)
  BY <1>2 DEF Live, Calm
<1>4. CASE made
  <2>1. Good(g_dhcp_client_start(arm(q, "timeout_solicitation"), "solicit"))
    BY <1>3, Sending DEF Phase, Timers, Listens, InfoTimers, NONE
  <2> QED
    BY <1>4, <2>1 DEF start_solicitation, q
<1>5. CASE ~made
  <2> DEFINE r == arm(q, NONE)
  <2>1. Same(q, r) /\ r.d.timer = NONE /\ r.d.listen = w.d.listen
    BY <1>2, <1>3, Arming DEF Timers
  <2>2. Live(r)
    BY <1>3, <2>1, LiveSame
  <2>3. start_solicitation(w, made) = r
    BY <1>5 DEF start_solicitation, clear_timer, arm, q
  <2> HIDE DEF r
  <2>4. ~Smooth
    BY <1>5 DEF Smooth, Made
  <2>5. Good(r)
    BY <2>1, <2>2, <2>4, LiveGood DEF Phase, InfoTimers, NONE
  <2> QED
    BY <2>3, <2>5
<1> QED
  BY <1>4, <1>5

\* dhcpv6.c, do_resend_request: the Request is repeated later, or given up.
LEMMA Repeated ==
    ASSUME RTR_SOLICITATIONS \in Nat, NEW w, Live(w), w.d.listen = NONE
    PROVE  Good(do_resend_request(w))
<1>1. CASE w.d.count >= REQ_MAX_RC
  <2> DEFINE u == [w EXCEPT !.d.count = 0]
  <2>1. Same(w, u)
    BY Counting, Zenon DEF Live
  <2> HIDE DEF u
  <2>2. Ending(u)
    BY <2>1, LiveSame, LiveEnding
  <2>3. do_resend_request(w) = fail(u)
    BY <1>1 DEF do_resend_request, u
  <2> QED
    BY <2>2, <2>3, Failing
<1>2. CASE ~(w.d.count >= REQ_MAX_RC)
  <2> DEFINE n == w.d.count + 1
             u == [w EXCEPT !.d.count = n]
             r == arm(u, "request_resend")
  <2>1. n \in Nat
    BY NetworkFields DEF Live, Exchanging
  <2>2. do_resend_request(w) = r
    BY <1>2 DEF do_resend_request
  <2> HIDE DEF n
  <2>3. Same(w, u) /\ u.d.listen = NONE
    BY <2>1, Counting DEF Live
  <2>4. Live(u) /\ Exchanging(u)
    BY <2>3, LiveSame
  <2> HIDE DEF u
  <2>5. Same(u, r) /\ r.d.timer = "request_resend" /\ r.d.listen = NONE
    BY <2>3, <2>4, Arming DEF Timers
  <2>6. Live(r)
    BY <2>4, <2>5, LiveSame
  <2> HIDE DEF r
  <2>7. Good(r)
    BY <2>5, <2>6, LiveGood DEF Phase, InfoTimers, NONE
  <2> QED
    BY <2>2, <2>7
<1> QED
  BY <1>1, <1>2

\* dhcpv6.c, do_dad: duplicate detection is waited for, or the address used at once.
LEMMA Detecting ==
    ASSUME NEW w, Live(w), w.d.timer = NONE, w.d.listen = NONE, w.d.lease # NONE,
           NEW how \in Uses
    PROVE  Good(do_dad(w, how))
<1>1. CASE how = "detect"
  <2> DEFINE r == [w EXCEPT !.dad = w.d.cb]
  <2>1. do_dad(w, how) = r
    BY <1>1 DEF do_dad
  <2>2. w \in Networks /\ w.d.cb \in Followers
    BY DEF Live, Exchanging
  <2>3. r \in Networks
    BY <2>2 DEF Networks
  <2>4. /\ r.d = w.d /\ (r.connected <=> w.connected) /\ (r.addr <=> w.addr)
        /\ r.solicit = w.solicit /\ r.idle = w.idle /\ r.dad = w.d.cb /\ r.declined = w.declined
        /\ r.rs = w.rs /\ r.refresh = w.refresh /\ r.refs = w.refs
    BY <2>2 DEF Networks
  <2> HIDE DEF r
  <2>5. Counted(r)
    BY <2>4 DEF Live, Exchanging, Counted
  <2>6. w.d.cb # NONE
    BY <2>2 DEF Followers, NONE
  <2>7. Good(r)
    BY <2>3, <2>4, <2>5, <2>6 DEF Live, Exchanging, Good, On, Leasing, Phase, Calm, InfoTimers, NONE
  <2> QED
    BY <2>1, <2>7
<1>2. CASE how = "succeed"
  <2>1. do_dad(w, how) = report(w, w.d.cb, "succeed")
    BY <1>2 DEF do_dad
  <2> QED
    BY <2>1, Succeeding DEF Live
<1>3. CASE how = "unset"
  <2>1. do_dad(w, how) = report(w, w.d.cb, "unset")
    BY <1>3 DEF do_dad
  <2> QED
    BY <2>1, Refused DEF Live
<1> QED
  BY <1>1, <1>2, <1>3 DEF Uses

-------------------------------------------------------------------------------
(* The answers of the server.                                              *)

\* gdhcp/client.c: an answer ends the listening, and a successful one brings its lease.
LEMMA Received ==
    ASSUME NEW w, Live(w), NEW status, NEW lease \in Ages
    PROVE  LET r == get_dhcpv6_request(w, status, lease) IN
           /\ Live(r) /\ Exchanging(r) /\ r.d.listen = NONE /\ r.d.timer = w.d.timer
           /\ status = "success" => r.d.lease = lease
<1> DEFINE x == CASE status = "success" -> lease
                  [] status # "success" /\ w.d.lease \in {"t1", "t2", "over"} -> "t0"
                  [] OTHER -> w.d.lease
           u == g_dhcp_client_start(w, NONE)
           r == [u EXCEPT !.d.lease = x]
<1>1. w.d.lease \in Ages
  BY NetworkFields DEF Live, Exchanging
<1>2. x \in Ages /\ (status = "success" => x = lease)
  BY <1>1 DEF Ages
<1>3. Same(w, u) /\ u.d.timer = w.d.timer /\ u.d.listen = NONE
  BY Listening DEF Live, Listens
<1>4. get_dhcpv6_request(w, status, lease) = r
  <2>1. w.d \in Exchanges /\ w \in Networks
    BY NetworkFields DEF Live, Exchanging
  <2> HIDE DEF x
  <2>2. [w EXCEPT !.d.listen = NONE, !.d.lease = x] = r
    BY <2>1 DEF g_dhcp_client_start, Networks, Exchanges
  <2>3. get_dhcpv6_request(w, status, lease) = [w EXCEPT !.d.listen = NONE, !.d.lease = x]
    BY <2>1 DEF get_dhcpv6_request, x, Networks, Exchanges
  <2> QED
    BY <2>2, <2>3
<1> HIDE DEF x, u
<1>5. Live(u) /\ Exchanging(u)
  BY <1>3, LiveSame
<1>6. /\ Exchanging(r) /\ r.d.cb = u.d.cb /\ r.d.timer = u.d.timer /\ r.d.listen = u.d.listen
      /\ r.d.lease = x /\ (r.d.stateless <=> u.d.stateless)
      /\ (r.connected <=> u.connected) /\ (r.addr <=> u.addr) /\ r.solicit = u.solicit
      /\ r.idle = u.idle /\ r.dad = u.dad /\ r.declined = u.declined
  BY <1>2, <1>5, Ageing
<1> HIDE DEF r
<1>7. Live(r)
  BY <1>5, <1>6 DEF Live, Calm
<1> QED
  BY <1>2, <1>3, <1>4, <1>6, <1>7

\* dhcpv6.c: a message that is sent again at once is waited for without a timer.
LEMMA Again ==
    ASSUME Repeats, NEW w, Live(w), w.d.timer = NONE, NEW kind \in {"request", "renew", "rebind"}
    PROVE  Good(g_dhcp_client_start(w, kind)) /\ Good(again(w, kind)) /\ Good(dhcpv6_request(w))
<1>1. ASSUME NEW k \in {"request", "renew", "rebind"}
      PROVE  Good(g_dhcp_client_start(w, k))
  <2> DEFINE r == g_dhcp_client_start(w, k)
  <2>1. Same(w, r) /\ r.d.timer = NONE /\ r.d.listen = k
    BY Listening DEF Live, Listens
  <2>2. Live(r)
    BY <2>1, LiveSame
  <2> HIDE DEF r
  <2>3. ~Smooth
    BY DEF Smooth
  <2>4. Good(r)
    BY <2>1, <2>2, <2>3, LiveGood DEF Phase, InfoTimers, NONE
  <2> QED
    BY <2>4 DEF r
<1>2. again(w, kind) = g_dhcp_client_start(w, kind)
  BY DEF again, dhcpv6_request, dhcpv6_renew, dhcpv6_rebind
<1> QED
  BY <1>1, <1>2 DEF dhcpv6_request

\* dhcpv6.c: whatever the answer to a Request, Renew or Rebind says, the exchange goes
\* on, is followed up, starts anew or ends.
LEMMA AnswerGood ==
    ASSUME RTR_SOLICITATIONS \in Nat, NEW w, Live(w), w.d.listen = NONE,
           NEW kind \in {"request", "renew", "rebind"}, NEW status,
           status = "success" => w.d.lease # NONE, Repeats \/ ~AtOnce(kind, status),
           NEW how \in Uses, NEW made \in Made
    PROVE  Good(re_cb(w, kind, status, how, made))
<1> DEFINE q == arm(w, NONE)
<1>1. Same(w, q) /\ q.d.timer = NONE /\ q.d.listen = NONE
  BY Arming DEF Live, Timers
<1>2. clear_timer(w) = q
  BY DEF clear_timer, arm
<1> HIDE DEF q
<1>3. Live(q) /\ Ending(q)
  BY <1>1, LiveSame, LiveEnding
<1>4. CASE status = "binding"
  <2>1. re_cb(w, kind, status, how, made) = dhcpv6_request(q)
    BY <1>2, <1>4 DEF re_cb
  <2> QED
    BY <1>1, <1>3, <1>4, <2>1, Again DEF AtOnce
<1>5. CASE status = "mcast"
  <2>1. re_cb(w, kind, status, how, made) = again(q, kind)
    BY <1>2, <1>5 DEF re_cb
  <2> QED
    BY <1>1, <1>3, <1>5, <2>1, Again DEF AtOnce
<1>6. CASE status = "link"
  <2>1. re_cb(w, kind, status, how, made) 
        = IF kind = "request" THEN start_solicitation(q, made) ELSE fail(q)
    BY <1>2, <1>6 DEF re_cb
  <2> QED
    BY <1>1, <1>3, <2>1, Solicited, Failing
<1>7. CASE status = "failure"
  <2>1. re_cb(w, kind, status, how, made) = IF kind = "request" THEN do_resend_request(q) ELSE fail(q)
    BY <1>2, <1>7 DEF re_cb
  <2> QED
    BY <1>1, <1>3, <2>1, Repeated, Failing
<1>8. CASE status = "noia"
  <2>1. re_cb(w, kind, status, how, made)
        = IF kind = "request" THEN do_resend_request(q) ELSE again(q, kind)
    BY <1>2, <1>8 DEF re_cb
  <2> QED
    BY <1>1, <1>3, <1>8, <2>1, Repeated, Again DEF AtOnce
<1>9. CASE status = "success"
  <2>1. re_cb(w, kind, status, how, made) = do_dad(q, how)
    BY <1>2, <1>9 DEF re_cb
  <2>2. q.d.lease # NONE
    BY <1>1, <1>9 DEF Same
  <2> QED
    BY <1>1, <1>3, <2>1, <2>2, Detecting
<1>10. CASE status \notin {"binding", "mcast", "link", "failure", "noia", "success"}
  <2>1. re_cb(w, kind, status, how, made) = fail(q)
    BY <1>2, <1>10 DEF re_cb
  <2> QED
    BY <1>3, <2>1, Failing
<1> QED
  BY <1>4, <1>5, <1>6, <1>7, <1>8, <1>9, <1>10

\* dhcpv6.c: a Reply to a Request, a Renew or a Rebind (request_cb, renew_cb, rebind_cb).
LEMMA AnsweredGood ==
    ASSUME RTR_SOLICITATIONS \in Nat, ~Late, Good(s), Answered
    PROVE  Good(s')
<1>1. PICK status \in Statuses, lease \in Leases, how \in Uses, made \in Made :
        /\ s.d.listen \in {"request", "renew", "rebind"} /\ (Late \/ s.idle = NONE)
        /\ Repeats \/ ~AtOnce(s.d.listen, status)
        /\ Becomes(re_cb(get_dhcpv6_request(s, status, lease), s.d.listen, status, how, made))
  BY DEF Answered
<1> DEFINE w == get_dhcpv6_request(s, status, lease)
<1>2. Live(s)
  BY <1>1, AnswerLive
<1>3. lease \in Ages /\ lease # NONE
  BY DEF Leases, Ages, NONE
<1>4. Live(w) /\ w.d.listen = NONE /\ (status = "success" => w.d.lease = lease)
  BY <1>2, <1>3, Received
<1> HIDE DEF w
<1>5. Good(re_cb(w, s.d.listen, status, how, made))
  BY <1>1, <1>3, <1>4, AnswerGood
<1> QED
  BY <1>1, <1>5 DEF Becomes, w

\* dhcpv6.c: an Advertise is followed by a Request (advertise_cb).
LEMMA AdvertisedGood ==
    ASSUME RTR_SOLICITATIONS \in Nat, Good(s), Advertised
    PROVE  Good(s')
<1>1. PICK status \in {"success", "noaddrs"} :
        /\ s.d.listen = "solicit"
        /\ Becomes(advertise_cb(get_dhcpv6_request(s, status, NONE), status))
  BY DEF Advertised
<1> DEFINE w == get_dhcpv6_request(s, status, NONE)
<1>2. Live(s)
  BY <1>1, AnswerLive
<1>3. NONE \in Ages
  BY DEF Ages
<1>4. Live(w) /\ Exchanging(w)
  BY <1>2, <1>3, Received
<1> HIDE DEF w
<1>5. CASE status # "success"
  <2> DEFINE q == arm(w, NONE)
  <2>1. Same(w, q)
    BY <1>4, Arming DEF Timers
  <2>2. clear_timer(w) = q
    BY DEF clear_timer, arm
  <2> HIDE DEF q
  <2>3. Ending(q)
    BY <1>4, <2>1, LiveSame, LiveEnding
  <2>4. advertise_cb(w, status) = fail(q)
    BY <1>5, <2>2 DEF advertise_cb
  <2> QED
    BY <1>1, <2>3, <2>4, Failing DEF Becomes, w
<1>6. CASE status = "success"
  <2> DEFINE u == arm(w, "timeout_request")
             v == [u EXCEPT !.d.count = 1]
             r == g_dhcp_client_start(v, "request")
  <2>1. Same(w, u) /\ u.d.timer = "timeout_request"
    BY <1>4, Arming DEF Timers
  <2>2. Live(u) /\ Exchanging(u)
    BY <1>4, <2>1, LiveSame
  <2> HIDE DEF u
  <2>3. Same(u, v) /\ v.d.timer = "timeout_request"
    BY <2>1, <2>2, Counting
  <2>4. Live(v) /\ Exchanging(v)
    BY <2>2, <2>3, LiveSame
  <2> HIDE DEF v
  <2>5. Same(v, r) /\ r.d.timer = "timeout_request" /\ r.d.listen = "request"
    BY <2>3, <2>4, Listening DEF Listens
  <2>6. Live(r)
    BY <2>4, <2>5, LiveSame
  <2> HIDE DEF r
  <2>7. Good(r)
    BY <2>5, <2>6, LiveGood DEF Phase, InfoTimers, NONE
  <2>8. advertise_cb(w, status) = r
    BY <1>6 DEF advertise_cb, dhcpv6_request, r, v, u
  <2> QED
    BY <1>1, <2>7, <2>8 DEF Becomes, w
<1> QED
  BY <1>5, <1>6

\* dhcpv6.c: a Reply to a Solicit with rapid commit (solicitation_cb).
LEMMA CommittedGood ==
    ASSUME RTR_SOLICITATIONS \in Nat, Good(s), RapidlyCommitted
    PROVE  Good(s')
<1>1. PICK status \in {"success", "noaddrs"}, lease \in Leases, how \in Uses :
        /\ s.d.listen = "solicit"
        /\ Becomes(solicitation_cb(get_dhcpv6_request(s, status, lease), status, how))
  BY DEF RapidlyCommitted
<1> DEFINE w == get_dhcpv6_request(s, status, lease)
           q == arm(w, NONE)
<1>2. Live(s)
  BY <1>1, AnswerLive
<1>3. lease \in Ages /\ lease # NONE
  BY DEF Leases, Ages, NONE
<1>4. /\ Live(w) /\ Exchanging(w) /\ w.d.listen = NONE
      /\ status = "success" => w.d.lease = lease
  BY <1>2, <1>3, Received
<1> HIDE DEF w
<1>5. Same(w, q) /\ q.d.timer = NONE /\ q.d.listen = NONE
  BY <1>4, Arming DEF Timers
<1>6. clear_timer(w) = q
  BY DEF clear_timer, arm
<1> HIDE DEF q
<1>7. Live(q) /\ Ending(q)
  BY <1>4, <1>5, LiveSame, LiveEnding
<1>8. solicitation_cb(w, status, how) = IF status # "success" THEN fail(q) ELSE do_dad(q, how)
  BY <1>6 DEF solicitation_cb
<1>9. status = "success" => q.d.lease # NONE
  BY <1>3, <1>4, <1>5 DEF Same
<1>10. Good(solicitation_cb(w, status, how))
  BY <1>5, <1>7, <1>8, <1>9, Failing, Detecting
<1> QED
  BY <1>1, <1>10 DEF Becomes, w

-------------------------------------------------------------------------------
(* The timers of the stateful exchange.                                    *)

\* dhcpv6.c: a message that was not answered is sent again.
LEMMA Retransmitted ==
    ASSUME NEW w, Good(w), w.d.timer \notin InfoTimers, w.d.timer # NONE,
           w.d.listen # NONE, NEW u, Same(w, u), u.d.timer = w.d.timer, u.d.listen = w.d.listen
    PROVE  Good(retransmit(u, w.d.timer))
<1>1. Live(w) /\ Exchanging(w) /\ Phase(w.d.timer, w.d.listen)
  BY TimerLive
<1>2. Live(u) /\ w.d.timer \in Timers /\ w.d.listen \in Listens
  BY <1>1, LiveSame, NetworkFields DEF Exchanging
<1>3. w.d.listen # "decline"
  BY <1>1 DEF Phase, NONE
<1>4. Good(g_dhcp_client_start(arm(u, w.d.timer), w.d.listen))
  BY <1>1, <1>2, <1>3, Sending
<1> QED
  BY <1>4 DEF retransmit

\* dhcpv6.c: the delay before the first Solicit is over (start_solicitation).
LEMMA SolicitationGood ==
    ASSUME Good(s), StartSolicitation
    PROVE  Good(s')
<1>1. s.d.timer \notin InfoTimers /\ s.d.timer # NONE
  BY DEF StartSolicitation, Fires, InfoTimers, NONE
<1>2. s.d.listen = NONE
  BY <1>1, TimerLive DEF StartSolicitation, Fires, Phase, NONE
<1>3. \A made \in Made : Good(start_solicitation(s, made))
  BY <1>1, <1>2, TimerLive, Solicited
<1> QED
  BY <1>3 DEF StartSolicitation, Becomes

\* The stateless exchange repeats its message in the same way.
LEMMA InfoRepeated ==
    ASSUME NEW w, Good(w), w.d.timer \in InfoTimers
    PROVE  Good(g_dhcp_client_start(arm(w, "timeout_info_req"), "info"))
<1> DEFINE u == arm(w, "timeout_info_req")
           r == g_dhcp_client_start(u, "info")
<1>1. NoDhcp.timer \notin InfoTimers
  BY DEF NoDhcp, InfoTimers, NONE
<1>2. w.d.on
  BY <1>1 DEF Good, Off
<1>3. Exchanging(w) /\ Informing(w) /\ w.connected /\ w.solicit = 0
  BY <1>2 DEF Good, On, Leasing, Exchanging
<1>4. Same(w, u) /\ u.d.timer = "timeout_info_req"
  BY <1>3, Arming DEF Timers
<1>5. Exchanging(u)
  BY <1>4, SameExchanging
<1> HIDE DEF u
<1>6. Same(u, r) /\ r.d.timer = "timeout_info_req" /\ r.d.listen = "info"
  BY <1>4, <1>5, Listening DEF Listens
<1> HIDE DEF r
<1>7. Good(r)
  BY <1>3, <1>4, <1>6 DEF Good, On, Informing, Same, Calm, Phase, InfoTimers
<1> QED
  BY <1>7 DEF r, u

\* dhcpv6.c: a Solicit or an Information-request is sent again.
LEMMA ResendGood ==
    ASSUME Good(s), Resend
    PROVE  Good(s')
<1>1. CASE s.d.timer = "timeout_solicitation"
  <2>1. s' = retransmit(s, "timeout_solicitation")
    BY <1>1 DEF Resend, Fires, Becomes
  <2>2. s.d.timer \notin InfoTimers /\ s.d.timer # NONE
    BY <1>1 DEF InfoTimers, NONE
  <2>3. Exchanging(s) /\ Phase(s.d.timer, s.d.listen)
    BY <2>2, TimerLive
  <2>4. s.d.listen # NONE
    BY <1>1, <2>3 DEF Phase, NONE
  <2>5. Same(s, s)
    BY <2>3, SameRefl
  <2>6. Good(retransmit(s, s.d.timer))
    BY <2>2, <2>4, <2>5, Retransmitted
  <2> QED
    BY <1>1, <2>1, <2>6
<1>2. CASE s.d.timer = "timeout_info_req"
  <2>1. s' = retransmit(s, "timeout_info_req")
    BY <1>2 DEF Resend, Fires, Becomes
  <2>2. s.d.timer \in InfoTimers
    BY <1>2 DEF InfoTimers
  <2>3. NoDhcp.timer # "timeout_info_req"
    BY DEF NoDhcp, NONE
  <2>4. s.d.on
    BY <1>2, <2>3 DEF Good, Off
  <2>5. s.d.listen = "info"
    BY <1>2, <2>4 DEF Good, On, Phase, NONE
  <2>6. s' = g_dhcp_client_start(arm(s, "timeout_info_req"), "info")
    BY <2>1, <2>5 DEF retransmit
  <2> QED
    BY <2>2, <2>6, InfoRepeated
<1> QED
  BY <1>1, <1>2 DEF Resend, Fires

\* dhcpv6.c: the delay before the Information-request is over (start_info_req).
LEMMA StartInfoGood ==
    ASSUME Good(s), StartInfo
    PROVE  Good(s')
<1> DEFINE r == arm(s, NONE)
<1>1. PICK made \in Made : s.d.timer = "start_info_req" /\ s' = start_info_req(s, made)
  BY DEF StartInfo, Fires, Becomes
<1>2. s.d.timer \in InfoTimers
  BY <1>1 DEF InfoTimers
<1>3. CASE made
  BY <1>1, <1>2, <1>3, InfoRepeated DEF start_info_req
<1>4. CASE ~made
  <2>1. s' = r
    BY <1>1, <1>4 DEF start_info_req, clear_timer, arm
  <2>2. NoDhcp.timer \notin InfoTimers
    BY DEF NoDhcp, InfoTimers, NONE
  <2>3. s.d.on
    BY <1>2, <2>2 DEF Good, Off
  <2>4. Exchanging(s) /\ Informing(s) /\ s.connected /\ s.solicit = 0 /\ s.d.listen = NONE
    BY <1>1, <1>2, <2>3 DEF Good, On, Leasing, Exchanging, Phase, NONE
  <2>5. Same(s, r) /\ r.d.timer = NONE /\ r.d.listen = NONE
    BY <2>4, Arming DEF Timers
  <2>6. ~Smooth
    BY <1>4 DEF Smooth, Made
  <2> HIDE DEF r
  <2>7. Good(r)
    BY <2>4, <2>5, <2>6 DEF Good, On, Informing, Same, Calm, Phase
  <2> QED
    BY <2>1, <2>7
<1> QED
  BY <1>3, <1>4

\* dhcpv6.c: a Request is repeated until REQ_MAX_RC is reached (timeout_request).
LEMMA ResendRequestGood ==
    ASSUME RTR_SOLICITATIONS \in Nat, Good(s), ResendRequest
    PROVE  Good(s')
<1>1. PICK timer \in {"timeout_request", "timeout_request_resend"} :
        s.d.timer = timer /\ s' = timeout_request(s, timer)
  BY DEF ResendRequest, Fires, Becomes
<1>2. s.d.timer \notin InfoTimers /\ s.d.timer # NONE
  BY <1>1 DEF InfoTimers, NONE
<1>3. Live(s) /\ Exchanging(s) /\ Phase(s.d.timer, s.d.listen)
  BY <1>2, TimerLive
<1>4. s.d.listen # NONE
  BY <1>1, <1>3 DEF Phase, NONE
<1>5. CASE s.d.count >= REQ_MAX_RC
  <2> DEFINE u == [s EXCEPT !.d.count = 0]
             r == arm(u, NONE)
  <2>1. Same(s, u)
    BY <1>3, Counting, Zenon
  <2>2. Live(u) /\ Exchanging(u)
    BY <1>3, <2>1, LiveSame
  <2>3. r = [s EXCEPT !.d.count = 0, !.d.timer = NONE]
    BY DEF arm
  <2> HIDE DEF u
  <2>4. Same(u, r)
    BY <2>2, Arming DEF Timers
  <2> HIDE DEF r
  <2>5. Ending(r)
    BY <2>2, <2>4, LiveSame, LiveEnding
  <2>6. timeout_request(s, timer) = fail(r)
    BY <1>5, <2>3 DEF timeout_request
  <2> QED
    BY <1>1, <2>5, <2>6, Failing
<1>6. CASE ~(s.d.count >= REQ_MAX_RC)
  <2> DEFINE n == s.d.count + 1
             u == [s EXCEPT !.d.count = n]
  <2>1. n \in Nat
    BY <1>3, NetworkFields DEF Exchanging
  <2>2. timeout_request(s, timer) = retransmit(u, timer)
    BY <1>6 DEF timeout_request
  <2> HIDE DEF n
  <2>3. Same(s, u) /\ u.d.timer = s.d.timer /\ u.d.listen = s.d.listen
    BY <1>3, <2>1, Counting
  <2> HIDE DEF u
  <2>4. Good(retransmit(u, s.d.timer))
    BY <1>2, <1>4, <2>3, Retransmitted
  <2> QED
    BY <1>1, <2>2, <2>4
<1> QED
  BY <1>5, <1>6

\* dhcpv6.c: the Request that waited is sent (request_resend).
LEMMA RequestResendGood ==
    ASSUME Good(s), RequestResend
    PROVE  Good(s')
<1>1. s.d.timer \notin InfoTimers /\ s.d.timer # NONE
  BY DEF RequestResend, Fires, InfoTimers, NONE
<1>2. Live(s)
  BY <1>1, TimerLive
<1>3. Good(g_dhcp_client_start(arm(s, "timeout_request_resend"), "request"))
  BY <1>2, Sending DEF Phase, Timers, Listens, InfoTimers, NONE
<1> QED
  BY <1>3 DEF RequestResend, Becomes, request_resend, dhcpv6_request

\* dhcpv6.c: a lease that is over by the time its timer fires is given up.
LEMMA Expired ==
    ASSUME NEW w, Good(w), w.d.timer \in {"start_rebind", "timeout_rebind", "timeout_renew"}
    PROVE  Good(check_restart(w))
<1>1. w.d.timer \notin InfoTimers /\ w.d.timer # NONE
  BY DEF InfoTimers, NONE
<1>2. Live(w) /\ Exchanging(w) /\ Phase(w.d.timer, w.d.listen)
  BY <1>1, TimerLive
<1> DEFINE r == check_restart(w)
<1>3. /\ Exchanging(r) /\ r.d.cb = w.d.cb /\ r.d.timer = NONE
      /\ r.d.listen = w.d.listen /\ (r.d.stateless <=> w.d.stateless)
      /\ (r.connected <=> w.connected) /\ (r.addr <=> w.addr) /\ r.solicit = w.solicit
      /\ r.idle = "live" /\ r.dad = w.dad /\ r.declined = w.declined
  BY <1>2, Expiring
<1> HIDE DEF r
<1>4. w.d.listen \in {NONE, "renew", "rebind"}
  BY <1>2 DEF Phase, NONE
<1>5. Good(r)
  BY <1>2, <1>3, <1>4 DEF Good, Live, Exchanging, On, Leasing, Calm, Phase, InfoTimers, NONE
<1> QED
  BY <1>5 DEF r

\* dhcpv6.c: T1 has passed (start_renew).
LEMMA StartRenewGood ==
    ASSUME Good(s), StartRenew
    PROVE  Good(s')
<1>1. s.d.timer \notin InfoTimers /\ s.d.timer # NONE
  BY DEF StartRenew, Fires, InfoTimers, NONE
<1>2. Live(s)
  BY <1>1, TimerLive
<1>3. Good(g_dhcp_client_start(arm(s, "timeout_renew"), "renew"))
  BY <1>2, Sending DEF Phase, Timers, Listens, InfoTimers, NONE
<1> QED
  BY <1>3 DEF StartRenew, Becomes, start_renew, dhcpv6_renew

\* dhcpv6.c, start_rebind
LEMMA Rebinding ==
    ASSUME NEW w, Good(w), w.d.timer \in {"start_rebind", "timeout_rebind", "timeout_renew"}
    PROVE  Good(start_rebind(w))
<1>1. w.d.timer \notin InfoTimers /\ w.d.timer # NONE
  BY DEF InfoTimers, NONE
<1>2. Live(w)
  BY <1>1, TimerLive
<1>3. Good(g_dhcp_client_start(arm(w, "timeout_rebind"), "rebind"))
  BY <1>2, Sending DEF Phase, Timers, Listens, InfoTimers, NONE
<1>4. Good(check_restart(w))
  BY Expired
<1> QED
  BY <1>3, <1>4 DEF start_rebind, dhcpv6_rebind

\* dhcpv6.c: a Renew or a Rebind goes unanswered, or T2 has passed.
LEMMA RenewTimersGood ==
    ASSUME Good(s), TimeoutRenew \/ StartRebind \/ TimeoutRebind
    PROVE  Good(s')
<1>1. CASE StartRebind
  BY <1>1, Rebinding DEF StartRebind, Fires, Becomes
<1>2. CASE TimeoutRebind \/ TimeoutRenew
  <2>1. s.d.timer \in {"timeout_rebind", "timeout_renew"}
    BY <1>2 DEF TimeoutRebind, TimeoutRenew, Fires
  <2>2. s.d.timer \notin InfoTimers /\ s.d.timer # NONE
    BY <2>1 DEF InfoTimers, NONE
  <2>3. Exchanging(s) /\ Phase(s.d.timer, s.d.listen)
    BY <2>2, TimerLive
  <2>4. s.d.listen # NONE
    BY <2>1, <2>3 DEF Phase, NONE
  <2>5. Same(s, s)
    BY <2>3, SameRefl
  <2>6. Good(retransmit(s, s.d.timer))
    BY <2>2, <2>4, <2>5, Retransmitted
  <2>7. Good(check_restart(s)) /\ Good(start_rebind(s))
    BY <2>1, Expired, Rebinding
  <2>8. s' \in {check_restart(s), start_rebind(s), retransmit(s, s.d.timer)}
    <3>1. CASE TimeoutRebind
      BY <3>1 DEF TimeoutRebind, Fires, Becomes, timeout_rebind
    <3>2. CASE TimeoutRenew
      BY <3>2 DEF TimeoutRenew, Fires, Becomes, timeout_renew
    <3> QED
      BY <1>2, <3>1, <3>2
  <2> QED
    BY <2>6, <2>7, <2>8
<1> QED
  BY <1>1, <1>2

-------------------------------------------------------------------------------
(* Pending callbacks.                                                      *)

\* What Good says of an exchange that runs.
LEMMA OnFields ==
    ASSUME NEW w, Good(w), w.d.on
    PROVE  /\ Exchanging(w) /\ w.connected /\ w.solicit = 0 /\ w \in Networks /\ Counted(w)
           /\ Phase(w.d.timer, w.d.listen) /\ (Informing(w) \/ Leasing(w))
  BY DEF Good, On, Exchanging

\* A pending callback belongs to a stateful exchange that still runs.
LEMMA PendingLeasing ==
    ASSUME NEW w, Good(w), ~Calm(w)
    PROVE  w.d.on /\ Leasing(w)
  BY DEF Good, On, Off, Informing

\* dhcpv6_restart from the idle callback.
LEMMA RestartGood ==
    ASSUME RTR_SOLICITATIONS \in Nat, Good(s), Restart
    PROVE  Good(s')
<1> DEFINE u == [s EXCEPT !.idle = NONE]
<1>1. s.idle = "live" /\ s' = fail(u)
  BY DEF Restart, Becomes, dhcpv6_restart
<1>2. s.d.on /\ Leasing(s)
  BY <1>1, PendingLeasing DEF Calm, NONE
<1>3. s \in Networks /\ Counted(s) /\ s.connected /\ s.solicit = 0
  BY <1>2, OnFields
<1>4. u \in Networks
  BY <1>3 DEF Networks
<1>5. /\ u.d = s.d /\ (u.connected <=> s.connected) /\ (u.addr <=> s.addr)
      /\ u.solicit = s.solicit /\ u.idle = NONE /\ u.dad = s.dad /\ u.declined = s.declined
      /\ u.rs = s.rs /\ u.refresh = s.refresh /\ u.refs = s.refs
  BY <1>3 DEF Networks
<1> HIDE DEF u
<1>6. Counted(u)
  BY <1>3, <1>5 DEF Counted
<1>7. Ending(u)
  BY <1>1, <1>2, <1>3, <1>4, <1>5, <1>6 DEF Ending, Leasing, Calm, NONE
<1> QED
  BY <1>1, <1>7, Failing

\* dhcpv6.c: the address is free and used, or taken and declined.
LEMMA DadEndsGood ==
    ASSUME Good(s), DadEnds
    PROVE  Good(s')
<1>1. s.dad # NONE /\ \E how \in {"taken", "succeed", "unset"} : s' = dad_reply(s, how)
  BY DEF DadEnds, Becomes
<1>2. s.d.on /\ Leasing(s)
  BY <1>1, PendingLeasing DEF Calm
<1>3. Exchanging(s) /\ s \in Networks /\ Counted(s) /\ s.connected /\ s.solicit = 0
  BY <1>2, OnFields
<1>4. s.dad \in Followers
  BY <1>1, <1>3, NetworkFields
<1>5. /\ s.d.timer = NONE /\ s.d.listen = NONE /\ s.d.lease # NONE /\ s.declined = NONE
      /\ s.idle = NONE /\ ~s.d.stateless /\ s.d.cb \in Followers
  BY <1>1, <1>2 DEF Leasing, NONE
<1>6. CASE s' = dad_reply(s, "succeed") \/ s' = dad_reply(s, "unset")
  <2> DEFINE u == [s EXCEPT !.dad = NONE]
  <2>1. s' = report(u, s.dad, "succeed") \/ s' = report(u, s.dad, "unset")
    BY <1>6 DEF dad_reply
  <2>2. u \in Networks
    BY <1>3 DEF Networks
  <2>3. /\ u.d = s.d /\ (u.connected <=> s.connected) /\ (u.addr <=> s.addr)
        /\ u.solicit = s.solicit /\ u.idle = s.idle /\ u.dad = NONE /\ u.declined = s.declined
        /\ u.rs = s.rs /\ u.refresh = s.refresh /\ u.refs = s.refs
    BY <1>3 DEF Networks
  <2> HIDE DEF u
  <2>4. Exchanging(u)
    BY <1>3, <2>2, <2>3 DEF Exchanging, Counted
  <2>5. Good(report(u, s.dad, "succeed"))
    BY <1>3, <1>4, <1>5, <2>3, <2>4, Succeeding DEF Calm
  <2>6. Good(report(u, s.dad, "unset"))
    BY <1>3, <1>4, <1>5, <2>3, <2>4, Refused DEF Calm
  <2> QED
    BY <2>1, <2>5, <2>6
<1>7. CASE s' = dad_reply(s, "taken")
  <2> DEFINE u == g_dhcp_client_start(s, "decline")
             r == [u EXCEPT !.declined = s.dad, !.dad = NONE]
  <2>1. Same(s, u) /\ u.d.timer = NONE /\ u.d.listen = "decline"
    BY <1>3, <1>5, Listening DEF Listens
  <2>2. s' = r
    <3>1. s' = [[s EXCEPT !.declined = s.dad, !.d.listen = "decline"] EXCEPT !.dad = NONE]
      BY <1>2, <1>7 DEF dad_reply, dhcpv6_decline
    <3> QED
      BY <1>3, <3>1, Zenon DEF g_dhcp_client_start, Networks
  <2> HIDE DEF u
  <2>3. u \in Networks
    BY <2>1 DEF Same
  <2>4. r \in Networks
    BY <1>4, <2>3, ZenonT(30) DEF Networks
  <2>5. /\ r.d = u.d /\ (r.connected <=> u.connected) /\ (r.addr <=> u.addr)
        /\ r.solicit = u.solicit /\ r.idle = u.idle /\ r.dad = NONE /\ r.declined = s.dad
        /\ r.rs = u.rs /\ r.refresh = u.refresh /\ r.refs = u.refs
    BY <2>3 DEF Networks
  <2> HIDE DEF r
  <2>6. Counted(r)
    BY <2>1, <2>5 DEF Same, Counted
  <2>7. s.addr => s.d.cb = "renew"
    BY <1>1, <1>2 DEF Leasing, Calm
  <2>8. Good(r)
    BY <1>1, <1>3, <1>5, <2>1, <2>4, <2>5, <2>6, <2>7
       DEF Good, On, Same, Leasing, Phase, Calm, InfoTimers, NONE
  <2> QED
    BY <2>2, <2>8
<1> QED
  BY <1>1, <1>6, <1>7, Zenon

\* dhcpv6.c: the Decline is answered or given up (decline_reply_callback).
LEMMA DeclineEndsGood ==
    ASSUME RTR_SOLICITATIONS \in Nat, Good(s), DeclineEnds
    PROVE  Good(s')
<1> DEFINE u == g_dhcp_client_start(s, NONE)
           v == [u EXCEPT !.declined = NONE]
<1>1. s.declined # NONE /\ s' = decline_reply_callback(s)
  BY DEF DeclineEnds, Becomes
<1>2. s.d.on /\ Leasing(s)
  BY <1>1, PendingLeasing DEF Calm
<1>3. Exchanging(s) /\ s \in Networks /\ s.connected /\ s.solicit = 0
  BY <1>2, OnFields
<1>4. s.declined \in Followers
  BY <1>1, <1>3, NetworkFields
<1>5. s.idle = NONE /\ s.dad = NONE
  BY <1>1, <1>2 DEF Leasing, NONE
<1>6. Same(s, u)
  BY <1>3, Listening DEF Listens
<1>7. s' = report(v, s.declined, "restart")
  <2>1. v = [s EXCEPT !.declined = NONE, !.d.listen = NONE]
    BY <1>3, Zenon DEF g_dhcp_client_start, Networks
  <2> QED
    BY <1>1, <2>1 DEF decline_reply_callback
<1> HIDE DEF u
<1>8. u \in Networks
  BY <1>6 DEF Same
<1>9. v \in Networks
  BY <1>8 DEF Networks
<1>10. /\ v.d = u.d /\ v.solicit = u.solicit /\ v.idle = u.idle /\ v.dad = u.dad
       /\ v.declined = NONE /\ v.rs = u.rs /\ v.refresh = u.refresh /\ v.refs = u.refs
  BY <1>8 DEF Networks
<1> HIDE DEF v
<1>11. Counted(v) /\ v.d.on /\ Calm(v) /\ v.solicit = 0
  BY <1>3, <1>5, <1>6, <1>10 DEF Same, Counted, Calm
<1> QED
  BY <1>4, <1>7, <1>9, <1>11, Restarting

-------------------------------------------------------------------------------
(* The stateless exchange, and time.                                       *)

\* dhcpv6.c: the stateless exchange ends with its answer (info_req_cb).
LEMMA InformedGood ==
    ASSUME RTR_SOLICITATIONS \in Nat, Good(s), Informed
    PROVE  Good(s')
<1>1. s.d.listen = "info" /\ s' = report(s, s.d.cb, "succeed")
  BY DEF Informed, Becomes, info_req_cb
<1>2. NoDhcp.listen = NONE
  BY DEF NoDhcp
<1>3. s.d.on
  BY <1>1, <1>2 DEF Good, Off, NONE
<1>4. Informing(s) /\ s \in Networks /\ Counted(s) /\ s.connected /\ s.solicit = 0
  BY <1>1, <1>3, OnFields DEF Phase, Leasing, InfoTimers, NONE
<1>5. Ending(s)
  BY <1>3, <1>4 DEF Ending, Informing
<1>6. s' = fail(s)
  BY <1>1, <1>4 DEF fail, report, Informing
<1> QED
  BY <1>5, <1>6, Failing

\* The lease grows older.
LEMMA TimePassesGood ==
    ASSUME Good(s), TimePasses
    PROVE  Good(s')
<1>1. PICK x \in {"t1", "t2", "over"} :
        s' = [s EXCEPT !.d.lease = x] /\ s.d.lease \in {"t0", "t1", "t2"}
  <2>1. PICK i \in 1 .. 3 : LET ages == <<"t0", "t1", "t2", "over">> IN
          s.d.lease = ages[i] /\ s' = [s EXCEPT !.d.lease = ages[i + 1]]
    BY DEF TimePasses, Becomes
  <2>2. i = 1 \/ i = 2 \/ i = 3
    OBVIOUS
  <2>3. CASE i = 1
    BY <2>1, <2>3
  <2>4. CASE i = 2
    BY <2>1, <2>4
  <2>5. CASE i = 3
    BY <2>1, <2>5
  <2> QED
    BY <2>2, <2>3, <2>4, <2>5
<1> DEFINE r == [s EXCEPT !.d.lease = x]
<1>2. NoDhcp.lease = NONE
  BY DEF NoDhcp
<1>3. s.d.on
  BY <1>1, <1>2 DEF Good, Off, NONE
<1>4. /\ Exchanging(s) /\ s.connected /\ s.solicit = 0
      /\ Phase(s.d.timer, s.d.listen) /\ (Informing(s) \/ Leasing(s))
  BY <1>3, OnFields
<1>5. x \in Ages
  BY DEF Ages
<1>6. /\ Exchanging(r) /\ r.d.cb = s.d.cb /\ r.d.timer = s.d.timer /\ r.d.listen = s.d.listen
      /\ r.d.lease = x /\ (r.d.stateless <=> s.d.stateless)
      /\ (r.connected <=> s.connected) /\ (r.addr <=> s.addr) /\ r.solicit = s.solicit
      /\ r.idle = s.idle /\ r.dad = s.dad /\ r.declined = s.declined
  BY <1>4, <1>5, Ageing
<1> HIDE DEF r
<1>7. Informing(r) \/ Leasing(r)
  BY <1>1, <1>4, <1>6 DEF Informing, Leasing, Calm, NONE
<1>8. Good(r)
  BY <1>4, <1>6, <1>7 DEF Good, On, Exchanging
<1> QED
  BY <1>1, <1>8 DEF r

-------------------------------------------------------------------------------
(* The network.                                                            *)

\* What does not touch the exchange, its callbacks or the address keeps the rest.
LEMMA Framed ==
    ASSUME NEW w, Good(w), NEW r \in Networks, Counted(r), r.d = w.d,
           r.connected <=> w.connected, r.addr <=> w.addr, r.idle = w.idle, r.dad = w.dad,
           r.declined = w.declined, r.solicit = w.solicit \/ r.solicit = 0 \/ ~w.d.on
    PROVE  Good(r)
  BY DEF Good, On, Off, Informing, Leasing, Calm

\* network.c: a connected network solicits routers (autoconf_ipv6_set).
LEMMA ConnectedGood ==
    ASSUME RTR_SOLICITATIONS \in Nat, Good(s), Connected
    PROVE  Good(s')
<1> DEFINE u == [s EXCEPT !.connected = TRUE]
<1>1. ~s.connected /\ s' = autoconf_ipv6_set(u)
  BY DEF Connected, Becomes
<1>2. ~s.d.on /\ Off(s) /\ s \in Networks /\ Counted(s)
  BY <1>1 DEF Good, On
<1>3. u \in Networks
  BY <1>2, Zenon DEF Networks
<1>4. /\ u.d = s.d /\ (u.addr <=> s.addr) /\ u.solicit = s.solicit
      /\ u.idle = s.idle /\ u.dad = s.dad /\ u.declined = s.declined
      /\ u.rs = s.rs /\ u.refresh = s.refresh /\ u.refs = s.refs
  BY <1>2 DEF Networks
<1> HIDE DEF u
<1>5. Counted(u) /\ Off(u) /\ Calm(u) /\ ~u.d.on /\ u.d = NoDhcp
  BY <1>2, <1>4 DEF Counted, Off, Calm
<1>6. u.solicit \in Nat
  BY <1>3, NetworkFields
<1>7. CASE u.solicit = 0
  BY <1>1, <1>3, <1>5, <1>7, Soliciting
<1>8. CASE u.solicit > 0
  BY <1>1, <1>3, <1>5, <1>8 DEF autoconf_ipv6_set, Good
<1> QED
  BY <1>6, <1>7, <1>8

\* network.c: the network goes down.
LEMMA DisconnectedGood ==
    ASSUME ~Late, Good(s), Disconnected
    PROVE  Good(s')
  BY Disconnecting DEF Disconnected, Becomes, Undisturbed, Calm, Good, Off

\* network.c: a new configuration releases the lease and solicits again.
LEMMA ReconfiguredGood ==
    ASSUME RTR_SOLICITATIONS \in Nat, ~Late, Good(s), Reconfigured
    PROVE  Good(s')
<1> DEFINE v == release_dhcpv6(s)
<1>1. Calm(s) /\ s' = autoconf_ipv6_set(v)
  BY DEF Reconfigured, Becomes, Undisturbed, Calm
<1>2. /\ v \in Networks /\ Counted(v) /\ Calm(v) /\ v.d = NoDhcp
      /\ v.solicit = s.solicit /\ (s.d.on \/ v = s)
  BY <1>1, Released DEF Good, Off
<1> HIDE DEF v
<1>3. v.solicit \in Nat
  BY <1>2, NetworkFields
<1>4. CASE v.solicit = 0
  BY <1>1, <1>2, <1>4, Soliciting
<1>5. CASE v.solicit > 0
  <2>1. v = s
    BY <1>2, <1>5, OnFields
  <2> QED
    BY <1>1, <1>5, <2>1 DEF autoconf_ipv6_set
<1> QED
  BY <1>3, <1>4, <1>5

\* network.c: an answer to a solicitation, or its absence, gives one reference back.
LEMMA RouterFields ==
    ASSUME NEW w, Good(w), w.rs > 0, NEW n \in Nat, n = w.solicit \/ n = 0 \/ ~w.d.on
    PROVE  LET r == [w EXCEPT !.rs = w.rs - 1, !.solicit = n, !.refs = w.refs - 1] IN
           /\ Good(r) /\ r.d = w.d /\ (r.connected <=> w.connected) /\ r.solicit = n
           /\ r.refs = w.refs - 1 /\ r.rs = w.rs - 1 /\ r.refresh = w.refresh
<1> DEFINE m == w.rs - 1
           k == w.refs - 1
           r == [w EXCEPT !.rs = m, !.solicit = n, !.refs = k]
<1>1. w \in Networks /\ Counted(w)
  BY DEF Good
<1>2. m \in Nat /\ k \in Int /\ w.refresh \in Nat
  BY <1>1, NetworkFields
<1>3. ASSUME NEW a \in Nat, NEW b \in Int
      PROVE  [w EXCEPT !.rs = a, !.solicit = n, !.refs = b] \in Networks
  BY <1>1, Zenon DEF Networks
<1>4. r \in Networks
  BY <1>2, <1>3, Zenon
<1>5. m = w.rs - 1 /\ k = w.refs - 1
  OBVIOUS
<1> HIDE DEF m, k
<1>6. /\ r.d = w.d /\ (r.addr <=> w.addr) /\ (r.connected <=> w.connected) /\ r.solicit = n
      /\ r.idle = w.idle /\ r.dad = w.dad /\ r.declined = w.declined
      /\ r.rs = m /\ r.refresh = w.refresh /\ r.refs = k
  BY <1>1 DEF Networks
<1> HIDE DEF r
<1>7. Counted(r)
  <2>1. w.rs \in Nat /\ w.refs \in Int
    BY <1>1, NetworkFields
  <2> QED
    BY <1>1, <1>2, <1>5, <1>6, <2>1 DEF Counted
<1>8. Good(r)
  BY <1>4, <1>6, <1>7, Framed
<1> QED
  BY <1>5, <1>6, <1>8 DEF r, m, k

\* network.c: no router has answered (check_dhcpv6 without a reply).
LEMMA RouterSilentGood ==
    ASSUME Good(s), RouterSilent
    PROVE  Good(s')
<1>1. s.rs > 0 /\ s' = check_dhcpv6_NoReply(s)
  BY DEF RouterSilent, Becomes
<1>2. s \in Networks /\ Counted(s) /\ s.solicit \in Nat /\ s.rs \in Nat
  BY NetworkFields DEF Good
<1>3. CASE s.solicit > 0
  <2> DEFINE n == s.solicit - 1
             r == [s EXCEPT !.solicit = n]
  <2>1. n \in Nat
    BY <1>2, <1>3
  <2>2. s' = r
    <3>1. s' = [s EXCEPT !.rs = (s.rs - 1) + 1, !.solicit = s.solicit - 1]
      BY <1>1, <1>2, <1>3, Zenon DEF check_dhcpv6_NoReply, __connman_inet_ipv6_send_rs, Networks
    <3>2. (s.rs - 1) + 1 = s.rs
      BY <1>2
    <3> QED
      BY <1>2, <3>1, <3>2, Zenon DEF Networks
  <2> HIDE DEF n
  <2>3. r \in Networks
    BY <1>2, <2>1 DEF Networks
  <2>4. /\ r.d = s.d /\ (r.addr <=> s.addr) /\ (r.connected <=> s.connected)
        /\ r.idle = s.idle /\ r.dad = s.dad /\ r.declined = s.declined
        /\ r.rs = s.rs /\ r.refresh = s.refresh /\ r.refs = s.refs
    BY <1>2 DEF Networks
  <2> HIDE DEF r
  <2>5. Counted(r)
    BY <1>2, <2>4 DEF Counted
  <2>6. ~s.d.on
    BY <1>2, <1>3, OnFields
  <2>7. Good(r)
    BY <2>3, <2>4, <2>5, <2>6, Framed
  <2> QED
    BY <2>2, <2>7
<1>4. CASE ~(s.solicit > 0)
  <2> DEFINE r == [s EXCEPT !.rs = s.rs - 1, !.solicit = s.solicit, !.refs = s.refs - 1]
  <2>1. Good(r)
    BY <1>1, <1>2, RouterFields, Zenon
  <2>2. s' = r
    BY <1>1, <1>2, <1>4, Zenon DEF check_dhcpv6_NoReply, Networks
  <2> QED
    BY <2>1, <2>2
<1> QED
  BY <1>3, <1>4

\* dhcpv6.c: an exchange begins only where none runs.
LEMMA Beginning ==
    ASSUME NEW w, Good(w), w.connected, w.solicit = 0, NEW stateless \in BOOLEAN
    PROVE  Good(begin(w, stateless, IF stateless THEN "info" ELSE "start",
                      IF stateless THEN "start_info_req" ELSE "start_solicitation"))
<1> DEFINE cb == IF stateless THEN "info" ELSE "start"
           timer == IF stateless THEN "start_info_req" ELSE "start_solicitation"
           e == [NoDhcp EXCEPT !.on = TRUE, !.stateless = stateless, !.cb = cb, !.timer = timer]
           n == w.refs + 1
           r == [w EXCEPT !.d = e, !.refs = n]
<1>1. CASE w.d.on
  BY <1>1 DEF begin
<1>2. CASE ~w.d.on
  <2>1. begin(w, stateless, cb, timer) = r
    BY <1>2 DEF begin
  <2>2. w \in Networks /\ Counted(w) /\ Off(w)
    BY <1>2 DEF Good
  <2>3. n \in Int /\ n = w.refs + 1
    BY <2>2, NetworkFields
  <2>4. /\ cb \in {"info", "start"} /\ timer \in {"start_info_req", "start_solicitation"}
        /\ stateless => cb = "info" /\ timer = "start_info_req"
        /\ ~stateless => cb = "start" /\ timer = "start_solicitation"
    OBVIOUS
  <2> HIDE DEF cb, timer, n
  <2>5. NoDhcp \in Exchanges /\ NoDhcp.listen = NONE
    BY DEF NoDhcp, Exchanges, Timers, Listens, Ages
  <2>6. e \in Exchanges
    BY <2>4, <2>5, Zenon DEF Exchanges, Timers
  <2>7. /\ e.on /\ (e.stateless <=> stateless) /\ e.timer = timer /\ e.cb = cb
        /\ e.listen = NONE
    BY <2>5 DEF Exchanges
  <2> HIDE DEF e
  <2>8. r \in Networks
    BY <2>2, <2>3, <2>6, Zenon DEF Networks
  <2>9. /\ r.d = e /\ (r.addr <=> w.addr) /\ (r.connected <=> w.connected)
        /\ r.solicit = w.solicit /\ r.idle = w.idle /\ r.dad = w.dad /\ r.declined = w.declined
        /\ r.rs = w.rs /\ r.refresh = w.refresh /\ r.refs = n
    BY <2>2 DEF Networks
  <2> HIDE DEF r
  <2>10. Counted(r)
    <3>1. w.rs \in Nat /\ w.refresh \in Nat /\ w.refs \in Int
      BY <2>2, NetworkFields
    <3> QED
      BY <1>2, <2>2, <2>3, <2>7, <2>9, <3>1 DEF Counted
  <2>11. CASE stateless
    <3>1. Informing(r)
      BY <2>2, <2>4, <2>7, <2>9, <2>11 DEF Informing, Off, Calm, InfoTimers
    <3> QED
      BY <2>1, <2>4, <2>7, <2>8, <2>9, <2>10, <2>11, <3>1, ZenonT(30) DEF Good, On, Phase, cb, timer
  <2>12. CASE ~stateless
    <3>1. Leasing(r)
      BY <2>2, <2>4, <2>7, <2>9, <2>12 DEF Leasing, Off, Calm, InfoTimers, Followers, NONE
    <3> QED
      BY <2>1, <2>4, <2>7, <2>8, <2>9, <2>10, <2>12, <3>1 DEF Good, On, Phase, cb, timer
  <2> QED
    BY <2>11, <2>12
<1> QED
  BY <1>1, <1>2

\* network.c: the flags of the advertisement choose the exchange (check_dhcpv6).
LEMMA RouterAdvertisesGood ==
    ASSUME Good(s), RouterAdvertises
    PROVE  Good(s')
<1> DEFINE q == [s EXCEPT !.rs = s.rs - 1, !.solicit = 0, !.refs = s.refs - 1]
<1>1. Good(q) /\ (q.connected <=> s.connected) /\ q.solicit = 0
  BY RouterFields, Zenon DEF RouterAdvertises
<1>2. PICK flags \in {"managed", "other", "neither"} : s' = check_dhcpv6(s, flags)
  BY DEF RouterAdvertises, Becomes
<1>3. CASE ~s.connected
  <2>1. s' = q
    BY <1>2, <1>3 DEF check_dhcpv6
  <2> QED
    BY <1>1, <2>1
<1>4. CASE s.connected /\ flags = "managed"
  <2>1. s' = __connman_dhcpv6_start(q)
    BY <1>2, <1>4 DEF check_dhcpv6
  <2> HIDE DEF q
  <2>2. s' = begin(q, FALSE, "start", "start_solicitation")
    BY <2>1 DEF __connman_dhcpv6_start
  <2>3. Good(begin(q, FALSE, "start", "start_solicitation"))
    BY <1>1, <1>4, Beginning, Zenon
  <2> QED
    BY <2>2, <2>3, Zenon
<1>5. CASE s.connected /\ flags = "other"
  <2>1. s' = __connman_dhcpv6_start_info(q)
    BY <1>2, <1>5 DEF check_dhcpv6
  <2> HIDE DEF q
  <2>2. s' = begin(q, TRUE, "info", "start_info_req")
    BY <2>1 DEF __connman_dhcpv6_start_info
  <2>3. Good(begin(q, TRUE, "info", "start_info_req"))
    BY <1>1, <1>5, Beginning, Zenon
  <2> QED
    BY <2>2, <2>3, Zenon
<1>6. CASE s.connected /\ flags = "neither"
  <2>1. s' = q
    BY <1>2, <1>6 DEF check_dhcpv6
  <2> QED
    BY <1>1, <2>1
<1> QED
  BY <1>2, <1>3, <1>4, <1>5, <1>6

\* network.c, inet.c: a refresh holds one reference until it is answered or given up.
LEMMA RefreshFields ==
    ASSUME NEW w, Good(w), NEW n \in Nat, NEW k \in Int,
           k - (IF n > 0 THEN 1 ELSE 0) = w.refs - (IF w.refresh > 0 THEN 1 ELSE 0)
    PROVE  Good([w EXCEPT !.refresh = n, !.refs = k])
<1> DEFINE r == [w EXCEPT !.refresh = n, !.refs = k]
<1>1. w \in Networks /\ Counted(w)
  BY DEF Good
<1>2. r \in Networks
  BY <1>1, Zenon DEF Networks
<1>3. /\ r.d = w.d /\ (r.addr <=> w.addr) /\ (r.connected <=> w.connected)
      /\ r.solicit = w.solicit /\ r.idle = w.idle /\ r.dad = w.dad /\ r.declined = w.declined
      /\ r.rs = w.rs /\ r.refresh = n /\ r.refs = k
  BY <1>1 DEF Networks
<1> HIDE DEF r
<1>4. Counted(r)
  <2>1. w.rs \in Nat /\ w.refresh \in Nat /\ w.refs \in Int
    BY <1>1, NetworkFields
  <2> QED
    BY <1>1, <1>3, <2>1 DEF Counted
<1>5. Good(r)
  BY <1>2, <1>3, <1>4, Framed
<1> QED
  BY <1>5 DEF r

\* inet.c: a refreshing solicitation holds the network.
LEMMA RefreshRsGood ==
    ASSUME RS_REFRESH_COUNT \in Nat \ {0}, Good(s), RefreshRs
    PROVE  Good(s')
<1> DEFINE k == s.refs + 1
<1>1. s.refresh = 0 /\ s' = [s EXCEPT !.refresh = RS_REFRESH_COUNT, !.refs = k]
  BY DEF RefreshRs, Becomes
<1>2. s.refs \in Int
  BY NetworkFields DEF Good
<1>3. /\ k \in Int
      /\ k - (IF RS_REFRESH_COUNT > 0 THEN 1 ELSE 0) = s.refs - (IF s.refresh > 0 THEN 1 ELSE 0)
  BY <1>1, <1>2
<1> HIDE DEF k
<1>4. Good([s EXCEPT !.refresh = RS_REFRESH_COUNT, !.refs = k])
  BY <1>3, RefreshFields, Zenon
<1> QED
  BY <1>1, <1>4

\* inet.c: the refresh is answered, repeated or given up.
LEMMA RefreshReplyGood ==
    ASSUME Good(s), RefreshReply
    PROVE  Good(s')
<1>1. s.refs \in Int /\ s.refresh \in Nat /\ s.refresh > 0 /\ s \in Networks
  BY NetworkFields DEF Good, RefreshReply
<1>2. \/ s.refresh > 1 /\ s' = [s EXCEPT !.refresh = s.refresh - 1]
      \/ s' = [s EXCEPT !.refresh = 0, !.refs = s.refs - 1]
  BY DEF RefreshReply, Becomes
<1>3. CASE s.refresh > 1 /\ s' = [s EXCEPT !.refresh = s.refresh - 1]
  <2> DEFINE n == s.refresh - 1
             k == s.refs
  <2>1. s' = [s EXCEPT !.refresh = n, !.refs = k]
    BY <1>1, <1>3, Zenon DEF Networks
  <2>2. /\ n \in Nat /\ k \in Int
        /\ k - (IF n > 0 THEN 1 ELSE 0) = s.refs - (IF s.refresh > 0 THEN 1 ELSE 0)
    BY <1>1, <1>3
  <2> HIDE DEF n, k
  <2> QED
    BY <2>1, <2>2, RefreshFields, Zenon
<1>4. CASE s' = [s EXCEPT !.refresh = 0, !.refs = s.refs - 1]
  <2> DEFINE k == s.refs - 1
  <2>1. /\ k \in Int
        /\ k - (IF 0 > 0 THEN 1 ELSE 0) = s.refs - (IF s.refresh > 0 THEN 1 ELSE 0)
    BY <1>1
  <2>2. s' = [s EXCEPT !.refresh = 0, !.refs = k]
    BY <1>4
  <2> HIDE DEF k
  <2> QED
    BY <2>1, <2>2, RefreshFields, Zenon
<1> QED
  BY <1>2, <1>3, <1>4

-------------------------------------------------------------------------------
(* The theorem.                                                            *)

\* A callback that nobody cancels runs before anything else happens to the network,
\* and a refreshing solicitation is sent at least once.
Sane == RTR_SOLICITATIONS \in Nat /\ RS_REFRESH_COUNT \in Nat \ {0} /\ ~Late

\* At the start there is neither an exchange nor a solicitation.
LEMMA InitGood == Init => Good(s)
<1> SUFFICES ASSUME Init PROVE Good(s)
  OBVIOUS
<1>1. NoDhcp \in Exchanges /\ NoDhcp.on = FALSE
  BY DEF NoDhcp, Exchanges, Timers, Listens, Ages
<1>2. s \in Networks
  BY <1>1 DEF Init, Networks
<1>3. Counted(s)
  BY <1>1 DEF Init, Counted
<1>4. Off(s)
  BY DEF Init, Off, Calm
<1>5. ~s.d.on
  BY <1>1 DEF Init
<1> QED
  BY <1>2, <1>3, <1>4, <1>5 DEF Good

\* Every event of the exchange or of the network preserves Good.
LEMMA StepGood ==
    ASSUME Sane, Good(s), [Next]_s
    PROVE  Good(s')
<1>1. RTR_SOLICITATIONS \in Nat /\ RS_REFRESH_COUNT \in Nat \ {0} /\ ~Late
  BY DEF Sane
<1>2. CASE Connected \/ Disconnected \/ Reconfigured
  BY <1>1, <1>2, ConnectedGood, DisconnectedGood, ReconfiguredGood
<1>3. CASE RouterSilent \/ RouterAdvertises \/ RefreshRs \/ RefreshReply
  BY <1>1, <1>3, RouterSilentGood, RouterAdvertisesGood, RefreshRsGood, RefreshReplyGood
<1>4. CASE StartSolicitation \/ Resend \/ ResendRequest \/ RequestResend \/ StartInfo
  BY <1>1, <1>4, SolicitationGood, ResendGood, ResendRequestGood, RequestResendGood,
     StartInfoGood
<1>5. CASE StartRenew \/ TimeoutRenew \/ StartRebind \/ TimeoutRebind \/ Restart
  BY <1>1, <1>5, StartRenewGood, RenewTimersGood, RestartGood
<1>6. CASE TimePasses \/ Answered \/ Advertised \/ RapidlyCommitted \/ Informed
  BY <1>1, <1>6, TimePassesGood, AnsweredGood, AdvertisedGood, CommittedGood, InformedGood
<1>7. CASE DadEnds \/ DeclineEnds
  BY <1>1, <1>7, DadEndsGood, DeclineEndsGood
<1>8. CASE UNCHANGED s
  BY <1>8
<1> QED
  BY <1>2, <1>3, <1>4, <1>5, <1>6, <1>7, <1>8 DEF Next

\* What Good says of an exchange is more than that it is followed up.
LEMMA GoodFollowed ==
    ASSUME Good(s)
    PROVE  LeaseFollowed
<1>1. Counted(s)
  BY DEF Good
<1>2. CASE ~s.d.on
  BY <1>1, <1>2 DEF Good, Off, LeaseFollowed, Counted
<1>3. CASE s.d.on /\ Informing(s)
  <2>1. (Smooth => s.d.timer # NONE) /\ ~s.addr
    BY <1>3 DEF Informing, InfoTimers, NONE
  <2> QED
    BY <1>1, <1>3, <2>1 DEF LeaseFollowed, UnderWay, Counted
<1>4. CASE s.d.on /\ Leasing(s)
  <2>1. s.connected /\ ~s.d.stateless
    BY <1>4 DEF Good, On, Leasing
  <2>2. Smooth => UnderWay \/ s.d.lease = "forever"
    BY <1>4 DEF Leasing, UnderWay, Calm
  <2> QED
    BY <1>1, <1>4, <2>1, <2>2 DEF LeaseFollowed, Counted
<1> QED
  BY <1>2, <1>3, <1>4, OnFields

\* For every number of solicitations, requests and refreshes: a DHCPv6 exchange that was
\* started has a timer or a pending callback until it is stopped or its lease never ends,
\* unless a client can fail to start or a message be asked for at once again; in every
\* case its address is on the interface only while a stateful exchange of a connected
\* network runs, and the network's reference count is the number of its users (dhcpv6.c;
\* network.c: autoconf_ipv6_set, check_dhcpv6, dhcpv6_callback, set_disconnected).
THEOREM FollowedSafety ==
    ASSUME Sane
    PROVE  Spec => []LeaseFollowed
<1>1. Init => Good(s)
  BY InitGood
<1>2. Good(s) /\ [Next]_s => Good(s)'
  BY StepGood
<1>3. Good(s) => LeaseFollowed
  BY GoodFollowed
<1> QED
  BY <1>1, <1>2, <1>3, PTL DEF Spec
===============================================================================

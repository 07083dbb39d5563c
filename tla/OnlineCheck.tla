------------------------------ MODULE OnlineCheck ------------------------------
(***************************************************************************)
(* The online check of the connected services: src/service.c with the      *)
(* contexts of src/wispr.c and the proxy search of src/wpad.c.             *)
(*                                                                         *)
(* Each family of a service has a check: a web request, made once the      *)
(* proxy is known, whose result may arm a timer for the next request.  In  *)
(* continuous mode a default service that keeps failing is put behind the  *)
(* others, and is watched until it has recovered.                          *)
(*                                                                         *)
(* Seniority stands for the criteria of service_compare() that the check   *)
(* does not change.  The gateway of a service at the head of the list      *)
(* becomes the default route at once.                                      *)
(***************************************************************************)
EXTENDS Integers, Sequences, FiniteSets, SequencesExt

CONSTANTS
    Seniority,      \* the services, the most senior one first
    Layouts,        \* which families the services have, each a function
    NoNameservers,  \* services without name servers: no check can start
    Modes,          \* values of OnlineCheckMode
    Failures, Successes,             \* the two thresholds
    InitialInterval, MaxInterval

VARIABLE s

None == "none"

Services == ToSet(Seniority)

online_check_state ==
    [active |-> FALSE, timeout |-> FALSE, timers |-> 0,
     interval |-> InitialInterval, failures |-> 0, successes |-> 0]

\* The context of a family: "proxy" until its idle callback or its proxy
\* lookup, "web" while a request is out, "browser" and "login" while the agent
\* is asked, "over" when a portal's answer ended it without a result; None when
\* there is none or it gave its result.  stray: one was replaced while under way.
Service(families) ==
    [ip |-> [f \in families |-> "IDLE"], state |-> "IDLE", met |-> FALSE,
     check |-> [f \in families |-> online_check_state],
     context |-> [f \in families |-> None], stray |-> FALSE,
     proxy |-> "unknown"]

Init ==
    \E mode \in Modes, families \in Layouts :
        s = [mode |-> mode, list |-> Seniority, current_default |-> None,
             svc |-> [x \in Services |-> Service(families[x])]]

Connected(state) == state \in {"READY", "ONLINE"}

\* The families of a service, IPv4 first.
InOrder(a) == SelectSeq(<<"ipv4", "ipv6">>, LAMBDA f : f \in DOMAIN a.ip)

Families(x) == DOMAIN s.svc[x].ip

-----------------------------------------------------------------------------
(***************************************************************************)
(* The list and its head.                                                  *)
(***************************************************************************)
connman_service_get_default(w) ==
    IF Connected(w.svc[Head(w.list)].state) THEN Head(w.list) ELSE None

connman_service_is_default(w, x) == connman_service_get_default(w) = x

\* Connected before not connected, failed checks behind the others.
Group(a) == IF ~Connected(a.state) THEN 3 ELSE IF a.met THEN 2 ELSE 1

SERVICE_LIST_SORT(w) ==
    LET In(n) == SelectSeq(Seniority, LAMBDA x : Group(w.svc[x]) = n)
    IN  [w EXCEPT !.list = In(1) \o In(2) \o In(3)]

-----------------------------------------------------------------------------
(***************************************************************************)
(* Timers, counters and thresholds.                                        *)
(***************************************************************************)


CancelCheck(c) ==
    [c EXCEPT !.timers = IF c.timeout THEN @ - 1 ELSE @,
              !.timeout = FALSE, !.active = FALSE]

\* Ends in complete_online_check() with ECANCELED, which only clears the
\* active flag.
__connman_wispr_cancel(contexts, fs) ==
    [f \in DOMAIN contexts |-> IF f \in fs THEN None ELSE contexts[f]]

cancel_online_check(w, x, fs) ==
    [w EXCEPT !.svc[x].check = [f \in DOMAIN @ |->
                                    IF f \in fs THEN CancelCheck(@[f]) ELSE @[f]],
              !.svc[x].context = __connman_wispr_cancel(@, fs)]

reschedule_online_check(w, x, f) ==
    [w EXCEPT !.svc[x].check[f].timeout = TRUE,
              !.svc[x].check[f].timers = @ + 1,
              !.svc[x].check[f].interval = IF @ < MaxInterval THEN @ + 1 ELSE @]

\* A family that is not connected neither counts against nor for a failure.
is_online_check_failure_threshold_met_predicate(a) ==
    LET up == {f \in DOMAIN a.ip : Connected(a.ip[f])}
    IN  up # {} /\ \A f \in up : a.check[f].failures >= Failures

is_online_check_success_threshold_met_predicate(a) ==
    \E f \in DOMAIN a.ip : Connected(a.ip[f]) /\ a.check[f].successes >= Successes

online_check_successes_reset(a) ==
    [a EXCEPT !.check = [f \in DOMAIN @ |-> [@[f] EXCEPT !.successes = 0]]]

online_check_state_reset(a) ==
    [a EXCEPT !.check = [f \in DOMAIN @ |-> [@[f] EXCEPT !.failures = 0,
                                                         !.successes = 0]],
              !.met = FALSE]

\* The counters are followed up to their thresholds.
Succeeded(c) ==
    [c EXCEPT !.successes = IF @ < Successes THEN @ + 1 ELSE @, !.failures = 0]

Unsuccessful(c) ==
    LET n == IF c.failures < Failures THEN c.failures + 1 ELSE c.failures
    IN  [c EXCEPT !.failures = n, !.successes = 0,
                  !.interval = IF n = 1 THEN InitialInterval ELSE @]

\* The interval after a success.
Spaced(c, met, recovered) ==
    [c EXCEPT !.interval = IF met /\ c.successes = 1 THEN InitialInterval
                           ELSE IF ~met \/ recovered THEN MaxInterval ELSE @]

-----------------------------------------------------------------------------
(***************************************************************************)
(* States and the default service.                                         *)
(***************************************************************************)
RECURSIVE service_indicate_state(_, _), default_changed(_),
          start_online_check_if_connected(_, _, _),
          complete_online_check(_, _, _, _)

__connman_gateway_update(w) == default_changed(w)

__connman_service_ipconfig_indicate_state(w, x, f, new) ==
    LET old == w.svc[x].ip[f]
        stopped == IF Connected(old) /\ ~Connected(new)
                   THEN cancel_online_check(w, x, {f}) ELSE w
    IN  IF old = new THEN w
        ELSE service_indicate_state([stopped EXCEPT !.svc[x].ip[f] = new], x)

RECURSIVE DowngradeEach(_, _, _)

DowngradeEach(w, x, fs) ==
    IF fs = <<>> THEN w
    ELSE DowngradeEach(
             IF w.svc[x].ip[Head(fs)] = "ONLINE"
             THEN __connman_service_ipconfig_indicate_state(w, x, Head(fs), "READY")
             ELSE w, x, Tail(fs))

service_downgrade_online_state(w, x) == DowngradeEach(w, x, InOrder(w.svc[x]))

RECURSIVE DowngradeList(_, _)

DowngradeList(w, list) ==
    IF list = <<>> \/ w.svc[Head(list)].state = "ONLINE" THEN w
    ELSE DowngradeList(IF Connected(w.svc[Head(list)].state)
                       THEN service_downgrade_online_state(w, Head(list)) ELSE w,
                       Tail(list))

downgrade_connected_services(w) == DowngradeList(w, w.list)

\* A service that was demoted for failing stays under observation.
LeaveDefault(w, old) ==
    IF old = None \/ w.svc[old].met THEN w
    ELSE service_downgrade_online_state(cancel_online_check(w, old, Families(old)), old)

default_changed(w) ==
    LET service == connman_service_get_default(w)
        left == [LeaveDefault(w, w.current_default) EXCEPT !.current_default = service]
    IN  IF service = w.current_default THEN w
        ELSE IF service = None THEN left
        ELSE start_online_check_if_connected(left, service, InOrder(w.svc[service]))

\* Leaving ends the checks of every family and forgets their results.
Disconnected(w, x) ==
    downgrade_connected_services(
        [cancel_online_check(default_changed(w), x, Families(x))
         EXCEPT !.svc[x] = [online_check_state_reset(@) EXCEPT
                                !.proxy = IF @ = "search" THEN "unknown" ELSE @]])

EnterState(w, x, new) ==
    IF new = "READY" THEN default_changed(w)
    ELSE IF new = "IDLE" THEN Disconnected(w, x) ELSE w

\* An online state is refused to a service that is not the default one.
service_indicate_state(w, x) ==
    LET ips == {w.svc[x].ip[f] : f \in Families(x)}
        new == IF "ONLINE" \in ips THEN "ONLINE"
               ELSE IF "READY" \in ips THEN "READY" ELSE "IDLE"
        entered == __connman_gateway_update(SERVICE_LIST_SORT(
                       EnterState([w EXCEPT !.svc[x].state = new], x, new)))
        refused == new = "ONLINE" /\ connman_service_get_default(w) \notin {None, x}
    IN  IF w.svc[x].state = new \/ refused THEN w
        ELSE IF new = "ONLINE" THEN default_changed(entered) ELSE entered

-----------------------------------------------------------------------------
(***************************************************************************)
(* Starting a check.                                                       *)
(***************************************************************************)
UnderWay(context) == context \in {"proxy", "web"}

\* The proxy is looked up, or the request is made from the idle loop.
wispr_portal_detect(w, x, f) == [w EXCEPT !.svc[x].context[f] = "proxy"]

\* Without name servers the failure is reported before the caller has the
\* error.
__connman_wispr_start(w, x, f) ==
    LET dropped == [w EXCEPT !.svc[x].stray = @ \/ UnderWay(w.svc[x].context[f])]
    IN  IF x \in NoNameservers
        THEN complete_online_check([dropped EXCEPT !.svc[x].context[f] = None],
                                   x, f, FALSE)
        ELSE wispr_portal_detect(dropped, x, f)

__connman_service_wispr_start(w, x, f) ==
    LET first == [w EXCEPT !.svc[x].check[f].interval = InitialInterval]
        started == __connman_wispr_start(first, x, f)
    IN  IF w.svc[x].check[f].active THEN w
        ELSE IF x \in NoNameservers THEN started
        ELSE [started EXCEPT !.svc[x].check[f].active = TRUE]

\* The families in turn.
start_online_check_if_connected(w, x, fs) ==
    IF fs = <<>> \/ w.mode = "none" THEN w
    ELSE start_online_check_if_connected(
             IF Connected(w.svc[x].ip[Head(fs)])
             THEN __connman_service_wispr_start(w, x, Head(fs)) ELSE w,
             x, Tail(fs))

\* IPv4 first looks for a proxy; found is what a search that fails to start
\* sets, DIRECT.
start_online_check(w, x, f, searches) ==
    IF w.mode = "none" THEN w
    ELSE IF f = "ipv4" /\ w.svc[x].proxy # "known" /\ searches
    THEN [w EXCEPT !.svc[x].proxy = "search"]
    ELSE __connman_service_wispr_start(
             cancel_online_check(
                 [w EXCEPT !.svc[x].proxy = IF f = "ipv4" THEN "known" ELSE @], x, {f}),
             x, f)

-----------------------------------------------------------------------------
(***************************************************************************)
(* The result of a check.                                                  *)
(***************************************************************************)
Indicate(w, x, f) ==
    IF connman_service_is_default(w, x)
    THEN __connman_service_ipconfig_indicate_state(w, x, f, "ONLINE") ELSE w

handle_continuous_online_check_success(w, x, f) ==
    LET counted == [w EXCEPT !.svc[x].check[f] = Succeeded(@)]
        met == w.svc[x].met
        recovered == is_online_check_success_threshold_met_predicate(counted.svc[x])
        spaced == [counted EXCEPT !.svc[x].check[f] = Spaced(@, met, recovered)]
    IN  IF ~met THEN Indicate(spaced, x, f)
        ELSE IF recovered
        THEN __connman_gateway_update(Indicate(SERVICE_LIST_SORT(
                 [spaced EXCEPT !.svc[x] = online_check_state_reset(@)]), x, f))
        ELSE spaced


\* The threshold of failures is reached.
Demote(w, x) ==
    __connman_gateway_update(SERVICE_LIST_SORT(service_downgrade_online_state(
        [w EXCEPT !.svc[x] = [online_check_successes_reset(@) EXCEPT !.met = TRUE]], x)))

handle_continuous_online_check_failure(w, x, f) ==
    LET counted == [w EXCEPT !.svc[x].check[f] = Unsuccessful(@)]
    IN  IF ~w.svc[x].met /\ is_online_check_failure_threshold_met_predicate(counted.svc[x])
        THEN Demote(counted, x) ELSE counted

Handled(w, x, f, success) ==
    IF w.mode = "continuous"
    THEN IF success THEN handle_continuous_online_check_success(w, x, f)
         ELSE handle_continuous_online_check_failure(w, x, f)
    ELSE IF success THEN __connman_service_ipconfig_indicate_state(w, x, f, "ONLINE")
    ELSE w

\* Faulty variant: a success ends the check in continuous mode too.
Reschedules_FailuresOnly(w, x, success) ==
    ~success /\ (w.mode = "continuous" => connman_service_is_default(w, x) \/ w.svc[x].met)

\* w is the state after the result was handled.
Reschedules(w, x, success) ==
    IF w.mode = "continuous"
    THEN success \/ connman_service_is_default(w, x) \/ w.svc[x].met
    ELSE ~success

Scheduled(w, x, f, success) ==
    IF Reschedules(w, x, success) THEN reschedule_online_check(w, x, f)
    ELSE [w EXCEPT !.svc[x].check[f].active = FALSE]

complete_online_check(w, x, f, success) ==
    Scheduled(Handled(w, x, f, success), x, f, success)

-----------------------------------------------------------------------------
(***************************************************************************)
(* Events.                                                                 *)
(***************************************************************************)
FamilyUp(x, f) ==
    /\ ~Connected(s.svc[x].ip[f])
    /\ s' = __connman_service_ipconfig_indicate_state(
                [s EXCEPT !.svc[x].proxy =
                    IF s.svc[x].state = "IDLE" THEN "unknown" ELSE @], x, f, "READY")

FamilyDown(x, f) ==
    /\ Connected(s.svc[x].ip[f])
    /\ s' = __connman_service_ipconfig_indicate_state(s, x, f, "IDLE")

address_updated(x, f) ==
    /\ Connected(s.svc[x].state)
    /\ connman_service_is_default(s, x)
    /\ \E searches \in BOOLEAN : s' = start_online_check(s, x, f, searches)

\* "Nameservers.Configuration" is set.
NameserversChanged(x) ==
    /\ x \notin NoNameservers
    /\ s' = start_online_check_if_connected(s, x, InOrder(s.svc[x]))

\* The lookup of a proxy configuration ends, in a configuration or DIRECT.
wpad_result(x) ==
    /\ s.svc[x].proxy = "search"
    /\ s' = __connman_service_wispr_start(
                [s EXCEPT !.svc[x].proxy = "known"], x, "ipv4")

Ends(x, f, success) ==
    s' = complete_online_check([s EXCEPT !.svc[x].context[f] = None], x, f, success)

Continues(x, f, context) == s' = [s EXCEPT !.svc[x].context[f] = context]

wispr_portal_request_portal(x, f) == Continues(x, f, "web") \/ Ends(x, f, FALSE)

\* There is no valid proxy, or the request is made.
proxy_callback(x, f) ==
    /\ s.svc[x].context[f] = "proxy"
    /\ Ends(x, f, FALSE) \/ wispr_portal_request_portal(x, f)

\* The gateway's first message asks for a login, its last one repeats the
\* request; a refusal is reported to nobody.
wispr_manage_message(x, f) ==
    \/ \E context \in {"login", "over"} : Continues(x, f, context)
    \/ wispr_portal_request_portal(x, f)

\* A redirect asks again.  A portal's page is shown in a browser; that, and a
\* status the switch does not name, is reported to nobody.
wispr_portal_web_result_success(x, f) ==
    \/ \E success \in BOOLEAN : Ends(x, f, success)
    \/ \E context \in {"browser", "web", "over"} : Continues(x, f, context)

wispr_portal_web_result_failure(x, f) == Ends(x, f, FALSE)

wispr_portal_web_result(x, f) ==
    /\ s.svc[x].context[f] = "web"
    /\ \/ wispr_manage_message(x, f)
       \/ wispr_portal_web_result_success(x, f)
       \/ wispr_portal_web_result_failure(x, f)

\* "Restarting the test" finds the check still active.
wispr_portal_browser_reply_cb(x, f) ==
    /\ s.svc[x].context[f] = "browser"
    /\ \E authentication_done \in BOOLEAN :
           s' = IF authentication_done
                THEN __connman_service_wispr_start(
                         [s EXCEPT !.svc[x].context[f] = "over"], x, f)
                ELSE [s EXCEPT !.svc[x].context[f] = "over"]

wispr_portal_request_wispr_login(x, f) ==
    /\ s.svc[x].context[f] = "login"
    /\ \E context \in {"web", "browser", "over"} : Continues(x, f, context)

redo_wispr(x, f) ==
    /\ s.svc[x].check[f].timers > 0
    /\ s' = __connman_wispr_start(
                [s EXCEPT !.svc[x].check[f].timeout = FALSE,
                          !.svc[x].check[f].timers = @ - 1], x, f)

Next ==
    \E x \in Services :
        \/ NameserversChanged(x)
        \/ wpad_result(x)
        \/ \E f \in Families(x) :
               \/ FamilyUp(x, f) \/ FamilyDown(x, f) \/ address_updated(x, f)
               \/ proxy_callback(x, f) \/ wispr_portal_web_result(x, f)
               \/ wispr_portal_browser_reply_cb(x, f)
               \/ wispr_portal_request_wispr_login(x, f) \/ redo_wispr(x, f)

Spec == Init /\ [][Next]_s

-----------------------------------------------------------------------------

\* A family's check is one chain of requests and timers: at most one timer is
\* armed and its identifier is kept, no context is replaced while its request
\* is under way, what is under way belongs to an active check, and an active
\* check has something under way unless a portal's answer ended it.
OneChain ==
    \A x \in Services \ NoNameservers :
        /\ ~s.svc[x].stray
        /\ \A f \in Families(x) :
               LET c == s.svc[x].check[f]
                   context == s.svc[x].context[f]
               IN  /\ c.timers = IF c.timeout THEN 1 ELSE 0
                   /\ ~(c.timeout /\ UnderWay(context))
                   /\ c.timeout \/ UnderWay(context) => c.active
                   /\ c.active => c.timeout \/ context # None

\* In continuous mode a service that is online is the default one, has not
\* failed its check, and would notice a loss: each online family has a timer
\* armed or a request under way, or the agent is asked or a portal's answer ended
\* its check without a result, which nothing makes up for.
OnlineIsWatched ==
    \A x \in Services : \A f \in Families(x) :
        s.svc[x].state = "ONLINE" /\ s.svc[x].ip[f] = "ONLINE" =>
            /\ s.current_default = x
            /\ ~s.svc[x].met
            /\ s.mode = "continuous" => s.svc[x].check[f].timeout
                                        \/ s.svc[x].context[f] # None

=============================================================================

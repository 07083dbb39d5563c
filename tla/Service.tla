------------------------------- MODULE Service -------------------------------
(***************************************************************************)
(* Services and their networks: src/service.c, src/network.c and           *)
(* src/notifier.c, on top of the gateways of src/gateway.c.                *)
(*                                                                         *)
(* The daemon is one thread: a handler runs to its end, but the functions  *)
(* below call each other while a service is half-way through a change of   *)
(* state.  Each is therefore an operator from the world w to the world     *)
(* after it, or to a record of that world and the value returned.          *)
(*                                                                         *)
(*   w.svc[s]        struct connman_service                                *)
(*   w.net[s]        struct connman_network                                *)
(*   w.list          service_list                                          *)
(*   w.current_default                                                     *)
(*   w.connected, w.online   the counters of notifier.c, by type           *)
(*   w.autoconnect   the reason of the scheduled run_auto_connect()      *)
(*   w.asked         the interfaces in passphrase_requested                *)
(*   w.dialogs       the questions to the agent, the first being asked     *)
(*   w.leaving       networks whose driver has yet to say it disconnected  *)
(*   w.networks      connected_networks_count                              *)
(*   w.g             the gateways                                          *)
(*                                                                         *)
(* VPNs, hidden networks, WPS, sessions, native autoconnect and the        *)
(* continuous online check are not part of this module.                    *)
(***************************************************************************)
EXTENDS Gateway, ServiceOrder

LOCAL INSTANCE SequencesExt

CONSTANTS
    Type,            \* the type of each service
    Name,            \* the place of its name in the alphabet
    Device,          \* the device its network belongs to
    Ipv6,            \* services whose IPv6 method is auto; off for the others
    NeedsKey,        \* services with a security that needs a passphrase
    AutoConnect,     \* services whose AutoConnect property is set
    AgentPresent,    \* an agent is registered
    SingleConnectedTechnology,
    HashOrder,       \* the order in which gateway_hash is walked
    NetworksCap      \* connected_networks_count is followed up to this value

None == "NONE"

Errors == {None, "CONNECT_FAILED", "INVALID_KEY"}

Reasons == {None, "AUTO", "USER"}

Return(w, err) == [w |-> w, err |-> err]

\* The attributes service_compare() reads; the one-shot online check never
\* sets the failure threshold, and no service here is a VPN.
Attributes(w) ==
    [s \in Services |->
        [state |-> w.svc[s].state, favorite |-> w.svc[s].favorite,
         strength |-> w.svc[s].strength, threshold_met |-> FALSE,
         type |-> Type[s], name |-> Name[s], order |-> 0,
         transport |-> NoService]]

ConnectedServices(w) == {s \in Services : is_connected(w.svc[s].state)}

connman_service_get_default(w) ==
    IF w.list # <<>> /\ is_connected(w.svc[w.list[1]].state) THEN w.list[1] ELSE None

SERVICE_LIST_SORT(w) ==
    [w EXCEPT !.list = service_list_sort(Attributes(w), w.list)]

compare_preferred(s, t) ==
    service_compare_preferred([type |-> Type[s]], [type |-> Type[t]])

-----------------------------------------------------------------------------
(***************************************************************************)
(* The counters of notifier.c.                                             *)
(***************************************************************************)

__connman_notifier_connect(w, s) == [w EXCEPT !.connected[Type[s]] = @ + 1]

__connman_notifier_disconnect(w, s) ==
    IF w.connected[Type[s]] = 0 THEN w
    ELSE [w EXCEPT !.connected[Type[s]] = @ - 1]

__connman_notifier_enter_online(w, s) == [w EXCEPT !.online[Type[s]] = @ + 1]

__connman_notifier_leave_online(w, s) == [w EXCEPT !.online[Type[s]] = @ - 1]

-----------------------------------------------------------------------------
(***************************************************************************)
(* Answers, online checks and the wish to connect automatically.           *)
(***************************************************************************)

set_error(w, s, error) == [w EXCEPT !.svc[s].error = error]

\* Faulty variant: the timeout is stopped and the caller left without an answer.
reply_pending_NoAnswer(w, s) == [w EXCEPT !.svc[s].timeout = FALSE]

reply_pending(w, s) ==
    [w EXCEPT !.svc[s].pending = FALSE, !.svc[s].timeout = FALSE]

\* __connman_service_auto_connect(): one run is scheduled at a time.
do_auto_connect(w, s, reason) ==
    IF \/ w.svc[s].state = "FAILURE" /\ reason # "USER" /\ Type[s] = "wifi"
       \/ w.autoconnect # {}
    THEN w
    ELSE [w EXCEPT !.autoconnect = {reason}]

service_complete(w, s) ==
    LET answered == reply_pending(w, s)
    IN  IF w.svc[s].reason = "USER" THEN answered
        ELSE do_auto_connect(answered, s, w.svc[s].reason)

cancel_online_check(w, s, fs) == [w EXCEPT !.svc[s].checks = @ \ fs]

start_online_check_if_connected(w, s) ==
    [w EXCEPT !.svc[s].checks =
        @ \union {f \in Families : is_connected(w.svc[s].ip[f])}]

\* connected_networks_count, for IPv4 only.
service_rp_filter(w, f, connected) ==
    [w EXCEPT !.networks = CASE f = "ipv6" -> @
                             [] connected /\ f = "ipv4" -> IF @ < NetworksCap THEN @ + 1 ELSE @
                             [] OTHER -> IF @ > 0 THEN @ - 1 ELSE @]

-----------------------------------------------------------------------------
(***************************************************************************)
(* Changes of state nest: indicating the state of a service may downgrade, *)
(* disconnect or answer others, which indicates their states in turn.      *)
(***************************************************************************)
RECURSIVE service_indicate_state(_, _)

CountNetwork(w, f, new) ==
    IF new \in {"READY", "DISCONNECT"} THEN service_rp_filter(w, f, new = "READY") ELSE w

StopCheck(w, s, f, new) ==
    IF is_connected(w.svc[s].ip[f]) /\ ~is_connected(new)
    THEN cancel_online_check(w, s, {f}) ELSE w

IndicateFamily(w, s, new, f) ==
    IF new = w.svc[s].ip[f] \/ (new = "DISCONNECT" /\ w.svc[s].state = "IDLE") THEN w
    ELSE service_indicate_state(
             [StopCheck(CountNetwork(w, f, new), s, f, new) EXCEPT !.svc[s].ip[f] = new], s)

\* A family that is off stays idle.
__connman_service_ipconfig_indicate_state(w, s, state, f) ==
    IndicateFamily(w, s, IF f = "ipv4" \/ s \in Ipv6 THEN state ELSE "IDLE", f)

RECURSIVE IndicateEach(_, _, _, _)

\* The families one after the other.
IndicateEach(w, s, state, families) ==
    IF families = <<>> THEN w
    ELSE IndicateEach(
             __connman_service_ipconfig_indicate_state(w, s, state, Head(families)),
             s, state, Tail(families))

IndicateBoth(w, s, state) == IndicateEach(w, s, state, <<"ipv4", "ipv6">>)

__connman_service_indicate_error(w, s, error) ==
    IF w.svc[s].state = "FAILURE" THEN w
    ELSE IndicateBoth(set_error(w, s, error), s, "FAILURE")

\* The caller stays unanswered while the families go idle.
__connman_service_clear_error(w, s) ==
    IF w.svc[s].state # "FAILURE" THEN w
    ELSE [IndicateEach([w EXCEPT !.svc[s].pending = FALSE], s, "IDLE", <<"ipv6", "ipv4">>)
          EXCEPT !.svc[s].pending = w.svc[s].pending]

RECURSIVE DowngradeEach(_, _, _)

DowngradeEach(w, s, families) ==
    IF families = <<>> THEN w
    ELSE DowngradeEach(
             IF is_online(w.svc[s].ip[Head(families)])
             THEN __connman_service_ipconfig_indicate_state(w, s, "READY", Head(families))
             ELSE w,
             s, Tail(families))

service_downgrade_online_state(w, s) == DowngradeEach(w, s, <<"ipv4", "ipv6">>)

RECURSIVE DowngradeList(_, _)

\* The connected services of the list up to the first that is online.
DowngradeList(w, list) ==
    IF list = <<>> \/ is_online(w.svc[Head(list)].state) THEN w
    ELSE DowngradeList(IF is_connected(w.svc[Head(list)].state)
                       THEN service_downgrade_online_state(w, Head(list)) ELSE w,
                       Tail(list))

downgrade_connected_services(w) == DowngradeList(w, w.list)

LeaveDefault(w, old) ==
    IF old = None THEN w
    ELSE service_downgrade_online_state(cancel_online_check(w, old, Families), old)

EnterDefault(w, service) ==
    IF service = None THEN w ELSE start_online_check_if_connected(w, service)

\* The new default service is looked up before the old one is downgraded.
default_changed(w) ==
    LET service == connman_service_get_default(w)
    IN  IF service = w.current_default THEN w
        ELSE EnterDefault([LeaveDefault(w, w.current_default)
                           EXCEPT !.current_default = service], service)

\* The gateways change; a default route that was set for a connected service
\* ends in __connman_service_indicate_default().
SetGateways(w, g) ==
    LET set == {s \in ConnectedServices(w) : \E f \in Families :
                  /\ g.cell[<<s, f>>] # w.g.cell[<<s, f>>]
                  /\ g.cell[<<s, f>>].state = "ADDED"
                  /\ g.cell[<<s, f>>].type = "HIGH"}
    IN  IF set = {} THEN [w EXCEPT !.g = g] ELSE default_changed([w EXCEPT !.g = g])

GatewayUpdate(w) ==
    SetGateways(w, __connman_gateway_update(w.g, w.list, ConnectedServices(w), HashOrder))

-----------------------------------------------------------------------------
(***************************************************************************)
(* network.c                                                               *)
(***************************************************************************)
connman_network_set_associating(w, s, associating) ==
    IF w.net[s].associating = associating THEN w
    ELSE IndicateEach([w EXCEPT !.net[s].associating = associating], s, "ASSOCIATION",
                      IF associating THEN <<"ipv4", "ipv6">> ELSE <<>>)

\* __connman_network_enable_ipconfig() for both families, with method dhcp for
\* IPv4; IPv6 is off or auto.
set_connected(w, s) ==
    IF w.net[s].connected THEN w
    ELSE IndicateBoth([w EXCEPT !.net[s].associating = FALSE, !.net[s].connected = TRUE],
                      s, "CONFIGURATION")

Active(state) == state \notin {"IDLE", "FAILURE"}

RemoveGateway(w, s) ==
    IF ~w.net[s].connected THEN w
    ELSE SetGateways(w, __connman_gateway_remove(
                            w.g, s, Families, w.list, ConnectedServices(w)))

RECURSIVE DisconnectActive(_, _, _, _)

\* The families that are found active, and the world when they are disconnected.
DisconnectActive(w, s, families, active) ==
    IF families = <<>> THEN [w |-> w, active |-> active]
    ELSE DisconnectActive(
             IF Active(w.svc[s].ip[Head(families)])
             THEN __connman_service_ipconfig_indicate_state(w, s, "DISCONNECT", Head(families))
             ELSE w,
             s, Tail(families),
             IF Active(w.svc[s].ip[Head(families)]) THEN Append(active, Head(families))
             ELSE active)

\* The second half of set_disconnected().
DisconnectToIdle(r, s) ==
    [IndicateEach(RemoveGateway(r.w, s), s, "IDLE", r.active)
     EXCEPT !.net[s].associating = FALSE, !.net[s].connecting = FALSE,
            !.net[s].connected = FALSE]

\* Faulty variant: IPv6 is left as it is.
set_disconnected_OnlyIpv4(w, s) ==
    DisconnectToIdle(DisconnectActive(w, s, <<"ipv4">>, <<>>), s)

\* Which families were active is sampled on the way and used again at the end.
set_disconnected(w, s) ==
    DisconnectToIdle(DisconnectActive(w, s, <<"ipv4", "ipv6">>, <<>>), s)

\* The disconnect() of the drivers: ethernet is done at once; wifi drops the
\* association, refuses while the device is disconnecting and says later that it
\* is done; bluetooth only says so later.
driver_disconnect(w, s) ==
    CASE Type[s] = "wifi" ->
           Return([w EXCEPT !.leaving = @ \union {s}, !.net[s].associating = FALSE],
                  IF \E t \in w.leaving : Device[t] = Device[s] THEN "EALREADY" ELSE "OK")
      [] Type[s] = "bluetooth" -> Return([w EXCEPT !.leaving = @ \union {s}], "EINPROGRESS")
      [] OTHER -> Return(w, "OK")

\* r is what the driver answered.
AfterDriver(r, s) ==
    IF r.err = "EINPROGRESS" THEN r ELSE Return(set_disconnected(r.w, s), r.err)

__connman_network_disconnect(w, s) ==
    LET n == w.net[s]
    IN  IF ~(n.connected \/ n.connecting \/ n.associating) THEN Return(w, "ENOTCONN")
        ELSE AfterDriver(driver_disconnect([w EXCEPT !.net[s].connecting = FALSE], s), s)

connman_network_set_error(w, s, error) ==
    __connman_network_disconnect(__connman_service_indicate_error(w, s, error), s).w

connman_network_set_connected(w, s, connected) ==
    IF (w.net[s].connecting \/ w.net[s].associating) /\ ~connected
    THEN connman_network_set_error(w, s, "CONNECT_FAILED")
    ELSE IF w.net[s].connected = connected THEN w
    ELSE IF connected THEN set_connected(w, s) ELSE set_disconnected(w, s)

\* driver is what the network driver's connect() answers.
__connman_network_connect(w, s, driver) ==
    LET n == w.net[s]
        connecting == [w EXCEPT !.net[s].connecting = TRUE]
    IN  IF n.connected THEN Return(w, "EISCONN")
        ELSE IF n.connecting \/ n.associating THEN Return(w, "EALREADY")
        ELSE CASE driver = "OK" -> Return(set_connected(connecting, s), "OK")
               [] driver = "EINPROGRESS" ->
                    Return(connman_network_set_associating(connecting, s, TRUE), driver)
               [] driver = "EIO" -> Return(w, driver)

-----------------------------------------------------------------------------
(***************************************************************************)
(* Answers of the agent, and disconnecting a service.                      *)
(***************************************************************************)
\* The callback of a question that is not answered, or with an error.
\* report_error_cb() gives up; request_input_cb() sets the state without
\* indicating it.
DismissReport(w, s) ==
    SERVICE_LIST_SORT(service_complete(__connman_service_clear_error(w, s), s))

RefuseInput(w, s) ==
    service_complete(reply_pending(
        [w EXCEPT !.asked = @ \ {w.net[s].index}, !.svc[s].state = "IDLE"], s), s)

Dismiss(w, question) ==
    GatewayUpdate(IF question[2] = "report" THEN DismissReport(w, question[1])
                  ELSE RefuseInput(w, question[1]))

\* Where the next question about s to be cancelled is: the questions that wait
\* come first, then the one being asked.
NextQuestion(dialogs, s) ==
    LET mine == {i \in 1..Len(dialogs) : dialogs[i][1] = s}
        next == IF mine \ {1} # {} THEN mine \ {1} ELSE mine
    IN  CHOOSE i \in next : \A j \in next : i <= j

RECURSIVE agent_cancel(_, _)

CancelMore(w, s, more) == IF more THEN agent_cancel(w, s) ELSE w

CancelAt(w, s, i) ==
    CancelMore(Dismiss([w EXCEPT !.dialogs = RemoveAt(@, i)], w.dialogs[i]), s, i # 1)

\* connman_agent_cancel().
agent_cancel(w, s) ==
    IF \A i \in 1..Len(w.dialogs) : w.dialogs[i][1] # s THEN w
    ELSE CancelAt(w, s, NextQuestion(w.dialogs, s))

__connman_service_disconnect(w, s) ==
    __connman_network_disconnect(agent_cancel([w EXCEPT !.svc[s].reason = None], s), s)

Left(r, busy) == [w |-> r.w, busy |-> busy \/ r.err = "EINPROGRESS"]

LeaveOther(x, t) ==
    IF is_connecting(x.w.svc[t].state) \/ is_connected(x.w.svc[t].state)
    THEN Left(__connman_service_disconnect(x.w, t), x.busy) ELSE x

RECURSIVE LeaveEach(_, _)

LeaveEach(x, list) ==
    IF list = <<>> THEN x ELSE LeaveEach(LeaveOther(x, Head(list)), Tail(list))

\* connect_service(): the other services of the type with the same interface are
\* disconnected first; busy when one of them takes its time.
LeaveOthers(w, s) ==
    LeaveEach([w |-> w, busy |-> FALSE],
              SelectSeq(w.list, LAMBDA t : /\ t # s
                                           /\ Type[t] = Type[s]
                                           /\ w.net[t].index = w.net[s].index))

-----------------------------------------------------------------------------
(***************************************************************************)
(* The order of the services.                                              *)
(***************************************************************************)
InsertBefore(list, s, t) ==
    LET rest == SelectSeq(list, LAMBDA x : x # s)
        i == CHOOSE k \in 1..Len(rest) : rest[k] = t
    IN  SubSeq(rest, 1, i - 1) \o <<s>> \o SubSeq(rest, i, Len(rest))

\* Faulty variant: the services change places and keep their states.
switch_service_order_KeepStates(w, demoted, promoted) ==
    [w EXCEPT !.list = InsertBefore(@, promoted, demoted)]

\* The part of switch_service_order() that moves promoted.
Switch(w, demoted, promoted) ==
    IF \E i \in 1..Len(w.list) - 1 : w.list[i] = promoted /\ w.list[i + 1] = demoted
    THEN w
    ELSE service_downgrade_online_state(
             [w EXCEPT !.list = InsertBefore(@, promoted, demoted)], promoted)

switch_service_order(w, demoted, promoted) ==
    Switch(IF /\ connman_service_get_default(w) = demoted
              /\ is_online(w.svc[demoted].state)
           THEN service_downgrade_online_state(w, demoted) ELSE w, demoted, promoted)

\* service_update_preferred_order() would change the order.
Preferred(default, s) ==
    default \notin {None, s} /\ compare_preferred(default, s) > 0

service_update_preferred_order(w, default, s) ==
    IF Preferred(default, s)
    THEN GatewayUpdate(switch_service_order(w, default, s)) ELSE w

\* The connected services but the allowed one, the last one first.
LeftForSingle(w, allowed) ==
    LET n == Cardinality({i \in 1..Len(w.list) :
                             \A j \in 1..i : is_connected(w.svc[w.list[j]].state)})
    IN  Reverse(SelectSeq(SubSeq(w.list, 1, n), LAMBDA s : s # allowed))

RECURSIVE DisconnectEach(_, _)

DisconnectEach(w, list) ==
    IF list = <<>> THEN w
    ELSE DisconnectEach(__connman_service_disconnect(w, Head(list)).w, Tail(list))

single_connected_tech(w, allowed) == DisconnectEach(w, LeftForSingle(w, allowed))

\* A service that was not a favorite may change the order, and its becoming one
\* may let another one connect.
__connman_service_set_favorite(w, s, favorite) ==
    LET set == [w EXCEPT !.svc[s].favorite = favorite]
        triggered == IF favorite /\ ~(s \in AutoConnect /\ Type[s] \in {"ethernet", "gadget"})
                     THEN do_auto_connect(set, s, "AUTO") ELSE set
    IN  IF w.svc[s].favorite = favorite THEN w
        ELSE GatewayUpdate(SERVICE_LIST_SORT(triggered))

-----------------------------------------------------------------------------
(***************************************************************************)
(* service_indicate_state(), one operator for each state entered.          *)
(***************************************************************************)

CountConnected(w, s, old) ==
    IF is_online(old) THEN w ELSE __connman_notifier_connect(w, s)

KeepSingle(w, s) ==
    IF SingleConnectedTechnology THEN single_connected_tech(w, s) ELSE w

Ready(w, s, old) ==
    KeepSingle(CountConnected(reply_pending(__connman_service_set_favorite(
        default_changed(service_update_preferred_order(
            set_error(w, s, None), connman_service_get_default(w), s)),
        s, TRUE), s), s, old), s)

Disconnected(w, s) ==
    do_auto_connect(downgrade_connected_services(cancel_online_check(
        default_changed(reply_pending(set_error(w, s, None), s)), s, Families)), s, "AUTO")

ReportsError(w, s) == w.svc[s].reason = "USER" /\ AgentPresent

\* Faulty variant: a failed service keeps its place in the counters.
LeavesConnected_ExceptFailed(w, s, old, new) ==
    old = "READY" /\ new \notin {"ONLINE", "FAILURE"}

LeavesConnected(w, s, old, new) ==
    \/ old = "ONLINE" /\ new # "READY"
    \/ old = "READY" /\ new # "ONLINE"

\* The agent is asked whether to retry, or the attempt is over.
Failed(w, s) ==
    IF ReportsError(w, s)
    THEN [w EXCEPT !.dialogs = Append(@, <<s, "report">>)]
    ELSE service_complete(w, s)

\* The switch of service_indicate_state() over the state entered.
EnterState(w, s, old, new) ==
    CASE new = "IDLE" /\ old # "DISCONNECT" -> __connman_service_disconnect(w, s).w
      [] new = "READY" -> Ready(w, s, old)
      [] new = "DISCONNECT" -> Disconnected(w, s)
      [] new = "FAILURE" -> Failed(w, s)
      [] OTHER -> w

SetState(w, s, old, new) ==
    [IF is_online(old) THEN __connman_notifier_leave_online(w, s) ELSE w
     EXCEPT !.svc[s].state = new]

\* Nothing is sorted while the agent is asked about the failure.
SortAfter(w, s, new) ==
    IF new = "FAILURE" /\ ReportsError(w, s) THEN w
    ELSE GatewayUpdate(SERVICE_LIST_SORT(w))

LeaveCounters(w, s, old, new) ==
    IF LeavesConnected(w, s, old, new) THEN __connman_notifier_disconnect(w, s) ELSE w

ChangeState(w, s, old, new) ==
    LeaveCounters(SortAfter(EnterState(SetState(w, s, old, new), s, old, new), s, new),
                  s, old, new)

EnterOnline(w, s, new) ==
    IF is_online(new) THEN default_changed(__connman_notifier_enter_online(w, s)) ELSE w

service_indicate_state(w, s) ==
    LET old == w.svc[s].state
        new == combine_state(w.svc[s].ip["ipv4"], w.svc[s].ip["ipv6"])
        def_service == connman_service_get_default(w)
        refused == is_online(new) /\ def_service \notin {None, s}
                                 /\ ~Preferred(def_service, s)
    IN  IF old = new \/ refused THEN w
        ELSE EnterOnline(
                 ChangeState(IF is_online(new)
                             THEN service_update_preferred_order(w, def_service, s) ELSE w,
                             s, old, new),
                 s, new)

-----------------------------------------------------------------------------
(***************************************************************************)
(* Connecting a service.                                                   *)
(***************************************************************************)
IndicateFailure(r, s) ==
    IF r.err \in {"OK", "EINPROGRESS"} THEN r
    ELSE Return(IndicateBoth(r.w, s, "FAILURE"), r.err)

service_connect(w, s, driver) ==
    IF s \in NeedsKey /\ (w.svc[s].error = "INVALID_KEY" \/ ~w.svc[s].passphrase)
    THEN Return(w, "ENOKEY")
    ELSE IndicateFailure(__connman_network_connect(w, s, driver), s)

\* A user is asked for the key, if there is an agent.
AskForKey(w, s, reason, err) ==
    IF reason # "USER" \/ err # "ENOKEY" THEN Return(w, err)
    ELSE IF ~AgentPresent THEN Return(w, "ESRCH")
    ELSE Return([w EXCEPT !.dialogs = Append(@, <<s, "input">>),
                          !.asked = @ \union {w.net[s].index}], "EINPROGRESS")

\* The rest of __connman_service_connect() after service_connect() answered r.
AfterConnect(r, s, reason) ==
    CASE r.err = "OK" -> r
      [] r.err = "EINPROGRESS" -> [r EXCEPT !.w.svc[s].timeout = TRUE]
      [] OTHER -> AskForKey(__connman_network_disconnect(r.w, s).w, s, reason, r.err)

\* The reason is kept only after the attempt.
__connman_service_connect(w, s, reason, driver) ==
    IF is_connected(w.svc[s].state) THEN Return(w, "EISCONN")
    ELSE IF is_connecting(w.svc[s].state) THEN Return(w, "EALREADY")
    ELSE AfterConnect(
             [service_connect(__connman_service_clear_error(w, s), s, driver)
              EXCEPT !.w.svc[s].reason = reason], s, reason)
=============================================================================

---------------------------- MODULE ServiceSystem ----------------------------
(***************************************************************************)
(* The main loop around the services: D-Bus callers, agents, timers, the   *)
(* network drivers, DHCP, online checks and the routing events of the      *)
(* kernel.  Every action is one run of a handler to its end.               *)
(***************************************************************************)
EXTENDS Service

CONSTANTS
    Strengths,       \* signal strengths a network can report
    WhileAsked,      \* of "connect", "clear", "timeout": what may happen to a
                     \* service while the agent is asked about it
    MaxEvents        \* routing events that may wait when something else happens

VARIABLE w

\* A bluetooth network has no interface, index 0, before it first connects.
Network(s) ==
    [associating |-> FALSE, connecting |-> FALSE, connected |-> FALSE,
     index |-> IF Type[s] = "bluetooth" THEN None ELSE Device[s]]

Wifi == {s \in Services : Type[s] = "wifi"}

\* Services as service_load() finds them: the favorites have their passphrase.
Init ==
    \E strength \in [Wifi -> Strengths], favorites \in SUBSET Services :
        LET none == [t \in {Type[s] : s \in Services} |-> 0]
            service(s) ==
                [ip |-> [f \in Families |-> "IDLE"], state |-> "IDLE",
                 favorite |-> s \in favorites,
                 strength |-> IF s \in Wifi THEN strength[s] ELSE 0,
                 pending |-> FALSE, reason |-> None, timeout |-> FALSE,
                 error |-> None, ignore |-> FALSE, checks |-> {},
                 passphrase |-> s \in favorites \intersect NeedsKey]
        IN  w = SERVICE_LIST_SORT(
                  [svc |-> [s \in Services |-> service(s)],
                   net |-> [s \in Services |-> Network(s)],
                   list |-> HashOrder, current_default |-> None,
                   connected |-> none, online |-> none, networks |-> 0,
                   autoconnect |-> {}, asked |-> {}, dialogs |-> <<>>,
                   leaving |-> {},
                   g |-> [cell |-> [p \in Services \X Families |-> NoCell],
                          default_checked |-> [s \in Services |-> FALSE],
                          up |-> Services, events |-> <<>>]])

\* Another source of the main loop gets its turn.
Event == Len(w.g.events) <= MaxEvents

\* The agent has a question about s to answer.
Asked(s) == \E i \in 1..Len(w.dialogs) : w.dialogs[i][1] = s

\* What the connect() of the driver may answer; ethernet only needs the cable.
Answers(s) == IF Type[s] = "ethernet" THEN {"OK"} ELSE {"EINPROGRESS", "EIO"}

-----------------------------------------------------------------------------
(***************************************************************************)
(* D-Bus calls.                                                            *)
(***************************************************************************)

AnswerUnlessPending(r, s) ==
    IF r.err = "EINPROGRESS" THEN r.w ELSE reply_pending(r.w, s)

\* connect_service(), after the others of the interface were left.
ConnectAfter(x, s, driver) ==
    IF x.busy THEN x.w
    ELSE AnswerUnlessPending(
             __connman_service_connect(
                 [x.w EXCEPT !.svc[s].ignore = FALSE, !.svc[s].pending = TRUE],
                 s, "USER", driver), s)

Connect(s) ==
    /\ Event
    /\ ~w.svc[s].pending
    /\ "connect" \in WhileAsked \/ ~Asked(s)
    /\ \E driver \in Answers(s) :
          w' = ConnectAfter(LeaveOthers(w, s), s, driver)

Disconnect(s) ==
    /\ Event
    /\ w' = __connman_service_disconnect([w EXCEPT !.svc[s].ignore = TRUE], s).w

\* clear_property() of Error.
ClearError(s) ==
    /\ Event
    /\ "clear" \in WhileAsked \/ ~(w.svc[s].pending \/ Asked(s))
    /\ w' = service_complete(__connman_service_clear_error(set_error(w, s, None), s), s)

\* __connman_service_remove().
Remove(s) ==
    /\ Event
    /\ Type[s] \notin {"ethernet", "gadget"}
    /\ w.svc[s].favorite \/ is_idle(w.svc[s].state)
    /\ w' = __connman_service_set_favorite(
                [__connman_service_disconnect(w, s).w
                 EXCEPT !.svc[s].passphrase = FALSE, !.svc[s].error = None], s, FALSE)

\* __connman_service_move(); the IPv4 states count when IPv6 is off for one.
Move(s, target, before) ==
    /\ Event
    /\ s # target
    /\ w.svc[s].favorite /\ w.svc[target].favorite
    /\ {s, target} \subseteq Ipv6
         \/ check_suitable_state(w.svc[target].ip["ipv4"], w.svc[s].ip["ipv4"])
    /\ w' = GatewayUpdate(switch_service_order(w, IF before THEN target ELSE s,
                                                  IF before THEN s ELSE target))

-----------------------------------------------------------------------------
(***************************************************************************)
(* Automatic connection, without sessions: the walk over a list stops at   *)
(* the first service that is busy, is asked about or connects.             *)
(***************************************************************************)

preferred_tech_list_get ==
    LET userConnected == \E i \in 1..Len(w.list) :
            /\ \A j \in 1..i : is_connected(w.svc[w.list[j]].state)
            /\ w.svc[w.list[i]].reason = "USER"
        ofType(t) == SelectSeq(w.list, LAMBDA s : Type[s] = t)
        lists[i \in 0..Len(PreferredTechnologies)] ==
            IF i = 0 THEN <<>> ELSE lists[i - 1] \o ofType(PreferredTechnologies[i])
    IN  IF SingleConnectedTechnology /\ userConnected THEN <<>>
        ELSE lists[Len(PreferredTechnologies)]

Busy(s) ==
    \/ w.net[s].index \in w.asked
    \/ w.svc[s].pending
    \/ is_connecting(w.svc[s].state)
    \/ is_connected(w.svc[s].state)

is_ignore(s) == s \notin AutoConnect \/ w.svc[s].ignore \/ w.svc[s].state = "FAILURE"

Connectable(s) == w.svc[s].favorite /\ ~is_ignore(s) /\ w.svc[s].state = "IDLE"

\* The index where the walk ends, and whether it ends before the end of the list.
WalkStops(list, preferred) ==
    {i \in 1..Len(list) : \/ Busy(list[i])
                          \/ Connectable(list[i])
                          \/ ~preferred /\ ~w.svc[list[i]].favorite}

MinIndex(S) == CHOOSE i \in S : \A j \in S : i <= j

\* The service auto_connect_service() connects, if any, and its result.
auto_connect_service(list, preferred) ==
    LET stops == WalkStops(list, preferred)
        s == list[MinIndex(stops)]
    IN  IF stops = {} THEN [service |-> None, stop |-> FALSE]
        ELSE IF Busy(s) THEN [service |-> None, stop |-> TRUE]
        ELSE IF w.svc[s].favorite THEN [service |-> s, stop |-> TRUE]
        ELSE [service |-> None, stop |-> FALSE]

IndicateAfter(r, s) == IF r.err = "OK" THEN service_indicate_state(r.w, s) ELSE r.w

RunAutoConnect ==
    /\ Event
    /\ \E reason \in w.autoconnect :
         LET first == auto_connect_service(preferred_tech_list_get, TRUE)
             chosen == IF first.stop THEN first ELSE auto_connect_service(w.list, FALSE)
             idle == [w EXCEPT !.autoconnect = {}]
         IN  \/ chosen.service = None /\ w' = idle
             \/ \E s \in {chosen.service} \ {None} : \E driver \in Answers(s) :
                   w' = IndicateAfter(__connman_service_connect(idle, s, reason, driver), s)

-----------------------------------------------------------------------------
(***************************************************************************)
(* Timers, the agent, drivers, address configuration, online checks.       *)
(***************************************************************************)

AutoConnectAfter(x, s, pending) ==
    IF ~pending /\ x.svc[s].reason # "USER" THEN do_auto_connect(x, s, "AUTO") ELSE x

FailAfter(x, s) ==
    AutoConnectAfter(IndicateBoth([x EXCEPT !.svc[s].pending = FALSE], s, "FAILURE"),
                     s, x.svc[s].pending)

connect_timeout(s) ==
    /\ Event
    /\ w.svc[s].timeout
    /\ "timeout" \in WhileAsked \/ ~Asked(s)
    /\ w' = FailAfter(__connman_network_disconnect(
                          [w EXCEPT !.svc[s].timeout = FALSE], s).w, s)

\* report_error_cb() with a retry, or request_input_cb() with a passphrase.
Accept(x, s, kind) ==
    IF kind = "report" THEN x
    ELSE [x EXCEPT !.asked = @ \ {w.net[s].index},
                   !.svc[s].passphrase = TRUE, !.svc[s].error = None]

\* A passphrase that cannot be one of its network (-ENOKEY) fails the service.
AgentAnswered(s, answer) ==
    /\ Event
    /\ w.dialogs # <<>> /\ Head(w.dialogs)[1] = s
    /\ LET closed == [w EXCEPT !.dialogs = Tail(@)]
           kind == Head(w.dialogs)[2]
       IN  \/ answer = "refuse" /\ w' = Dismiss(closed, <<s, kind>>)
           \/ /\ answer = "wrong key" /\ kind # "report"
              /\ w' = __connman_service_indicate_error(
                         [closed EXCEPT !.asked = @ \ {w.net[s].index}], s, "INVALID_KEY")
           \/ /\ answer = "accept"
              /\ \E driver \in Answers(s) :
                    w' = __connman_service_connect(Accept(closed, s, kind), s, "USER", driver).w

\* The network reports another strength: __connman_service_update_from_network().
NetworkUpdate(s, strength) ==
    /\ Event
    /\ s \in Wifi
    /\ strength # w.svc[s].strength
    /\ w' = SERVICE_LIST_SORT([w EXCEPT !.svc[s].strength = strength])

\* The driver of wifi connects no network while it disconnects one.  A bluetooth
\* network has its interface now.
DriverConnected(s) ==
    /\ Event
    /\ w.net[s].associating
    /\ Type[s] = "wifi" => \A t \in w.leaving : Device[t] # Device[s]
    /\ LET up == IF Type[s] = "bluetooth" THEN [w EXCEPT !.net[s].index = s] ELSE w
       IN  w' = connman_network_set_connected(up, s, TRUE)

\* connect_callback() of wifi, or pan_connect_cb(), which ends the association.
DriverError(s, error) ==
    /\ Event
    /\ w.net[s].associating
    /\ error = "INVALID_KEY" => s \in NeedsKey
    /\ w' = connman_network_set_error(
                IF Type[s] = "bluetooth"
                THEN connman_network_set_associating(w, s, FALSE) ELSE w, s, error)

\* The link is lost.
DriverDisconnected(s) ==
    /\ Event
    /\ w.net[s].connected
    /\ w' = connman_network_set_connected(w, s, FALSE)

\* disconnect_callback() of wifi, pan_disconnect_cb().
DisconnectDone(s) ==
    /\ Event
    /\ s \in w.leaving
    /\ w' = connman_network_set_connected([w EXCEPT !.leaving = @ \ {s}], s, FALSE)

\* dhcp_callback(TRUE): the address and the gateway are set, which makes IPv4
\* ready.
DhcpSuccess(s) ==
    /\ Event
    /\ w.net[s].connected
    /\ ~is_connected(w.svc[s].ip["ipv4"]) \/ ~HasConfig(w.g, s, "ipv4")
    /\ w' = __connman_service_ipconfig_indicate_state(
                SetGateways([w EXCEPT !.net[s].connecting = FALSE],
                            __connman_gateway_add(w.g, s, "ipv4", w.list, ConnectedServices(w),
                                                  HashOrder)),
                s, "READY", "ipv4")

\* dhcp_callback(FALSE): the state of IPv4 is left as it is.
DhcpFailure(s) ==
    /\ Event
    /\ w.net[s].connected
    /\ HasConfig(w.g, s, "ipv4")
    /\ w' = SetGateways([w EXCEPT !.net[s].connecting = FALSE],
                __connman_gateway_remove(w.g, s, {"ipv4"}, w.list, ConnectedServices(w)))

\* check_dhcpv6() and service_ip_bound(): an address from a router.
RouterAdvertised(s) ==
    /\ Event
    /\ w.net[s].connected
    /\ w.svc[s].ip["ipv6"] = "CONFIGURATION"
    /\ w' = __connman_service_ipconfig_indicate_state(
                [w EXCEPT !.net[s].connecting = FALSE], s, "READY", "ipv6")

\* complete_online_check() with success; a failure only schedules the next one.
OnlineCheckDone(s, f) ==
    /\ Event
    /\ f \in w.svc[s].checks
    /\ w' = cancel_online_check(
                __connman_service_ipconfig_indicate_state(w, s, "ONLINE", f), s, {f})

\* A route of the kernel.
RtnlEvent ==
    /\ w.g.events # <<>>
    /\ LET e == Head(w.g.events)
           g1 == [w.g EXCEPT !.events = Tail(@)]
       IN  w' = SetGateways(w, IF e.op = "new"
                               THEN gateway_rtnl_new(g1, e, w.list, HashOrder)
                               ELSE gateway_rtnl_del(g1, e, w.list, ConnectedServices(w)))

Next ==
    \/ RunAutoConnect
    \/ RtnlEvent
    \/ \E s \in Services :
         \/ Connect(s)
         \/ Disconnect(s)
         \/ ClearError(s)
         \/ Remove(s)
         \/ connect_timeout(s)
         \/ DriverConnected(s)
         \/ DriverDisconnected(s)
         \/ DisconnectDone(s)
         \/ DhcpSuccess(s)
         \/ DhcpFailure(s)
         \/ RouterAdvertised(s)
         \/ \E f \in Families : OnlineCheckDone(s, f)
         \/ \E a \in {"accept", "refuse", "wrong key"} : AgentAnswered(s, a)
         \/ \E e \in Errors \ {None} : DriverError(s, e)
         \/ \E n \in Strengths : NetworkUpdate(s, n)
         \/ \E t \in Services, b \in BOOLEAN : Move(s, t, b)

Spec == Init /\ [][Next]_w

-----------------------------------------------------------------------------
(***************************************************************************)
(* Properties.                                                             *)
(***************************************************************************)

\* Every field of the services, networks and counters keeps its type, and
\* service_list always holds every service once.
TypeOK ==
    /\ w.svc \in [Services -> [ip : [Families -> States], state : States,
                               favorite : BOOLEAN, strength : Strengths \union {0},
                               pending : BOOLEAN, reason : Reasons,
                               timeout : BOOLEAN, error : Errors, ignore : BOOLEAN,
                               checks : SUBSET Families, passphrase : BOOLEAN]]
    /\ w.net \in [Services -> [associating : BOOLEAN, connecting : BOOLEAN,
                               connected : BOOLEAN,
                               index : Services \union {None} \union
                                       {Device[s] : s \in Services}]]
    /\ Len(w.list) = Cardinality(Services)
    /\ Services = {w.list[i] : i \in DOMAIN w.list}
    /\ w.current_default \in Services \union {None}
    /\ w.autoconnect \subseteq Reasons /\ w.leaving \subseteq Services

CountOf(t, P(_)) == Cardinality({s \in Services : Type[s] = t /\ P(w.svc[s].state)})

\* The counters of notifier.c, from which the manager's state is derived, are
\* the numbers of connected and of online services of each type, whatever
\* nested changes of state a handler went through.
NotifierCounts ==
    \A t \in DOMAIN w.connected :
        /\ w.connected[t] = CountOf(t, is_connected)
        /\ w.online[t] = CountOf(t, is_online)

\* A caller of Connect() that has no answer yet has a timeout or a question to
\* the agent that will bring one.
PendingIsGuarded ==
    \A s \in Services :
        w.svc[s].pending => w.svc[s].timeout \/ Asked(s)

\* default_changed(): "only the default service should be online".
OnlyDefaultOnline ==
    \A s \in Services : is_online(w.svc[s].state) => s = connman_service_get_default(w)

\* A service of a network that does nothing is neither connecting nor connected, and
\* no gateway outlives the connection of its network: set_disconnected().
QuietNetwork ==
    \A s \in Services :
        /\ ~(w.net[s].connected \/ w.net[s].connecting \/ w.net[s].associating)
           => ~is_connecting(w.svc[s].state) /\ ~is_connected(w.svc[s].state)
        /\ ~w.net[s].connected => \A f \in Families : ~HasConfig(w.g, s, f)

\* connman.conf: with SingleConnectedTechnology "the new service is kept
\* connected" when it becomes ready.
NewServiceKept ==
    [][\A s \in Services :
        DhcpSuccess(s) /\ w.svc[s].state = "CONFIGURATION"
        => is_connected(w'.svc[s].state)]_w

-----------------------------------------------------------------------------
(* The services of the configurations. *)

NoPreference == <<>>
PreferWifi == <<"wifi">>

\* An ethernet and a wifi service, each on a device of its own.
EthWifiType == [s \in Services |-> IF s = "e" THEN "ethernet" ELSE "wifi"]
Alphabetical == [s \in Services |-> IF s = "e" THEN 1 ELSE 2]
OwnDevice == [s \in Services |-> s]
EthFirst == <<"e", "v">>

\* The strength of the only wifi service decides nothing: services of different
\* types are never compared by strength.
WithoutStrength == [w EXCEPT !.svc = [s \in Services |-> [w.svc[s] EXCEPT !.strength = 0]]]
=============================================================================

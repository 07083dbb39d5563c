---------------------------- MODULE GatewaySystem ----------------------------
(***************************************************************************)
(* The gateways of src/gateway.c under everything that drives them: the    *)
(* services that get an address, fail to renew it, disconnect or change    *)
(* places in the list, links that vanish, and the kernel's events, each    *)
(* delivered any time after the change that caused it.                     *)
(***************************************************************************)
EXTENDS Gateway, FiniteSets

\* A surrounding of the gateways: families with a gateway, by service (uses),
\* what happens besides connecting and sorting (disturbances), and a bound on
\* the steps that are not netlink events (changes).
CONSTANT Surroundings

VARIABLES
    g,           \* gateway_hash, the kernel's routes and the events under way
    list,        \* service_list
    connected,   \* services in state ready or online
    changes,     \* steps taken so far that are not netlink events
    around       \* the surrounding

vars == <<g, list, connected, changes, around>>

\* The orders service_compare() may give: connected services come first, and
\* among them a VPN without split routing before the services that carry it.
Orders(conn) ==
    {o \in [1..Cardinality(Services) -> Services] :
        /\ \A i, j \in DOMAIN o : i # j => o[i] # o[j]
        /\ \A i, j \in DOMAIN o :
              /\ i < j /\ o[j] \in conn => o[i] \in conn
              /\ i < j /\ o[j] \in conn \intersect (Vpn \ SplitRouting) => o[i] \in Vpn}

\* The orders in which the hash table may be walked.
HashOrders == Orders({})

Init ==
    /\ g = [cell |-> [p \in Services \X Families |-> NoCell],
            default_checked |-> [s \in Services |-> FALSE],
            up |-> Services,
            events |-> <<>>]
    /\ list \in Orders({})
    /\ connected = {}
    /\ changes = 0
    /\ around \in Surroundings

\* A VPN comes up over an active gateway and goes down before what carries it.
Carried(s) ==
    s \in Vpn => \E t \in connected \ Vpn, f \in Families : g.cell[<<t, f>>].state = "ACTIVE"

CarriesNone(s) == s \in Vpn \/ connected \intersect Vpn = {}

Change ==
    /\ changes < around.changes
    /\ "overlap" \in around.disturbances \/ g.events = <<>>
    /\ changes' = changes + 1
    /\ UNCHANGED around

\* __connman_ipconfig_gateway_add(): a family of the service has its address.
\* The first one makes the service ready, which sorts the list and updates the
\* gateways.
ServiceReady(s, f) ==
    /\ Change
    /\ s \in g.up
    /\ Carried(s)
    /\ f \in around.uses[s]
    /\ "early replace" \in around.disturbances \/ g.cell[<<s, f>>].state # "ADDED"
    /\ \E iter \in HashOrders :
          LET g1 == __connman_gateway_add(g, s, f, list, connected, iter)
          IN  IF s \in connected
              THEN g' = g1 /\ UNCHANGED <<list, connected>>
              ELSE /\ connected' = connected \union {s}
                   /\ list' \in Orders(connected')
                   /\ g' = __connman_gateway_update(g1, list', connected', iter)

\* dhcp_failure(): the address and the gateway of one family are gone.
GatewayGone(s, f) ==
    /\ Change
    /\ s \in connected \ Vpn
    /\ HasConfig(g, s, f)
    /\ "lease lost" \in around.disturbances
    /\ "early replace" \in around.disturbances \/ g.cell[<<s, f>>].state # "ADDED"
    /\ g' = __connman_gateway_remove(g, s, {f}, list, connected)
    /\ UNCHANGED <<list, connected>>

\* set_disconnected(), or connman_provider_set_state() for a VPN, whose
\* interface is gone by then: states disconnect, then idle, each of which
\* updates the gateways.
ServiceDisconnect(s) ==
    /\ Change
    /\ s \in connected
    /\ CarriesNone(s)
    /\ s \in Vpn => s \notin g.up
    /\ connected' = connected \ {s}
    /\ list' \in Orders(connected')
    /\ \E iter \in HashOrders :
          LET g1 == __connman_gateway_update(g, list', connected', iter)
              g2 == __connman_gateway_remove(g1, s, Families, list', connected')
          IN  g' = __connman_gateway_update(g2, list', connected', iter)

\* service_list_sort() after a change of preference or of online state, which
\* may leave the order as it is, and the update of the gateways that follows.
Reorder ==
    /\ Change
    /\ list' \in Orders(connected)
    /\ \E iter \in HashOrders :
          g' = __connman_gateway_update(g, list', connected, iter)
    /\ UNCHANGED connected

\* The kernel purges the routes of an interface without an event.
LinkLost(s) ==
    /\ Change
    /\ "link lost" \in around.disturbances
    /\ s \in g.up
    /\ CarriesNone(s)
    /\ g' = [g EXCEPT !.up = @ \ {s}, !.cell = [p \in Services \X Families |->
                IF p[1] = s THEN [g.cell[p] EXCEPT !.kernel = {}] ELSE g.cell[p]]]
    /\ UNCHANGED <<list, connected>>

LinkBack(s) ==
    /\ Change
    /\ s \notin g.up \union connected
    /\ g' = [g EXCEPT !.up = @ \union {s}]
    /\ UNCHANGED <<list, connected>>

\* process_newroute() and process_delroute(): the oldest event is handled.
RtnlEvent ==
    /\ g.events # <<>>
    /\ LET e == Head(g.events)
           g1 == [g EXCEPT !.events = Tail(@)]
       IN  \/ /\ e.op = "new"
              /\ \E iter \in HashOrders : g' = gateway_rtnl_new(g1, e, list, iter)
           \/ /\ e.op = "del"
              /\ g' = gateway_rtnl_del(g1, e, list, connected)
    /\ UNCHANGED <<list, connected, changes, around>>

Next ==
    \/ \E s \in Services, f \in Families : ServiceReady(s, f) \/ GatewayGone(s, f)
    \/ \E s \in Services : ServiceDisconnect(s) \/ LinkLost(s) \/ LinkBack(s)
    \/ Reorder
    \/ RtnlEvent

\* Weak fairness of RtnlEvent: the main loop handles the netlink events that
\* have arrived.  RtnlEvent is enabled when there are events, and it is the one
\* step of Next that is not counted as a change; the condition says it in these
\* terms because TLC evaluates WF_vars(RtnlEvent) a thousand times slower.
Fairness == []<>(g.events = <<>>) \/ []<><<g.events # <<>> /\ changes' = changes>>_vars

Spec == Init /\ [][Next]_vars /\ Fairness

-----------------------------------------------------------------------------
\* Configurations, interfaces and services keep their types; a configuration
\* with a route knows which; the list is one that service_compare() may give.
TypeOK ==
    /\ g.cell \in [Services \X Families -> Cells]
    /\ \A s \in Services, f \in Families :
          g.cell[<<s, f>>].state \in {"ADDED", "ACTIVE"} => g.cell[<<s, f>>].type # "NONE"
    /\ g.default_checked \in [Services -> BOOLEAN]
    /\ connected \subseteq Services
    /\ g.up \subseteq Services
    /\ list \in Orders(connected)

\* A configuration marked added or active has its default route in the kernel
\* as long as the link is up, whatever was promoted, demoted, replaced or
\* acknowledged meanwhile: set_default_gateway_route_common() and
\* unset_default_gateway_route_common() move the record and the table together.
AgreesWithKernel ==
    \A s \in g.up, f \in Families :
        LET c == g.cell[<<s, f>>]
        IN  c.state \in {"ADDED", "ACTIVE"} => c.type \in c.kernel

\* The kernel has no default route that gateway.c has forgotten: what add_gateway()
\* replaces and __connman_gateway_remove() drops is disabled first.  (The
\* interface route of a VPN goes with its interface.)
NoOrphanRoute ==
    \A s \in Services \ Vpn, f \in Families :
        LET c == g.cell[<<s, f>>]
        IN  c.kernel \subseteq IF c.state \in {"ADDED", "ACTIVE"} THEN {c.type} ELSE {}

\* Nothing is under way.
Quiet == g.events = <<>> /\ g.up = Services

\* Changes that wait for the events of the one before, in IPv4 alone.
OneAtATime ==
    "overlap" \notin around.disturbances /\ \A s \in Services : around.uses[s] = {"ipv4"}

\* Once the kernel's events are handled, every gateway of the default service
\* has the high-priority default route ("used by the default service"), if the
\* changes left the events the time to be handled.
DefaultIsHighPriority ==
    OneAtATime /\ Quiet => \A s \in Services, f \in Families :
        IsDefault(s, list, connected) /\ HasConfig(g, s, f) =>
            "HIGH" \in g.cell[<<s, f>>].kernel

\* The changes and the events they cause come to an end: promoting and demoting
\* on an event never keeps the kernel and check_default_gateway() busy for ever.
RtnlSettles == <>[](g.events = <<>>)

-----------------------------------------------------------------------------
(* The surroundings of the configurations. *)

AllIpv4 == [s \in Services |-> {"ipv4"}]
AllBoth == [s \in Services |-> Families]

Calm == [uses |-> AllIpv4, disturbances |-> {"link lost"}, changes |-> 8]
Busy == [uses |-> AllBoth, disturbances |-> {"link lost", "lease lost", "overlap"}, changes |-> 4]
CalmAndBusy == {Calm, Busy}
=============================================================================

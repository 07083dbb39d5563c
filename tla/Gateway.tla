------------------------------- MODULE Gateway -------------------------------
(***************************************************************************)
(* Default routes of the services, src/gateway.c.                          *)
(*                                                                         *)
(* A service with gateway data has a configuration per IP family.  Its     *)
(* route is high-priority (metric 0, for the default service) or           *)
(* low-priority (for the others, IPv4 only).  The daemon changes the       *)
(* kernel's table at once and learns later, from routing netlink events,   *)
(* that the kernel has acknowledged the change.                            *)
(*                                                                         *)
(* g is the state of the file: g.cell[<<s, f>>] holds the configuration of     *)
(* service s and family f together with the default routes the kernel      *)
(* really has on that interface, g.default_checked[s] is the sentinel of   *)
(* check_default_gateway(), and g.events are the netlink events under way. *)
(* list is the sorted service list and connected the services in state     *)
(* ready or online: both belong to src/service.c.                          *)
(***************************************************************************)
EXTENDS Integers, Sequences

CONSTANTS
    Services,
    Vpn,            \* services of type VPN
    SplitRouting,   \* VPNs that carry their own networks only
    OnLink          \* services whose gateway address is reachable on their interface

ASSUME GatewayAssumption ==
    /\ Vpn \subseteq Services
    /\ SplitRouting \subseteq Vpn
    /\ Services \ Vpn \subseteq OnLink
    /\ OnLink \subseteq Services

Families == {"ipv4", "ipv6"}

ConfigStates == {"INACTIVE", "ADDED", "ACTIVE", "REMOVED"}

ConfigTypes == {"NONE", "HIGH", "LOW"}

Cells == [state : ConfigStates \union {"NULL"}, type : ConfigTypes,
          kernel : SUBSET {"HIGH", "LOW"}]

NoCell == [state |-> "NULL", type |-> "NONE", kernel |-> {}]

HasConfig(g, s, f) == g.cell[<<s, f>>].state # "NULL"

\* The service has an entry in gateway_hash.
HasData(g, s) == \E f \in Families : HasConfig(g, s, f)

\* op applied to the elements of seq in turn, the results concatenated.
FlatMap(seq, op(_)) ==
    LET upto[i \in 0..Len(seq)] ==
            IF i = 0 THEN <<>> ELSE upto[i - 1] \o op(seq[i])
    IN  upto[Len(seq)]

-----------------------------------------------------------------------------
(***************************************************************************)
(* One configuration.  An operation returns the cell after it, whether it  *)
(* returned 0, and the netlink events it causes.                           *)
(***************************************************************************)

Result(cell, ok, events) == [cell |-> cell, ok |-> ok, events |-> events]

\* The kernel accepts the new default route: nothing refuses its type, and the
\* interface does not have it yet (NLM_F_EXCL).  The ioctl path that adds the
\* interface route of a VPN has no such check.
KernelAccepts(c, t, s, refused) ==
    t \notin refused /\ (t \in c.kernel => t = "HIGH" /\ s \in Vpn)

\* Faulty variant: the type of the route is not recorded.
set_default_gateway_route_common_NoType(c, t, s, refused) ==
    IF c.state \in {"ADDED", "ACTIVE"} \/ ~KernelAccepts(c, t, s, refused)
    THEN Result(c, FALSE, <<>>)
    ELSE Result([c EXCEPT !.state = "ADDED", !.kernel = @ \union {t}], TRUE, <<"new">>)

\* Faulty variant: the configuration is marked even when the kernel refused.
set_default_gateway_route_common_IgnoreError(c, t, s, refused) ==
    IF c.state \in {"ADDED", "ACTIVE"}
    THEN Result(c, FALSE, <<>>)
    ELSE Result([c EXCEPT !.state = "ADDED", !.type = t,
                          !.kernel = IF KernelAccepts(c, t, s, refused)
                                     THEN @ \union {t} ELSE @],
                TRUE, IF KernelAccepts(c, t, s, refused) THEN <<"new">> ELSE <<>>)

set_default_gateway_route_common(c, t, s, refused) ==
    IF c.state \in {"ADDED", "ACTIVE"} \/ ~KernelAccepts(c, t, s, refused)
    THEN Result(c, FALSE, <<>>)
    ELSE Result([c EXCEPT !.state = "ADDED", !.type = t,
                          !.kernel = @ \union {t}],
                TRUE, IF t \in c.kernel THEN <<>> ELSE <<"new">>)

\* A route the kernel has purged (ESRCH) counts as deleted.
unset_default_gateway_route_common(c, t) ==
    IF c.state \in {"INACTIVE", "REMOVED"} \/ c.type # t
    THEN Result(c, FALSE, <<>>)
    ELSE Result([c EXCEPT !.state = "REMOVED", !.kernel = @ \ {t}],
                TRUE, IF t \in c.kernel THEN <<"del">> ELSE <<>>)

\* set_low_priority_default_gateway(): IPv6 has no such operation.
SetLow(c, s, f, refused) ==
    IF f = "ipv6" THEN Result(c, TRUE, <<>>)
    ELSE set_default_gateway_route_common(c, "LOW", s, refused)

\* unset_low_priority_default_gateway().
UnsetLow(c, f) ==
    IF f = "ipv6" THEN Result(c, TRUE, <<>>)
    ELSE unset_default_gateway_route_common(c, "LOW")

\* An unset and a set that follows it: one of them has to succeed.
Both(unset, set) ==
    Result(set.cell, unset.ok \/ set.ok, unset.events \o set.events)

\* Faulty variant: the high-priority route is left in place.
DemoteCell_KeepHigh(c, s, f, refused) == SetLow(c, s, f, refused)

\* demote_default_gateway() for one family.
DemoteCell(c, s, f, refused) ==
    Both(unset_default_gateway_route_common(c, "HIGH"),
         SetLow(unset_default_gateway_route_common(c, "HIGH").cell, s, f, refused))

\* promote_default_gateway() for one family.
PromoteCell(c, s, f, refused) ==
    Both(UnsetLow(c, f),
         set_default_gateway_route_common(UnsetLow(c, f).cell, "HIGH", s, refused))

-----------------------------------------------------------------------------
(***************************************************************************)
(* All configurations.                                                     *)
(***************************************************************************)

\* The types of default route the kernel refuses on the interface of s: all of
\* them when it is down (ENETDOWN, ENODEV), the high-priority one when another
\* interface has it (EEXIST; VPNs use the ioctl), the low-priority one when the
\* gateway is not on the link.  Every interface has its own low-priority metric.
Refused(g, s, f) ==
    IF s \notin g.up THEN {"HIGH", "LOW"}
    ELSE {t \in {"HIGH", "LOW"} :
            \/ t = "HIGH" /\ s \notin Vpn
               /\ \E r \in Services \ {s} : "HIGH" \in g.cell[<<r, f>>].kernel
            \/ t = "LOW" /\ s \notin OnLink}

Tag(ops, s, f) == [i \in 1..Len(ops) |-> [op |-> ops[i], s |-> s, f |-> f]]

Put(g, s, f, r) ==
    [g EXCEPT !.cell[<<s, f>>] = r.cell, !.events = @ \o Tag(r.events, s, f)]

Demoted(g, p) == DemoteCell(g.cell[p], p[1], p[2], Refused(g, p[1], p[2]))

\* DEMOTE_DEFAULT_GATEWAY of each <<service, family>> pair of seq in turn.  No
\* pair occurs twice, and demoting one changes nothing another depends on.
DemoteEach(g, seq) ==
    [g EXCEPT !.cell = [p \in Services \X Families |->
                          IF HasConfig(g, p[1], p[2]) /\ \E i \in 1..Len(seq) : seq[i] = p
                          THEN Demoted(g, p).cell ELSE g.cell[p]],
              !.events = @ \o FlatMap(seq, LAMBDA p :
                                Tag(Demoted(g, p).events, p[1], p[2]))]

\* PROMOTE_DEFAULT_GATEWAY for one family; nothing without a configuration.
Promote(g, s, f) ==
    IF HasConfig(g, s, f)
    THEN Put(g, s, f, PromoteCell(g.cell[<<s, f>>], s, f, Refused(g, s, f)))
    ELSE g

PromoteIn(g, s, f, fs) == IF f \in fs THEN Promote(g, s, f) ELSE g

\* PROMOTE_DEFAULT_GATEWAY for CONNMAN_IPCONFIG_TYPE_ALL, or for one family.
PromoteAll(g, s, fs) == PromoteIn(PromoteIn(g, s, "ipv4", fs), s, "ipv6", fs)

\* connman_service_get_default(): the head of the list, if it is connected.
IsDefault(s, list, connected) ==
    list # <<>> /\ s = list[1] /\ s \in connected

\* __connman_service_compare(a, b) < 0: a precedes b in the sorted list.
Precedes(a, b, list) ==
    \E i, j \in 1..Len(list) : i < j /\ list[i] = a /\ list[j] = b

-----------------------------------------------------------------------------
(***************************************************************************)
(* yield_default_gateway(): activated yields to an active gateway of a     *)
(* more senior service; a gateway that is not active yet yields to         *)
(* activated.  iter is the order in which the hash table is walked.        *)
(***************************************************************************)
BothConfigured(g, a, e, f) == HasConfig(g, a, f) /\ HasConfig(g, e, f)

Yields(g, a, e, f, list) ==
    /\ BothConfigured(g, a, e, f)
    /\ g.cell[<<e, f>>].state = "ACTIVE"
    /\ Precedes(e, a, list)

\* The pairs demoted when activated a meets the existing e.
YieldingPairs(g, a, e, list) ==
    LET pair(f) == IF BothConfigured(g, a, e, f) /\ g.cell[<<e, f>>].state # "ACTIVE"
                   THEN << <<e, f>> >>
                   ELSE IF Yields(g, a, e, f, list) THEN << <<a, f>> >> ELSE <<>>
    IN  pair("ipv4") \o pair("ipv6")

\* The gateways activated a is compared with, in the order of the walk, which
\* ends at the first it yields to.
Others(g, a, list, iter) ==
    LET others == SelectSeq(iter, LAMBDA e : e # a /\ HasData(g, e))
        winners == {i \in 1..Len(others) :
                      \E f \in Families : Yields(g, a, others[i], f, list)}
    IN  IF winners = {} THEN others
        ELSE SubSeq(others, 1, CHOOSE i \in winners : \A j \in winners : i <= j)

YieldsToAny(g, a, list, iter) ==
    LET others == Others(g, a, list, iter)
    IN  \E i \in 1..Len(others), f \in Families : Yields(g, a, others[i], f, list)

Yielding(g, a, list, iter) ==
    FlatMap(Others(g, a, list, iter), LAMBDA e : YieldingPairs(g, a, e, list))

check_default_gateway(g, a, list, iter) ==
    LET g1 == DemoteEach(g, Yielding(g, a, list, iter))
        g2 == IF YieldsToAny(g, a, list, iter) THEN g1 ELSE PromoteAll(g1, a, Families)
    IN  IF g.default_checked[a] THEN g
        ELSE [g2 EXCEPT !.default_checked[a] = TRUE]

\* find_gateway_config(): the events of a VPN's interface route carry no
\* gateway address, so they match no configuration.
Matches(g, e) == e.s \in Services \ Vpn /\ e.f \in Families /\ HasConfig(g, e.s, e.f)

gateway_rtnl_new(g, e, list, iter) ==
    IF Matches(g, e) /\ g.cell[<<e.s, e.f>>].state \in {"ADDED", "ACTIVE"}
    THEN check_default_gateway([g EXCEPT !.cell[<<e.s, e.f>>].state = "ACTIVE"],
                               e.s, list, iter)
    ELSE g

\* The default service, if any, gets the high-priority route.
PromoteDefault(g, fs, list, connected) ==
    IF list # <<>> /\ list[1] \in connected THEN PromoteAll(g, list[1], fs) ELSE g

\* Faulty variant: the removal of a route that has been set again since is
\* taken for a loss, and the route is installed anew.
gateway_rtnl_del_Reinstall(g, e, list, connected) ==
    IF ~Matches(g, e) THEN PromoteDefault(g, Families, list, connected)
    ELSE LET t == g.cell[<<e.s, e.f>>].type
             g1 == Put(g, e.s, e.f, unset_default_gateway_route_common(g.cell[<<e.s, e.f>>], t))
         IN  Put(g1, e.s, e.f, set_default_gateway_route_common(
                                   g1.cell[<<e.s, e.f>>], t, e.s, Refused(g1, e.s, e.f)))

gateway_rtnl_del(g, e, list, connected) ==
    IF ~Matches(g, e) THEN PromoteDefault(g, Families, list, connected)
    ELSE IF g.cell[<<e.s, e.f>>].state # "REMOVED" THEN g
    ELSE PromoteDefault([g EXCEPT !.cell[<<e.s, e.f>>].state = "INACTIVE"],
                        Families, list, connected)

-----------------------------------------------------------------------------
(***************************************************************************)
(* del_gateway_routes(): each configured family in fs unsets the routes of *)
(* all of fs.  r holds the gateways and whether every unset succeeded.     *)
(***************************************************************************)
Store(r, s, f, unset) == [g |-> Put(r.g, s, f, unset), ok |-> r.ok /\ unset.ok]

UnsetHigh(r, s, f, fs) ==
    IF f \in fs /\ HasConfig(r.g, s, f)
    THEN Store(r, s, f, unset_default_gateway_route_common(r.g.cell[<<s, f>>], "HIGH"))
    ELSE r

\* Its status is not looked at.
UnsetLowIn(r, s, fs) ==
    IF "ipv4" \in fs /\ HasConfig(r.g, s, "ipv4")
    THEN [g |-> Put(r.g, s, "ipv4", UnsetLow(r.g.cell[<<s, "ipv4">>], "ipv4")), ok |-> r.ok]
    ELSE r

DelRoutesOf(r, s, f, fs) ==
    IF f \notin fs \/ ~HasConfig(r.g, s, f) \/ s \in Vpn THEN r
    ELSE UnsetLowIn(UnsetHigh(UnsetHigh(r, s, "ipv4", fs), s, "ipv6", fs), s, fs)

del_gateway_routes(g, s, fs) ==
    DelRoutesOf(DelRoutesOf([g |-> g, ok |-> TRUE], s, "ipv4", fs), s, "ipv6", fs)

\* For a single family only an active configuration is taken down.
del_gateway_routes_if_active(g, s, fs) ==
    IF fs = Families \/ \E f \in fs : g.cell[<<s, f>>].state = "ACTIVE"
    THEN del_gateway_routes(g, s, fs)
    ELSE [g |-> g, ok |-> TRUE]

\* A fresh configuration replaces the one of this family, if any.
add_gateway(g, s, f) ==
    [IF HasData(g, s) THEN del_gateway_routes_if_active(g, s, {f}).g ELSE g
     EXCEPT !.cell[<<s, f>>] = [@ EXCEPT !.state = "INACTIVE", !.type = "NONE"],
            !.default_checked[s] = FALSE]

SetDefault(g, s, f) ==
    Put(g, s, f, set_default_gateway_route_common(g.cell[<<s, f>>], "HIGH", s, Refused(g, s, f)))

SetLowDefault(g, s, f) ==
    Put(g, s, f, SetLow(g.cell[<<s, f>>], s, f, Refused(g, s, f)))

IsActive(g, s) == \E f \in Families : g.cell[<<s, f>>].state = "ACTIVE"

\* The first active gateway that the walk of the hash table meets.
find_any_active_gateway_data(g, iter) ==
    iter[CHOOSE i \in DOMAIN iter :
            IsActive(g, iter[i]) /\ \A j \in 1..(i - 1) : ~IsActive(g, iter[j])]

\* connman_inet_clear_gateway_address(): the kernel deletes the default route of
\* the gateway of s with the best metric; its configuration is not touched.  (One
\* without this family is a null pointer to the code.)
ClearRoute(g, s, f) ==
    LET kernel == g.cell[<<s, f>>].kernel
        lost == IF "HIGH" \in kernel THEN {"HIGH"} ELSE kernel
    IN  [g EXCEPT !.cell[<<s, f>>].kernel = @ \ lost,
                  !.events = @ \o IF lost = {} THEN <<>> ELSE Tag(<<"del">>, s, f)]

\* The route of a gateway that has been added.
AddRoute(g, s, f, list, connected, iter) ==
    LET default_gateway == \E r \in Services : IsDefault(r, list, connected) /\ HasData(g, r)
    IN  IF ~\E r \in Services : IsActive(g, r) THEN SetDefault(g, s, f)
        ELSE IF default_gateway /\ s \notin Vpn THEN SetLowDefault(g, s, f)
        ELSE IF s \in Vpn \ SplitRouting
        THEN ClearRoute(g, find_any_active_gateway_data(g, iter), f)
        ELSE g

\* __connman_gateway_add() up to the indication of the ready state.
__connman_gateway_add(g, s, f, list, connected, iter) ==
    AddRoute(add_gateway(g, s, f), s, f, list, connected, iter)

\* The entry of the service leaves the hash table.
Forget(g, s) ==
    [g EXCEPT !.cell = [p \in Services \X Families |->
        IF p[1] = s THEN [g.cell[p] EXCEPT !.state = "NULL", !.type = "NONE"]
        ELSE g.cell[p]]]

Drop(r, s, all) == [g |-> IF all THEN Forget(r.g, s) ELSE r.g, ok |-> r.ok]

\* The default service takes over from a VPN, or when a route was not deleted.
AfterRemoval(r, is_vpn, fs, list, connected) ==
    IF is_vpn \/ ~r.ok THEN PromoteDefault(r.g, fs, list, connected) ELSE r.g

\* Faulty variant: the routes of a removed gateway are left in the kernel.
__connman_gateway_remove_KeepRoutes(g, s, fs, list, connected) ==
    IF HasData(g, s) /\ fs = Families THEN Forget(g, s) ELSE g

__connman_gateway_remove(g, s, fs, list, connected) ==
    LET all == fs = Families \/ \A f \in Families \ fs : ~HasConfig(g, s, f)
        is_vpn == s \in Vpn /\ \E f \in fs : HasConfig(g, s, f)
    IN  IF ~HasData(g, s) THEN g
        ELSE AfterRemoval(Drop(del_gateway_routes_if_active(g, s, fs), s, all),
                          is_vpn, fs, list, connected)

-----------------------------------------------------------------------------
(***************************************************************************)
(* __connman_gateway_update(): every active gateway but the default one is *)
(* demoted, and the default one promoted if the last demotion of its       *)
(* family succeeded or if it is not active.                                *)
(***************************************************************************)
ActivePairs(g, e) ==
    LET pair(f) == IF g.cell[<<e, f>>].state = "ACTIVE" THEN << <<e, f>> >> ELSE <<>>
    IN  pair("ipv4") \o pair("ipv6")

Updated(g, seq, f) ==
    LET mine == SelectSeq(seq, LAMBDA p : p[2] = f)
    IN  mine # <<>> /\ Demoted(g, mine[Len(mine)]).ok

\* g is what the demotion of seq has left of old.
PromoteUpdated(g, old, seq, list, connected) ==
    PromoteDefault(g, {f \in Families :
                         \/ Updated(old, seq, f)
                         \/ list # <<>> /\ g.cell[<<list[1], f>>].state # "ACTIVE"},
                   list, connected)

UpdateEach(g, seq, list, connected) ==
    PromoteUpdated(DemoteEach(g, seq), g, seq, list, connected)

__connman_gateway_update(g, list, connected, iter) ==
    UpdateEach(g, FlatMap(SelectSeq(iter, LAMBDA e : ~IsDefault(e, list, connected)),
                          LAMBDA e : ActivePairs(g, e)),
               list, connected)
=============================================================================

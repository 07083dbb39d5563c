---------------------------- MODULE ServiceProofs ----------------------------
(***************************************************************************)
(* Services in order and their gateways.                                   *)
(*                                                                         *)
(* The first part is about ServiceOrder: the comparison of services for    *)
(* every list of preferred technologies and every value of the attributes. *)
(*                                                                         *)
(* The second is about GatewaySystem: records and routing table agree, for *)
(* every set of services, VPNs and any interleaving of changes and netlink *)
(* events.  CellOK is the invariant of one configuration, GatewaysOK of    *)
(* them all; first each function of src/gateway.c is shown to maintain it, *)
(* then every step.  For RoutesAgree nothing is assumed of the events      *)
(* under way: a stale or repeated event does no harm either.  Tight, the   *)
(* part of CellOK that says no route is left behind, holds when no gateway *)
(* is replaced or removed before its route is acknowledged (Orderly).      *)
(***************************************************************************)
EXTENDS GatewaySystem, ServiceOrder, FiniteSetTheorems, TLAPS

Compared ==
    [state : States, favorite : BOOLEAN, strength : Int,
     threshold_met : BOOLEAN, type : Types, name : Int, order : Int]

Connected(a) == a \in Compared /\ is_connected(a.state)

\* The combined state is connected exactly when one of the families is: the
\* state combine_state() returns hides no working family.
THEOREM CombinedConnected ==
    ASSUME NEW a \in States, NEW b \in States
    PROVE  is_connected(combine_state(a, b)) <=> is_connected(a) \/ is_connected(b)
BY DEF States, Precedence, combine_state, is_connected

\* The order in which the families change does not matter, so the state the
\* daemon shows depends on state_ipv4 and state_ipv6 alone.
THEOREM CombineLattice ==
    ASSUME NEW a \in States, NEW b \in States, NEW c \in States
    PROVE  /\ combine_state(a, b) \in States
           /\ combine_state(a, b) = combine_state(b, a)
           /\ combine_state(a, combine_state(b, c))
                = combine_state(combine_state(a, b), c)
BY DEF States, Precedence, combine_state

-----------------------------------------------------------------------------

\* The rank of a technology is a number.
LEMMA PreferredRankType == \A type : PreferredRank(type) \in Int
<1> TAKE type
<1> DEFINE I == 1..Len(PreferredTechnologies)
<1> DEFINE before == {i \in I : \A j \in 1..i : PreferredTechnologies[j] # type}
<1>1. Len(PreferredTechnologies) \in Nat
  BY OrderAssumption
<1>2. IsFiniteSet(I)
  BY <1>1, FS_Interval
<1>3. IsFiniteSet(before)
  BY <1>2, FS_Subset
<1>4. Cardinality(before) \in Nat
  BY <1>3, FS_CardinalityType
<1> QED
  BY <1>4 DEF PreferredRank

\* What tells connected services apart, as numbers: the smaller sorts first.
Keys(a) == <<IF a.threshold_met THEN 1 ELSE 0,
             0 - a.order,
             PreferredRank(a.type),
             IF is_online(a.state) THEN 0 ELSE 1,
             IF a.favorite THEN 0 ELSE 1,
             TypeRank[a.type],
             0 - a.strength,
             a.name>>

Lex(u, v) ==
    Then(u[1] - v[1], Then(u[2] - v[2], Then(u[3] - v[3], Then(u[4] - v[4],
    Then(u[5] - v[5], Then(u[6] - v[6], Then(u[7] - v[7], u[8] - v[8])))))))

IntKeys == Int \X Int \X Int \X Int \X Int \X Int \X Int \X Int

\* The sort keys are numbers.
LEMMA KeysType == ASSUME NEW a \in Compared PROVE Keys(a) \in IntKeys
BY PreferredRankType DEF Compared, Keys, IntKeys, Types, TypeRank

\* The comparison of two connected services is lexicographic in their keys.
LEMMA CompareIsLex ==
    ASSUME NEW a, NEW b, Connected(a), Connected(b)
    PROVE  CompareAlike(a, b) = Lex(Keys(a), Keys(b))
<1> DEFINE k == Keys(a)
           l == Keys(b)
<1>1. k \in IntKeys /\ l \in IntKeys
  BY KeysType DEF Connected
<1>2. First(~a.threshold_met, ~b.threshold_met) = k[1] - l[1]
  BY DEF First, Keys, Connected, Compared
<1>3. b.order - a.order = k[2] - l[2]
  BY DEF Keys, Connected, Compared
<1>4. service_compare_preferred(a, b) = k[3] - l[3]
  BY DEF service_compare_preferred, Keys
<1>5. CompareState(a, b) = k[4] - l[4]
  BY DEF CompareState, Then, First, Keys, Connected, is_connected, is_online
<1>6. First(a.favorite, b.favorite) = k[5] - l[5]
  BY DEF First, Keys, Connected, Compared
<1>7. CompareType(a, b) = Then(k[3] - l[3], k[6] - l[6])
  BY <1>4 DEF CompareType, Keys
<1>8. b.strength - a.strength = k[7] - l[7] /\ a.name - b.name = k[8] - l[8]
  BY DEF Keys, Connected, Compared
<1>9. CompareConnected(a, b, 0)
        = Then(k[1] - l[1], Then(k[2] - l[2], k[3] - l[3]))
  BY <1>1, <1>2, <1>3, <1>4 DEF CompareConnected, Then, IntKeys
<1>10. CompareRest(a, b)
         = Then(k[4] - l[4], Then(k[5] - l[5],
           Then(Then(k[3] - l[3], k[6] - l[6]), Then(k[7] - l[7], k[8] - l[8]))))
  BY <1>5, <1>6, <1>7, <1>8 DEF CompareRest
<1>11. CompareAlike(a, b) = Then(CompareConnected(a, b, 0), CompareRest(a, b))
  BY DEF CompareAlike, BothConnected, Connected
<1> HIDE DEF k, l
<1>12. CompareAlike(a, b) = Lex(k, l)
  BY <1>1, <1>9, <1>10, <1>11 DEF Lex, Then, IntKeys
<1> QED
  BY <1>12 DEF k, l

\* Comparing key by key is transitive.
LEMMA LexTransitive ==
    ASSUME NEW u \in IntKeys, NEW v \in IntKeys, NEW w \in IntKeys,
           Lex(u, v) <= 0, Lex(v, w) <= 0
    PROVE  Lex(u, w) <= 0
BY DEF IntKeys, Lex, Then

\* Comparing key by key is antisymmetric.
LEMMA LexAntisymmetric ==
    ASSUME NEW u \in IntKeys, NEW v \in IntKeys
    PROVE  Lex(u, v) <= 0 <=> Lex(v, u) >= 0
BY DEF IntKeys, Lex, Then

\* Among connected services that are all VPNs, or none of which is,
\* service_compare() is a consistent order: g_list_sort() finds the same
\* default service whatever list it starts from, up to services that differ in
\* nothing the comparison reads.
THEOREM ConnectedOrder ==
    ASSUME NEW a, NEW b, NEW c, Connected(a), Connected(b), Connected(c)
    PROVE  /\ CompareAlike(a, b) <= 0 <=> CompareAlike(b, a) >= 0
           /\ CompareAlike(a, b) <= 0 /\ CompareAlike(b, c) <= 0
                => CompareAlike(a, c) <= 0
<1>1. /\ Keys(a) \in IntKeys
      /\ Keys(b) \in IntKeys
      /\ Keys(c) \in IntKeys
  BY KeysType DEF Connected
<1>2. /\ CompareAlike(a, b) = Lex(Keys(a), Keys(b))
      /\ CompareAlike(b, a) = Lex(Keys(b), Keys(a))
      /\ CompareAlike(b, c) = Lex(Keys(b), Keys(c))
      /\ CompareAlike(a, c) = Lex(Keys(a), Keys(c))
  BY CompareIsLex
<1> QED
  BY <1>1, <1>2, LexTransitive, LexAntisymmetric

\* A connected service sorts before one that is not, whatever their types,
\* favorite status and strength.
THEOREM ConnectedSortsFirst ==
    ASSUME NEW S, NEW x \in [S -> Compared], NEW s \in S, NEW t \in S,
           is_connected(x[s].state), ~is_connected(x[t].state)
    PROVE  service_compare(x, s, t) < 0 /\ service_compare(x, t, s) > 0
BY SMTT(30) DEF service_compare, CompareAlike, CompareRest, CompareState, Then, First,
       BothConnected, is_connected, is_online

-----------------------------------------------------------------------------

\* No configuration is replaced or removed while its route is not acknowledged yet.
Orderly == \A a \in Surroundings : "early replace" \notin a.disturbances

\* No VPN takes the whole traffic: adding one clears no other gateway's route.
OnlySplit == Vpn = SplitRouting

\* The configuration has no route of its own.
Down(c) == c.state \notin {"ADDED", "ACTIVE"}

\* The routes of the interface are those of its configuration; IPv6 has high-priority
\* ones only.
Tight(c, f) ==
    /\ c.kernel \subseteq IF Down(c) THEN {} ELSE {c.type}
    /\ f = "ipv6" => Down(c) \/ c.type = "HIGH"

CellOK(c, s, f, up) ==
    /\ c \in Cells
    /\ c.state \in {"ADDED", "ACTIVE"} =>
          c.type # "NONE" /\ (OnlySplit /\ s \in up => c.type \in c.kernel)
    /\ Orderly /\ s \notin Vpn => Tight(c, f)

\* What a configuration must be to be replaced or forgotten.
Gone(c, s) == Orderly /\ s \notin Vpn => Down(c)

GatewaysOK(x) ==
    /\ DOMAIN x = {"cell", "default_checked", "up", "events"}
    /\ x = [n \in DOMAIN x |-> x[n]]
    /\ x.cell \in [Services \X Families -> Cells]
    /\ x.default_checked \in [Services -> BOOLEAN]
    /\ x.up \in SUBSET Services
    /\ \A s \in Services, f \in Families : CellOK(x.cell[<<s, f>>], s, f, x.up)

\* y comes from x by operations that give no configuration to a service
\* outside new and leave the interfaces alone.
Follows(x, y, new) ==
    /\ GatewaysOK(y)
    /\ y.up = x.up
    /\ \A s \in Services \ new, f \in Families :
          x.cell[<<s, f>>].state = "NULL" => y.cell[<<s, f>>].state = "NULL"

USE DEF Families, ConfigStates, ConfigTypes

-----------------------------------------------------------------------------
\* A route that is set is recorded and in the table; one that is refused
\* changes nothing.
LEMMA SetCommonOK ==
    ASSUME NEW c, NEW s, NEW f, NEW up, CellOK(c, s, f, up), NEW t \in {"HIGH", "LOW"},
           t = "LOW" => f # "ipv6", NEW refused
    PROVE  CellOK(set_default_gateway_route_common(c, t, s, refused).cell, s, f, up)
  BY Zenon DEF CellOK, Tight, Down, Cells, set_default_gateway_route_common, Result

\* A route that is unset leaves the configuration removed.
LEMMA UnsetCommonOK ==
    ASSUME NEW c, NEW s, NEW f, NEW up, CellOK(c, s, f, up), NEW t \in {"HIGH", "LOW"}
    PROVE  LET u == unset_default_gateway_route_common(c, t).cell
           IN  /\ CellOK(u, s, f, up)
               /\ c.state # "NULL" => u.state # "NULL"
               /\ Down(c) => Down(u)
  BY Zenon DEF CellOK, Tight, Down, Cells, unset_default_gateway_route_common, Result

\* set_low_priority_default_gateway(), for either family.
LEMMA SetLowOK ==
    ASSUME NEW c, NEW s, NEW f, NEW up, CellOK(c, s, f, up), NEW refused
    PROVE  CellOK(SetLow(c, s, f, refused).cell, s, f, up)
  BY SetCommonOK DEF SetLow, Result

\* unset_low_priority_default_gateway(), for either family.
LEMMA UnsetLowOK ==
    ASSUME NEW c, NEW s, NEW f, NEW up, CellOK(c, s, f, up)
    PROVE  LET u == UnsetLow(c, f).cell
           IN  CellOK(u, s, f, up) /\ (Down(c) => Down(u))
  BY UnsetCommonOK, Zenon DEF UnsetLow, Result

\* Unsetting the high-priority route, and then the low-priority one, leaves none.
LEMMA UnsetBoth ==
    ASSUME NEW c, NEW s, NEW f, NEW up, CellOK(c, s, f, up)
    PROVE  LET u == unset_default_gateway_route_common(c, "HIGH").cell
           IN  /\ Down(unset_default_gateway_route_common(u, "LOW").cell)
               /\ f = "ipv6" => Gone(u, s)
  BY DEF CellOK, Tight, Gone, Down, Cells, unset_default_gateway_route_common, Result

\* demote_default_gateway() keeps a configuration consistent.
LEMMA DemoteCellOK ==
    ASSUME NEW c, NEW s, NEW f, NEW up, CellOK(c, s, f, up), NEW refused
    PROVE  CellOK(DemoteCell(c, s, f, refused).cell, s, f, up)
  <1> DEFINE u == unset_default_gateway_route_common(c, "HIGH").cell
  <1>1. CellOK(u, s, f, up)
    BY UnsetCommonOK
  <1>2. DemoteCell(c, s, f, refused).cell = SetLow(u, s, f, refused).cell
    BY DEF DemoteCell, Both, Result
  <1> QED
    BY <1>1, <1>2, SetLowOK

\* promote_default_gateway() keeps a configuration consistent.
LEMMA PromoteCellOK ==
    ASSUME NEW c, NEW s, NEW f, NEW up, CellOK(c, s, f, up), NEW refused
    PROVE  CellOK(PromoteCell(c, s, f, refused).cell, s, f, up)
  <1> DEFINE u == UnsetLow(c, f).cell
  <1>1. CellOK(u, s, f, up)
    BY UnsetLowOK
  <1>2. PromoteCell(c, s, f, refused).cell
            = set_default_gateway_route_common(u, "HIGH", s, refused).cell
    BY DEF PromoteCell, Both, Result
  <1> QED
    BY <1>1, <1>2, SetCommonOK

\* The kernel's events move a configuration from added to active and from
\* removed to inactive; add_gateway() starts with a fresh one.
LEMMA AcknowledgedOK ==
    ASSUME NEW c, NEW s, NEW f, NEW up, CellOK(c, s, f, up)
    PROVE  /\ ~Down(c) => CellOK([c EXCEPT !.state = "ACTIVE"], s, f, up)
           /\ Gone(c, s) => /\ CellOK([c EXCEPT !.state = "INACTIVE"], s, f, up)
                            /\ CellOK([c EXCEPT !.state = "INACTIVE", !.type = "NONE"], s, f, up)
                            /\ CellOK([c EXCEPT !.state = "NULL", !.type = "NONE"], s, f, up)
  BY Zenon DEF CellOK, Tight, Gone, Down, Cells

-----------------------------------------------------------------------------
\* Operations compose.
LEMMA FollowsTrans ==
    ASSUME NEW x, NEW y, NEW z, NEW new, Follows(x, y, new), Follows(y, z, new)
    PROVE  Follows(x, z, new)
  BY DEF Follows

\* Doing nothing is allowed.
LEMMA FollowsSelf ==
    ASSUME NEW x, GatewaysOK(x), NEW new
    PROVE  Follows(x, x, new)
  BY DEF Follows

\* What configures no service configures none outside new.
LEMMA FollowsMore ==
    ASSUME NEW x, NEW y, NEW new, Follows(x, y, {})
    PROVE  Follows(x, y, new)
  BY DEF Follows

\* Storing a consistent configuration.
LEMMA StoreOK ==
    ASSUME NEW x, GatewaysOK(x), NEW s \in Services, NEW f \in Families, NEW c,
           CellOK(c, s, f, x.up), NEW y, y = [x EXCEPT !.cell[<<s, f>>] = c]
    PROVE  /\ Follows(x, y, {s})
           /\ x.cell[<<s, f>>].state # "NULL" => Follows(x, y, {})
  BY ZenonT(30) DEF GatewaysOK, Follows, CellOK

\* The result of an operation on one configuration is stored.
LEMMA PutOK ==
    ASSUME NEW x, GatewaysOK(x), NEW s \in Services, NEW f \in Families, NEW r,
           CellOK(r.cell, s, f, x.up)
    PROVE  /\ Follows(x, Put(x, s, f, r), {s})
           /\ x.cell[<<s, f>>].state # "NULL" => Follows(x, Put(x, s, f, r), {})
           /\ r.cell.state = "NULL" => Follows(x, Put(x, s, f, r), {})
  BY ZenonT(40) DEF GatewaysOK, Follows, Put, CellOK

\* Demoting any sequence of gateways.
LEMMA DemoteEachOK ==
    ASSUME NEW x, GatewaysOK(x), NEW seq
    PROVE  Follows(x, DemoteEach(x, seq), {})
  <1> DEFINE c(p) == IF HasConfig(x, p[1], p[2]) /\ \E i \in 1..Len(seq) : seq[i] = p
                     THEN Demoted(x, p).cell ELSE x.cell[p]
             cells == [p \in Services \X Families |-> c(p)]
  <1>1. \A s \in Services, f \in Families :
            /\ CellOK(c(<<s, f>>), s, f, x.up)
            /\ x.cell[<<s, f>>].state = "NULL" => c(<<s, f>>).state = "NULL"
    BY DemoteCellOK, Zenon DEF GatewaysOK, Demoted, HasConfig
  <1>2. PICK ev : DemoteEach(x, seq) = [x EXCEPT !.cell = cells, !.events = ev]
    BY Zenon DEF DemoteEach
  <1> HIDE DEF c
  <1>3. ASSUME NEW p \in Services \X Families
        PROVE  c(p) \in Cells
    <2>1. PICK s \in Services, f \in Families : p = <<s, f>>
      OBVIOUS
    <2> QED
      BY <1>1, <2>1, Zenon DEF CellOK
  <1>4. cells \in [Services \X Families -> Cells]
    BY <1>3
  <1>5. \A s \in Services, f \in Families :
            /\ CellOK(cells[<<s, f>>], s, f, x.up)
            /\ x.cell[<<s, f>>].state = "NULL" => cells[<<s, f>>].state = "NULL"
    BY <1>1, Zenon
  <1> HIDE DEF cells
  <1>6. GatewaysOK(DemoteEach(x, seq)) /\ DemoteEach(x, seq).up = x.up
        /\ DemoteEach(x, seq).cell = cells
    <2> DEFINE y == [x EXCEPT !.cell = cells, !.events = ev]
    <2>1. \A s \in Services, f \in Families : CellOK(cells[<<s, f>>], s, f, x.up)
      BY <1>5, Zenon
    <2>2. GatewaysOK(y) /\ y.up = x.up /\ y.cell = cells
      BY <1>4, <2>1, Zenon DEF GatewaysOK
    <2> QED
      BY <1>2, <2>2
  <1> QED
    BY <1>5, <1>6 DEF Follows

\* Promoting one family of a service.
LEMMA PromoteOK ==
    ASSUME NEW x, GatewaysOK(x), NEW s \in Services, NEW f \in Families
    PROVE  Follows(x, Promote(x, s, f), {})
  <1>1. CellOK(PromoteCell(x.cell[<<s, f>>], s, f, Refused(x, s, f)).cell, s, f, x.up)
    BY PromoteCellOK, Zenon DEF GatewaysOK
  <1> QED
    BY <1>1, PutOK, FollowsSelf, Zenon DEF Promote, HasConfig

\* Promoting the families fs of a service.
LEMMA PromoteAllOK ==
    ASSUME NEW x, GatewaysOK(x), NEW s \in Services, NEW fs
    PROVE  Follows(x, PromoteAll(x, s, fs), {})
  <1> DEFINE y == IF "ipv4" \in fs THEN Promote(x, s, "ipv4") ELSE x
  <1>1. Follows(x, y, {})
    BY PromoteOK, FollowsSelf
  <1>2. PromoteAll(x, s, fs) = IF "ipv6" \in fs THEN Promote(y, s, "ipv6") ELSE y
    BY DEF PromoteAll, PromoteIn
  <1> HIDE DEF y
  <1>3. GatewaysOK(y)
    BY <1>1 DEF Follows
  <1>4. Follows(y, PromoteAll(x, s, fs), {})
    BY <1>2, <1>3, PromoteOK, FollowsSelf
  <1> QED
    BY <1>1, <1>4, FollowsTrans

\* Promoting the default service, if there is one.
LEMMA PromoteDefaultOK ==
    ASSUME NEW x, GatewaysOK(x), NEW fs, NEW l, NEW conn \in SUBSET Services
    PROVE  Follows(x, PromoteDefault(x, fs, l, conn), {})
  BY PromoteAllOK, FollowsSelf DEF PromoteDefault

\* check_default_gateway(): whoever yields, the sentinel is the only other thing
\* that changes.
LEMMA CheckDefaultOK ==
    ASSUME NEW x, GatewaysOK(x), NEW a \in Services, NEW l, NEW iter
    PROVE  Follows(x, check_default_gateway(x, a, l, iter), {})
  <1> DEFINE y == DemoteEach(x, Yielding(x, a, l, iter))
             z == IF YieldsToAny(x, a, l, iter) THEN y ELSE PromoteAll(y, a, Families)
  <1>1. check_default_gateway(x, a, l, iter) =
            IF x.default_checked[a] THEN x ELSE [z EXCEPT !.default_checked[a] = TRUE]
    BY DEF check_default_gateway
  <1>2. Follows(x, y, {})
    BY DemoteEachOK
  <1>3. Follows(x, z, {})
    BY <1>2, PromoteAllOK, FollowsTrans DEF Follows
  <1> HIDE DEF z
  <1>4. Follows(x, [z EXCEPT !.default_checked[a] = TRUE], {})
    BY <1>3, Zenon DEF Follows, GatewaysOK
  <1> QED
    BY <1>1, <1>4, FollowsSelf

\* gateway_rtnl_new(): an acknowledgement, whichever it is.
LEMMA RtnlNewOK ==
    ASSUME NEW x, GatewaysOK(x), NEW e, NEW l, NEW iter
    PROVE  Follows(x, gateway_rtnl_new(x, e, l, iter), {})
  <1>1. CASE Matches(x, e) /\ x.cell[<<e.s, e.f>>].state \in {"ADDED", "ACTIVE"}
    <2> DEFINE c == [x.cell[<<e.s, e.f>>] EXCEPT !.state = "ACTIVE"]
               y == [x EXCEPT !.cell[<<e.s, e.f>>] = c]
    <2>1. e.s \in Services /\ e.f \in Families
      BY <1>1 DEF Matches
    <2>2. Follows(x, y, {})
      <3>1. CellOK(c, e.s, e.f, x.up)
        <4>1. CellOK(x.cell[<<e.s, e.f>>], e.s, e.f, x.up)
          BY <2>1, Zenon DEF GatewaysOK
        <4> QED
          BY <1>1, <4>1, AcknowledgedOK, Zenon DEF Down
      <3>2. x.cell[<<e.s, e.f>>].state # "NULL"
        BY <1>1
      <3> HIDE DEF c
      <3>3. y = [x EXCEPT !.cell[<<e.s, e.f>>] = c]
        OBVIOUS
      <3> HIDE DEF y
      <3> QED
        BY <2>1, <3>1, <3>2, <3>3, StoreOK, Zenon
    <2>3. gateway_rtnl_new(x, e, l, iter) = check_default_gateway(y, e.s, l, iter)
      BY <1>1 DEF gateway_rtnl_new
    <2> HIDE DEF y
    <2>4. Follows(y, check_default_gateway(y, e.s, l, iter), {})
      BY <2>1, <2>2, CheckDefaultOK DEF Follows
    <2> QED
      BY <2>2, <2>3, <2>4, FollowsTrans
  <1>2. CASE ~(Matches(x, e) /\ x.cell[<<e.s, e.f>>].state \in {"ADDED", "ACTIVE"})
    BY <1>2, FollowsSelf DEF gateway_rtnl_new
  <1> QED
    BY <1>1, <1>2

\* gateway_rtnl_del(): the removal of a route, whichever it is.
LEMMA RtnlDelOK ==
    ASSUME NEW x, GatewaysOK(x), NEW e, NEW l, NEW conn \in SUBSET Services
    PROVE  Follows(x, gateway_rtnl_del(x, e, l, conn), {})
  <1>1. CASE ~Matches(x, e)
    BY <1>1, PromoteDefaultOK DEF gateway_rtnl_del
  <1>2. CASE Matches(x, e) /\ x.cell[<<e.s, e.f>>].state # "REMOVED"
    BY <1>2, FollowsSelf DEF gateway_rtnl_del
  <1>3. CASE Matches(x, e) /\ x.cell[<<e.s, e.f>>].state = "REMOVED"
    <2> DEFINE c == [x.cell[<<e.s, e.f>>] EXCEPT !.state = "INACTIVE"]
               y == [x EXCEPT !.cell[<<e.s, e.f>>] = c]
    <2>1. e.s \in Services /\ e.f \in Families
      BY <1>3 DEF Matches
    <2>2. Follows(x, y, {})
      <3>1. CellOK(c, e.s, e.f, x.up)
        <4>1. CellOK(x.cell[<<e.s, e.f>>], e.s, e.f, x.up)
          BY <2>1, Zenon DEF GatewaysOK
        <4> QED
          BY <1>3, <4>1, AcknowledgedOK, Zenon DEF Gone, Down
      <3>2. x.cell[<<e.s, e.f>>].state # "NULL"
        BY <1>3
      <3> HIDE DEF c
      <3>3. y = [x EXCEPT !.cell[<<e.s, e.f>>] = c]
        OBVIOUS
      <3> HIDE DEF y
      <3> QED
        BY <2>1, <3>1, <3>2, <3>3, StoreOK, Zenon
    <2>3. gateway_rtnl_del(x, e, l, conn) = PromoteDefault(y, Families, l, conn)
      BY <1>3 DEF gateway_rtnl_del
    <2> HIDE DEF y
    <2>4. Follows(y, PromoteDefault(y, Families, l, conn), {})
      BY <2>2, PromoteDefaultOK DEF Follows
    <2> QED
      BY <2>2, <2>3, <2>4, FollowsTrans
  <1> QED
    BY <1>1, <1>2, <1>3

-----------------------------------------------------------------------------
\* y comes from x by unsetting the route of type t of family f of s, if f is in fs
\* and configured.
Unsets(x, y, s, f, fs, t) ==
    \A h \in Families :
        y.cell[<<s, h>>] =
            IF h = f /\ f \in fs /\ x.cell[<<s, f>>].state # "NULL"
            THEN unset_default_gateway_route_common(x.cell[<<s, f>>], t).cell
            ELSE x.cell[<<s, h>>]

\* The result of unsetting is stored.
LEMMA PutUnsets ==
    ASSUME NEW x, GatewaysOK(x), NEW s \in Services, NEW f \in Families, NEW fs, f \in fs,
           HasConfig(x, s, f), NEW t
    PROVE  Unsets(x, Put(x, s, f, unset_default_gateway_route_common(x.cell[<<s, f>>], t)),
                  s, f, fs, t)
  <1> DEFINE u == unset_default_gateway_route_common(x.cell[<<s, f>>], t)
  <1>1. \A h \in Families : Put(x, s, f, u).cell[<<s, h>>]
                               = IF h = f THEN u.cell ELSE x.cell[<<s, h>>]
    <2> HIDE DEF u
    <2> QED
      BY DEF GatewaysOK, Put
  <1> QED
    BY <1>1 DEF Unsets, HasConfig

\* What does nothing unsets nothing.
LEMMA NoUnsets ==
    ASSUME NEW x, NEW s, NEW f, NEW fs, f \notin fs \/ ~HasConfig(x, s, f), NEW t
    PROVE  Unsets(x, x, s, f, fs, t)
  BY DEF Unsets, HasConfig

\* Unsetting the high-priority route of a family.
LEMMA UnsetHighOK ==
    ASSUME NEW r, GatewaysOK(r.g), NEW s \in Services, NEW f \in Families, NEW fs
    PROVE  /\ Follows(r.g, UnsetHigh(r, s, f, fs).g, {})
           /\ Unsets(r.g, UnsetHigh(r, s, f, fs).g, s, f, fs, "HIGH")
  <1> DEFINE u == unset_default_gateway_route_common(r.g.cell[<<s, f>>], "HIGH")
  <1>1. CellOK(u.cell, s, f, r.g.up)
    BY UnsetCommonOK, Zenon DEF GatewaysOK
  <1>2. UnsetHigh(r, s, f, fs).g = IF f \in fs /\ HasConfig(r.g, s, f)
                                   THEN Put(r.g, s, f, u) ELSE r.g
    BY DEF UnsetHigh, Store
  <1>3. f \in fs /\ HasConfig(r.g, s, f) => Unsets(r.g, Put(r.g, s, f, u), s, f, fs, "HIGH")
    BY PutUnsets, Zenon
  <1> HIDE DEF u
  <1> QED
    BY <1>1, <1>2, <1>3, PutOK, FollowsSelf, NoUnsets, Zenon DEF HasConfig

\* Unsetting the low-priority route.
LEMMA UnsetLowInOK ==
    ASSUME NEW r, GatewaysOK(r.g), NEW s \in Services, NEW fs
    PROVE  /\ Follows(r.g, UnsetLowIn(r, s, fs).g, {})
           /\ Unsets(r.g, UnsetLowIn(r, s, fs).g, s, "ipv4", fs, "LOW")
  <1> DEFINE u == unset_default_gateway_route_common(r.g.cell[<<s, "ipv4">>], "LOW")
  <1>1. CellOK(u.cell, s, "ipv4", r.g.up)
    BY UnsetCommonOK, Zenon DEF GatewaysOK
  <1>2. UnsetLowIn(r, s, fs).g = IF "ipv4" \in fs /\ HasConfig(r.g, s, "ipv4")
                                 THEN Put(r.g, s, "ipv4", u) ELSE r.g
    BY DEF UnsetLowIn, UnsetLow
  <1>3. "ipv4" \in fs /\ HasConfig(r.g, s, "ipv4") =>
           Unsets(r.g, Put(r.g, s, "ipv4", u), s, "ipv4", fs, "LOW")
    BY PutUnsets, Zenon
  <1> HIDE DEF u
  <1> QED
    BY <1>1, <1>2, <1>3, PutOK, FollowsSelf, NoUnsets, Zenon DEF HasConfig

\* One of the two halves of del_gateway_routes().  It leaves no route of a
\* service that is not a VPN and has the configuration it looks for.
LEMMA DelRoutesOfOK ==
    ASSUME NEW r, GatewaysOK(r.g), NEW s \in Services, NEW f, NEW fs
    PROVE  LET d == DelRoutesOf(r, s, f, fs)
           IN  /\ Follows(r.g, d.g, {})
               /\ \A h \in Families : Gone(r.g.cell[<<s, h>>], s) => Gone(d.g.cell[<<s, h>>], s)
               /\ f \in fs /\ HasConfig(r.g, s, f) =>
                     \A h \in Families \intersect fs : Gone(d.g.cell[<<s, h>>], s)
  <1> DEFINE y == UnsetHigh(r, s, "ipv4", fs)
             z == UnsetHigh(y, s, "ipv6", fs)
             w == UnsetLowIn(z, s, fs)
  <1>1. Follows(r.g, y.g, {}) /\ GatewaysOK(y.g) /\ Unsets(r.g, y.g, s, "ipv4", fs, "HIGH")
    BY UnsetHighOK DEF Follows
  <1>2. Follows(y.g, z.g, {}) /\ GatewaysOK(z.g) /\ Unsets(y.g, z.g, s, "ipv6", fs, "HIGH")
    BY <1>1, UnsetHighOK DEF Follows
  <1>3. Follows(z.g, w.g, {}) /\ Unsets(z.g, w.g, s, "ipv4", fs, "LOW")
    BY <1>2, UnsetLowInOK
  <1>4. DelRoutesOf(r, s, f, fs) = IF f \notin fs \/ ~HasConfig(r.g, s, f) \/ s \in Vpn
                                   THEN r ELSE w
    BY DEF DelRoutesOf
  <1> HIDE DEF y, z, w
  <1>5. Follows(r.g, DelRoutesOf(r, s, f, fs).g, {})
    BY <1>1, <1>2, <1>3, <1>4, FollowsTrans, FollowsSelf
  <1>6. ASSUME NEW h \in Families
        PROVE  /\ Down(r.g.cell[<<s, h>>]) => Down(w.g.cell[<<s, h>>])
               /\ h \in fs => Gone(w.g.cell[<<s, h>>], s)
    <2> DEFINE c == r.g.cell[<<s, h>>]
               u == unset_default_gateway_route_common(c, "HIGH").cell
               v == unset_default_gateway_route_common(u, "LOW").cell
    <2>1. CellOK(c, s, h, r.g.up)
      BY Zenon DEF GatewaysOK
    <2>2. /\ CellOK(u, s, h, r.g.up) /\ (c.state # "NULL" => u.state # "NULL")
          /\ (Down(c) => Down(u))
      BY <2>1, UnsetCommonOK, Zenon
    <2>3. Down(v) /\ (h = "ipv6" => Gone(u, s))
      BY <2>1, UnsetBoth
    <2>4. w.g.cell[<<s, h>>] = IF h \in fs /\ c.state # "NULL"
                               THEN IF h = "ipv4" THEN v ELSE u
                               ELSE c
      <3>1. CASE h = "ipv4"
        BY <1>1, <1>2, <1>3, <2>2, <3>1 DEF Unsets
      <3>2. CASE h = "ipv6"
        BY <1>1, <1>2, <1>3, <3>2 DEF Unsets
      <3> QED
        BY <3>1, <3>2
    <2> HIDE DEF c, u, v
    <2>5. c.state = "NULL" => Down(c)
      BY DEF Down
    <2> QED
      BY <2>2, <2>3, <2>4, <2>5 DEF Gone, c
  <1>7. s \in Vpn => \A d : Gone(d, s)
    BY DEF Gone
  <1> QED
    BY <1>4, <1>5, <1>6, <1>7 DEF Gone

\* What del_gateway_routes_if_active() takes down: everything, or one family whose
\* route is not waiting to be acknowledged.
Whole(x, s, fs) ==
    Orderly => fs = Families \/ \E f \in Families : fs = {f} /\ x.cell[<<s, f>>].state # "ADDED"

\* del_gateway_routes_if_active(), for one family or for all.
LEMMA DelRoutesOK ==
    ASSUME NEW x, GatewaysOK(x), NEW s \in Services, NEW fs, Whole(x, s, fs)
    PROVE  LET d == del_gateway_routes_if_active(x, s, fs).g
           IN  /\ Follows(x, d, {})
               /\ \A h \in Families : Gone(x.cell[<<s, h>>], s) => Gone(d.cell[<<s, h>>], s)
               /\ \A h \in Families \intersect fs : Gone(d.cell[<<s, h>>], s)
  <1> DEFINE r == [g |-> x, ok |-> TRUE]
             y == DelRoutesOf(r, s, "ipv4", fs)
  <1>1. r.g = x
    OBVIOUS
  <1>2. del_gateway_routes(x, s, fs) = DelRoutesOf(y, s, "ipv6", fs)
    BY DEF del_gateway_routes
  <1> HIDE DEF r
  <1> DEFINE z == DelRoutesOf(y, s, "ipv6", fs)
  <1>3. /\ Follows(x, y.g, {})
        /\ \A h \in Families : Gone(x.cell[<<s, h>>], s) => Gone(y.g.cell[<<s, h>>], s)
        /\ "ipv4" \in fs /\ HasConfig(x, s, "ipv4") =>
              \A h \in Families \intersect fs : Gone(y.g.cell[<<s, h>>], s)
    BY <1>1, DelRoutesOfOK
  <1> HIDE DEF y
  <1>4. GatewaysOK(y.g)
    BY <1>3 DEF Follows
  <1>5. /\ Follows(y.g, z.g, {})
        /\ \A h \in Families : Gone(y.g.cell[<<s, h>>], s) => Gone(z.g.cell[<<s, h>>], s)
        /\ "ipv6" \in fs /\ HasConfig(y.g, s, "ipv6") =>
              \A h \in Families \intersect fs : Gone(z.g.cell[<<s, h>>], s)
    BY <1>4, DelRoutesOfOK
  <1> HIDE DEF z
  <1>6. Follows(x, z.g, {})
    BY <1>3, <1>5, FollowsTrans
  <1>7. \A h \in Families \intersect fs : Gone(z.g.cell[<<s, h>>], s)
    <2>1. \A q \in Families : ~HasConfig(x, s, q) => Gone(x.cell[<<s, q>>], s)
      BY DEF HasConfig, Gone, Down
    <2>2. \A q \in Families : ~HasConfig(y.g, s, q) => Gone(y.g.cell[<<s, q>>], s)
      BY DEF HasConfig, Gone, Down
    <2> QED
      BY <1>3, <1>5, <2>1, <2>2
  <1>8. del_gateway_routes_if_active(x, s, fs) =
           IF fs = Families \/ \E f \in fs : x.cell[<<s, f>>].state = "ACTIVE" THEN z ELSE r
    BY <1>2 DEF del_gateway_routes_if_active, r, z
  <1>9. ~(fs = Families \/ \E f \in fs : x.cell[<<s, f>>].state = "ACTIVE") =>
           \A h \in Families \intersect fs : Gone(x.cell[<<s, h>>], s)
    BY DEF Whole, Gone, Down
  <1> QED
    BY <1>1, <1>3, <1>5, <1>6, <1>7, <1>8, <1>9, FollowsSelf

\* add_gateway() gives a configuration to its service only.
LEMMA AddGatewayOK ==
    ASSUME NEW x, GatewaysOK(x), NEW s \in Services, NEW f \in Families, Whole(x, s, {f})
    PROVE  Follows(x, add_gateway(x, s, f), {s})
  <1> DEFINE y == IF HasData(x, s) THEN del_gateway_routes_if_active(x, s, {f}).g ELSE x
             c == [y.cell[<<s, f>>] EXCEPT !.state = "INACTIVE", !.type = "NONE"]
  <1>1. Follows(x, y, {s}) /\ Gone(y.cell[<<s, f>>], s)
    <2>1. ~HasData(x, s) => Gone(x.cell[<<s, f>>], s)
      BY DEF HasData, HasConfig, Gone, Down
    <2> QED
      BY <2>1, DelRoutesOK, FollowsSelf, FollowsMore, Zenon
  <1>2. add_gateway(x, s, f) = [y EXCEPT !.cell[<<s, f>>] = c, !.default_checked[s] = FALSE]
    BY DEF add_gateway
  <1> HIDE DEF y
  <1>3. CellOK(c, s, f, y.up)
    <2>1. CellOK(y.cell[<<s, f>>], s, f, y.up)
      BY <1>1, Zenon DEF Follows, GatewaysOK
    <2> QED
      BY <1>1, <2>1, AcknowledgedOK, Zenon
  <1> HIDE DEF c
  <1>4. PICK z : z = [y EXCEPT !.cell[<<s, f>>] = c]
    BY Zenon
  <1>5. Follows(y, z, {s})
    <2>1. GatewaysOK(y)
      BY <1>1 DEF Follows
    <2> QED
      BY <1>3, <1>4, <2>1, StoreOK, Zenon
  <1>6. add_gateway(x, s, f) = [z EXCEPT !.default_checked[s] = FALSE]
    BY <1>2, <1>4
  <1>7. Follows(z, [z EXCEPT !.default_checked[s] = FALSE], {s})
    BY <1>5, Zenon DEF Follows, GatewaysOK
  <1> QED
    BY <1>1, <1>5, <1>6, <1>7, FollowsTrans

\* Clearing a route for a VPN takes it from the kernel's table alone.
LEMMA ClearRouteOK ==
    ASSUME NEW x, GatewaysOK(x), NEW s, NEW f \in Families, ~OnlySplit
    PROVE  Follows(x, ClearRoute(x, s, f), {})
  <1>1. PICK lost, more :
            ClearRoute(x, s, f) = [x EXCEPT !.cell[<<s, f>>].kernel = @ \ lost,
                                            !.events = @ \o more]
    BY DEF ClearRoute
  <1>2. ASSUME NEW z, Follows(x, z, {}), NEW e
        PROVE  Follows(x, [z EXCEPT !.events = e], {})
    BY <1>2, ZenonT(30) DEF GatewaysOK, Follows
  <1>3. CASE s \in Services
    <2> DEFINE c == [x.cell[<<s, f>>] EXCEPT !.kernel = @ \ lost]
               z == [x EXCEPT !.cell[<<s, f>>] = c]
    <2>1. CellOK(c, s, f, x.up) /\ c.state = x.cell[<<s, f>>].state
      <3>1. CellOK(x.cell[<<s, f>>], s, f, x.up)
        BY <1>3, Zenon DEF GatewaysOK
      <3> QED
        BY <3>1 DEF CellOK, Tight, Down, Cells
    <2>2. ClearRoute(x, s, f) = [z EXCEPT !.events = x.events \o more]
      BY <1>1
    <2> HIDE DEF c
    <2>3. Follows(x, z, {s})
      BY <1>3, <2>1, StoreOK
    <2>4. \A h \in Families : x.cell[<<s, h>>].state = "NULL" => z.cell[<<s, h>>].state = "NULL"
      <3>1. /\ x.cell \in [Services \X Families -> Cells]
            /\ z.cell = [x.cell EXCEPT ![<<s, f>>] = c]
        BY Zenon DEF GatewaysOK
      <3> HIDE DEF z
      <3> QED
        BY <1>3, <2>1, <3>1
    <2> HIDE DEF z
    <2>5. Follows(x, z, {})
      BY <2>3, <2>4 DEF Follows
    <2>6. Follows(x, [z EXCEPT !.events = x.events \o more], {})
      BY <1>2, <2>5, Zenon
    <2> QED
      BY <2>2, <2>6, Zenon
  <1>4. CASE s \notin Services
    <2>1. [x.cell EXCEPT ![<<s, f>>].kernel = @ \ lost] = x.cell
      BY <1>4 DEF GatewaysOK
    <2>2. [x EXCEPT !.cell = x.cell] = x
      BY DEF GatewaysOK
    <2>3. ClearRoute(x, s, f)
              = [[x EXCEPT !.cell = [x.cell EXCEPT ![<<s, f>>].kernel = @ \ lost]]
                 EXCEPT !.events = x.events \o more]
      BY <1>1
    <2>4. ClearRoute(x, s, f) = [x EXCEPT !.events = x.events \o more]
      BY <2>1, <2>2, <2>3, Zenon
    <2> QED
      BY <1>2, <2>4, FollowsSelf
  <1> QED
    BY <1>3, <1>4

\* __connman_gateway_add() gives a configuration to its service only.
LEMMA GatewayAddOK ==
    ASSUME NEW x, GatewaysOK(x), NEW s \in Services, NEW f \in Families, Whole(x, s, {f}),
           NEW l, NEW conn, NEW iter
    PROVE  Follows(x, __connman_gateway_add(x, s, f, l, conn, iter), {s})
  <1> DEFINE y == add_gateway(x, s, f)
  <1>1. Follows(x, y, {s})
    BY AddGatewayOK
  <1>2. /\ CellOK(set_default_gateway_route_common(
                      y.cell[<<s, f>>], "HIGH", s, Refused(y, s, f)).cell, s, f, y.up)
        /\ CellOK(SetLow(y.cell[<<s, f>>], s, f, Refused(y, s, f)).cell, s, f, y.up)
    BY <1>1, SetCommonOK, SetLowOK, Zenon DEF Follows, GatewaysOK
  <1>3. \/ __connman_gateway_add(x, s, f, l, conn, iter)
                \in {y, SetDefault(y, s, f), SetLowDefault(y, s, f)}
        \/ ~OnlySplit /\ \E r : __connman_gateway_add(x, s, f, l, conn, iter) = ClearRoute(y, r, f)
    BY DEF __connman_gateway_add, AddRoute, OnlySplit
  <1> HIDE DEF y
  <1>4. Follows(y, SetDefault(y, s, f), {s}) /\ Follows(y, SetLowDefault(y, s, f), {s})
    <2>1. GatewaysOK(y)
      BY <1>1 DEF Follows
    <2> QED
      BY <1>2, <2>1, PutOK, Zenon DEF SetDefault, SetLowDefault
  <1>5. ~OnlySplit => \A r : Follows(y, ClearRoute(y, r, f), {s})
    BY <1>1, ClearRouteOK, FollowsMore DEF Follows
  <1> QED
    BY <1>1, <1>3, <1>4, <1>5, FollowsTrans

\* A forgotten service has no configuration, and the others keep theirs.
LEMMA ForgetOK ==
    ASSUME NEW x, GatewaysOK(x), NEW s \in Services,
           \A f \in Families : Gone(x.cell[<<s, f>>], s)
    PROVE  /\ Follows(x, Forget(x, s), {})
           /\ \A f \in Families : Forget(x, s).cell[<<s, f>>].state = "NULL"
  <1> DEFINE c(p) == IF p[1] = s THEN [x.cell[p] EXCEPT !.state = "NULL", !.type = "NONE"]
                     ELSE x.cell[p]
             cells == [p \in Services \X Families |-> c(p)]
  <1>1. ASSUME NEW t \in Services, NEW f \in Families
        PROVE  /\ CellOK(c(<<t, f>>), t, f, x.up)
               /\ t = s => c(<<t, f>>).state = "NULL"
               /\ x.cell[<<t, f>>].state = "NULL" => c(<<t, f>>).state = "NULL"
    <2>1. CellOK(x.cell[<<t, f>>], t, f, x.up)
      BY Zenon DEF GatewaysOK
    <2>2. t = s => c(<<t, f>>).state = "NULL"
      BY <2>1 DEF CellOK, Cells
    <2> QED
      BY <2>1, <2>2, AcknowledgedOK, Zenon
  <1>2. Forget(x, s) = [x EXCEPT !.cell = cells]
    BY DEF Forget
  <1> HIDE DEF c
  <1>3. ASSUME NEW p \in Services \X Families
        PROVE  c(p) \in Cells
    <2>1. PICK t \in Services, f \in Families : p = <<t, f>>
      OBVIOUS
    <2> QED
      BY <1>1, <2>1, Zenon DEF CellOK
  <1>4. cells \in [Services \X Families -> Cells]
    BY <1>3
  <1>5. \A t \in Services, f \in Families :
            /\ CellOK(cells[<<t, f>>], t, f, x.up)
            /\ t = s => cells[<<t, f>>].state = "NULL"
            /\ x.cell[<<t, f>>].state = "NULL" => cells[<<t, f>>].state = "NULL"
    BY <1>1, Zenon
  <1> HIDE DEF cells
  <1>6. GatewaysOK(Forget(x, s)) /\ Forget(x, s).up = x.up /\ Forget(x, s).cell = cells
    <2> DEFINE y == [x EXCEPT !.cell = cells]
    <2>1. \A t \in Services, f \in Families : CellOK(cells[<<t, f>>], t, f, x.up)
      BY <1>5, Zenon
    <2>2. GatewaysOK(y) /\ y.up = x.up /\ y.cell = cells
      BY <1>4, <2>1 DEF GatewaysOK
    <2> QED
      BY <1>2, <2>2
  <1> QED
    BY <1>5, <1>6 DEF Follows

\* What __connman_gateway_remove() makes of a service with a configuration.
LEMMA Removal ==
    ASSUME NEW x, NEW s, HasData(x, s), NEW fs, NEW l, NEW conn
    PROVE  \E z \in {del_gateway_routes_if_active(x, s, fs).g,
                     Forget(del_gateway_routes_if_active(x, s, fs).g, s)} :
              /\ __connman_gateway_remove(x, s, fs, l, conn)
                   \in {z, PromoteDefault(z, fs, l, conn)}
              /\ fs = Families => z = Forget(del_gateway_routes_if_active(x, s, fs).g, s)
              /\ \/ z = del_gateway_routes_if_active(x, s, fs).g
                 \/ \A f \in Families \ fs : ~HasConfig(x, s, f)
  <1> DEFINE r == del_gateway_routes_if_active(x, s, fs)
             all == fs = Families \/ \A f \in Families \ fs : ~HasConfig(x, s, f)
             z == IF all THEN Forget(r.g, s) ELSE r.g
             is_vpn == s \in Vpn /\ \E f \in fs : HasConfig(x, s, f)
  <1>1. __connman_gateway_remove(x, s, fs, l, conn)
            = AfterRemoval(Drop(r, s, all), is_vpn, fs, l, conn)
    BY Zenon DEF __connman_gateway_remove
  <1> HIDE DEF r
  <1>3. Drop(r, s, all).g = z
    BY DEF Drop
  <1> HIDE DEF all, is_vpn
  <1>4. __connman_gateway_remove(x, s, fs, l, conn) \in {z, PromoteDefault(z, fs, l, conn)}
    BY <1>1, <1>3, Zenon DEF AfterRemoval
  <1>5. /\ z \in {r.g, Forget(r.g, s)} /\ (fs = Families => z = Forget(r.g, s))
        /\ z = r.g \/ \A f \in Families \ fs : ~HasConfig(x, s, f)
    BY DEF all
  <1> HIDE DEF z
  <1> QED
    BY <1>4, <1>5, Zenon DEF r

\* __connman_gateway_remove(): a service whose families are all removed has no
\* configuration left.
LEMMA GatewayRemoveOK ==
    ASSUME NEW x, GatewaysOK(x), NEW s \in Services, NEW fs, Whole(x, s, fs),
           NEW l, NEW conn \in SUBSET Services
    PROVE  LET y == __connman_gateway_remove(x, s, fs, l, conn)
           IN  /\ Follows(x, y, {})
               /\ fs = Families => \A f \in Families : y.cell[<<s, f>>].state = "NULL"
  <1> DEFINE r == del_gateway_routes_if_active(x, s, fs).g
             y == __connman_gateway_remove(x, s, fs, l, conn)
  <1>1. /\ Follows(x, r, {}) /\ GatewaysOK(r)
        /\ \A h \in Families : Gone(x.cell[<<s, h>>], s) => Gone(r.cell[<<s, h>>], s)
        /\ \A h \in Families \intersect fs : Gone(r.cell[<<s, h>>], s)
    BY DelRoutesOK DEF Follows
  <1>2. CASE ~HasData(x, s)
    BY <1>2, FollowsSelf, Zenon DEF __connman_gateway_remove, HasData, HasConfig
  <1>3. CASE HasData(x, s)
    <2>1. PICK z \in {r, Forget(r, s)} :
              /\ y \in {z, PromoteDefault(z, fs, l, conn)}
              /\ fs = Families => z = Forget(r, s)
              /\ z = r \/ \A f \in Families \ fs : ~HasConfig(x, s, f)
      BY <1>3, Removal
    <2> HIDE DEF r, y
    <2>2. \A h \in Families : ~HasConfig(x, s, h) => Gone(x.cell[<<s, h>>], s)
      BY DEF HasConfig, Gone, Down
    <2>3. z # r => z = Forget(r, s) /\ Follows(r, Forget(r, s), {})
      <3>1. z # r => \A f \in Families : Gone(r.cell[<<s, f>>], s)
        BY <1>1, <2>1, <2>2
      <3> QED
        BY <1>1, <2>1, <3>1, ForgetOK
    <2>9. Follows(r, z, {}) /\ GatewaysOK(z)
      BY <1>1, <2>3, FollowsSelf DEF Follows
    <2>4. Follows(z, y, {})
      BY <2>1, <2>9, PromoteDefaultOK, FollowsSelf
    <2>5. Follows(x, y, {})
      BY <1>1, <2>9, <2>4, FollowsTrans
    <2>6. ASSUME fs = Families
          PROVE  \A f \in Families : y.cell[<<s, f>>].state = "NULL"
      <3>1. fs = Families => \A f \in Families : Gone(r.cell[<<s, f>>], s)
        BY <1>1
      <3>2. \A f \in Families : z.cell[<<s, f>>].state = "NULL"
        BY <1>1, <2>1, <2>6, <3>1, ForgetOK
      <3> QED
        BY <2>4, <3>2 DEF Follows
    <2> QED
      BY <2>5, <2>6 DEF y
  <1> QED
    BY <1>2, <1>3

\* __connman_gateway_update(), whatever the order of the walk.
LEMMA GatewayUpdateOK ==
    ASSUME NEW x, GatewaysOK(x), NEW l, NEW conn \in SUBSET Services, NEW iter
    PROVE  Follows(x, __connman_gateway_update(x, l, conn, iter), {})
  <1>1. PICK seq, fs : __connman_gateway_update(x, l, conn, iter)
                         = PromoteDefault(DemoteEach(x, seq), fs, l, conn)
    BY Zenon DEF __connman_gateway_update, UpdateEach, PromoteUpdated
  <1>2. Follows(x, DemoteEach(x, seq), {})
    BY DemoteEachOK
  <1>3. Follows(DemoteEach(x, seq), PromoteDefault(DemoteEach(x, seq), fs, l, conn), {})
    BY <1>2, PromoteDefaultOK DEF Follows
  <1> QED
    BY <1>1, <1>2, <1>3, FollowsTrans

-----------------------------------------------------------------------------
(***************************************************************************)
(* The invariant of the system.  A service that is not connected has no    *)
(* configuration; without that, an interface that comes back up would make *)
(* an old record claim a route that the kernel purged.                     *)
(***************************************************************************)
Inv ==
    /\ GatewaysOK(g)
    /\ connected \in SUBSET Services
    /\ list \in Orders(connected)
    /\ \A s \in Services \ connected, f \in Families : g.cell[<<s, f>>].state = "NULL"
    /\ around \in Surroundings

\* What the invariant is for.
LEMMA InvImplies ==
    Inv => TypeOK /\ (OnlySplit => AgreesWithKernel) /\ (Orderly => NoOrphanRoute)
  BY DEF Inv, GatewaysOK, CellOK, Tight, Down, TypeOK, AgreesWithKernel, NoOrphanRoute

\* The empty hash table satisfies the invariant.
LEMMA InitInv == Init => Inv
  <1> SUFFICES ASSUME Init PROVE Inv
    OBVIOUS
  <1>1. GatewaysOK(g)
    BY Zenon DEF Init, GatewaysOK, CellOK, Tight, Down, Cells, NoCell
  <1> QED
    BY <1>1 DEF Init, Inv, NoCell

\* A step that follows the present gateways keeps the invariant when the
\* services it may configure are connected.
LEMMA FollowsInv ==
    ASSUME Inv, NEW new, Follows(g, g', new), connected' \in SUBSET Services,
           list' \in Orders(connected'), connected \union new \subseteq connected',
           around' = around
    PROVE  Inv'
  BY DEF Inv, Follows

\* A new gateway, and the update that comes with the ready state.
LEMMA ReadyStep ==
    ASSUME Inv, NEW s \in Services, NEW f \in Families, ServiceReady(s, f)
    PROVE  Inv'
  <1>i. PICK iter \in HashOrders :
            LET g1 == __connman_gateway_add(g, s, f, list, connected, iter)
            IN  IF s \in connected
                THEN g' = g1 /\ UNCHANGED <<list, connected>>
                ELSE /\ connected' = connected \union {s}
                     /\ list' \in Orders(connected')
                     /\ g' = __connman_gateway_update(g1, list', connected', iter)
    BY Zenon DEF ServiceReady
  <1> DEFINE x == __connman_gateway_add(g, s, f, list, connected, iter)
  <1>0. Whole(g, s, {f}) /\ around' = around
    <2>1. Orderly => "early replace" \notin around.disturbances
      BY Zenon DEF Orderly, Inv
    <2>2. Orderly => g.cell[<<s, f>>].state # "ADDED"
      BY <2>1, Zenon DEF ServiceReady
    <2>3. around' = around
      BY Zenon DEF ServiceReady, Change
    <2> QED
      BY <2>2, <2>3 DEF Whole
  <1>1. Follows(g, x, {s}) /\ GatewaysOK(x)
    <2>1. GatewaysOK(g)
      BY DEF Inv
    <2>2. Follows(g, x, {s})
      BY <1>0, <2>1, GatewayAddOK
    <2> HIDE DEF x
    <2> QED
      BY <2>2 DEF Follows
  <1>2. CASE s \in connected
    <2>1. g' = x /\ UNCHANGED <<list, connected>>
      BY <1>2, <1>i, Zenon
    <2> HIDE DEF x
    <2> QED
      BY <1>0, <1>1, <1>2, <2>1, FollowsInv DEF Inv
  <1>3. CASE s \notin connected
    <2>1. /\ connected' = connected \union {s}
          /\ list' \in Orders(connected')
          /\ g' = __connman_gateway_update(x, list', connected', iter)
      BY <1>3, <1>i, Zenon
    <2> HIDE DEF x
    <2>2. connected' \in SUBSET Services
      BY <2>1 DEF Inv
    <2>3. Follows(x, g', {s})
      BY <1>1, <2>1, <2>2, GatewayUpdateOK, FollowsMore
    <2> QED
      BY <1>0, <1>1, <2>1, <2>2, <2>3, FollowsTrans, FollowsInv
  <1> QED
    BY <1>2, <1>3

\* The service loses its configurations between two updates.
LEMMA DisconnectStep ==
    ASSUME Inv, NEW s \in Services, ServiceDisconnect(s)
    PROVE  Inv'
  <1>1. PICK iter \in HashOrders :
            LET g1 == __connman_gateway_update(g, list', connected', iter)
                g2 == __connman_gateway_remove(g1, s, Families, list', connected')
            IN  g' = __connman_gateway_update(g2, list', connected', iter)
    BY DEF ServiceDisconnect
  <1> DEFINE g1 == __connman_gateway_update(g, list', connected', iter)
             g2 == __connman_gateway_remove(g1, s, Families, list', connected')
  <1>2. connected' = connected \ {s} /\ connected' \in SUBSET Services
        /\ list' \in Orders(connected') /\ around' = around
    BY DEF ServiceDisconnect, Change, Inv
  <1>3. Follows(g, g1, {})
    BY <1>2, GatewayUpdateOK DEF Inv
  <1>4. GatewaysOK(g1)
    BY <1>3 DEF Follows
  <1>5. g' = __connman_gateway_update(g2, list', connected', iter)
    BY <1>1
  <1> HIDE DEF g1
  <1>6. Follows(g1, g2, {}) /\ \A f \in Families : g2.cell[<<s, f>>].state = "NULL"
    <2>1. Whole(g1, s, Families)
      BY DEF Whole
    <2> QED
      BY <1>2, <1>4, <2>1, GatewayRemoveOK
  <1> HIDE DEF g2
  <1>7. Follows(g2, g', {})
    <2>1. GatewaysOK(g2)
      BY <1>6 DEF Follows
    <2> QED
      BY <1>2, <1>5, <2>1, GatewayUpdateOK
  <1>8. Follows(g, g', {})
    BY <1>3, <1>6, <1>7, FollowsTrans
  <1>9. \A f \in Families : g'.cell[<<s, f>>].state = "NULL"
    BY <1>6, <1>7 DEF Follows
  <1> QED
    BY <1>2, <1>8, <1>9 DEF Inv, Follows

\* The kernel purges the routes of an interface that goes down.
LEMMA LinkLostStep ==
    ASSUME Inv, NEW s \in Services, LinkLost(s)
    PROVE  Inv'
  <1> DEFINE c(p) == IF p[1] = s THEN [g.cell[p] EXCEPT !.kernel = {}] ELSE g.cell[p]
             cells == [p \in Services \X Families |-> c(p)]
  <1>1. ASSUME NEW t \in Services, NEW f \in Families
        PROVE  CellOK(c(<<t, f>>), t, f, g.up \ {s}) /\ c(<<t, f>>).state = g.cell[<<t, f>>].state
    <2>1. CellOK(g.cell[<<t, f>>], t, f, g.up)
      BY Zenon DEF Inv, GatewaysOK
    <2> QED
      BY <2>1 DEF CellOK, Tight, Down, Cells
  <1>2. g' = [g EXCEPT !.up = @ \ {s}, !.cell = cells] /\ UNCHANGED <<list, connected, around>>
    BY Zenon DEF LinkLost, Change
  <1> HIDE DEF c
  <1>3. ASSUME NEW p \in Services \X Families
        PROVE  c(p) \in Cells
    <2>1. PICK t \in Services, f \in Families : p = <<t, f>>
      OBVIOUS
    <2> QED
      BY <1>1, <2>1, Zenon DEF CellOK
  <1>4. cells \in [Services \X Families -> Cells]
    BY <1>3
  <1>5. \A t \in Services, f \in Families :
            CellOK(cells[<<t, f>>], t, f, g.up \ {s})
            /\ cells[<<t, f>>].state = g.cell[<<t, f>>].state
    BY <1>1, Zenon
  <1> HIDE DEF cells
  <1>6. GatewaysOK(g') /\ g'.cell = cells
    BY <1>2, <1>4, <1>5, Zenon DEF Inv, GatewaysOK
  <1> QED
    BY <1>2, <1>5, <1>6 DEF Inv

\* An interface comes back up: its service has no configuration yet.
LEMMA LinkBackStep ==
    ASSUME Inv, NEW s \in Services, LinkBack(s)
    PROVE  Inv'
  <1>1. s \notin connected /\ g' = [g EXCEPT !.up = @ \union {s}]
        /\ UNCHANGED <<list, connected, around>>
    BY DEF LinkBack, Change
  <1>2. \A f \in Families : g.cell[<<s, f>>].state = "NULL"
    BY <1>1, Zenon DEF Inv
  <1>3. \A t \in Services, f \in Families : CellOK(g.cell[<<t, f>>], t, f, g.up \union {s})
    BY <1>2, Zenon DEF Inv, GatewaysOK, CellOK
  <1>4. GatewaysOK(g') /\ g'.cell = g.cell
    BY <1>1, <1>3, Zenon DEF Inv, GatewaysOK
  <1> QED
    BY <1>1, <1>4 DEF Inv

\* An event is taken from the queue and handled.
LEMMA RtnlStep ==
    ASSUME Inv, RtnlEvent
    PROVE  Inv'
  <1> DEFINE x == [g EXCEPT !.events = Tail(@)]
  <1>1. Follows(g, x, {})
    BY Zenon DEF Inv, Follows, GatewaysOK
  <1>2. UNCHANGED <<list, connected, around>>
        /\ \E e : \/ \E iter \in HashOrders : g' = gateway_rtnl_new(x, e, list, iter)
                  \/ g' = gateway_rtnl_del(x, e, list, connected)
    BY DEF RtnlEvent
  <1> HIDE DEF x
  <1>3. GatewaysOK(x)
    BY <1>1 DEF Follows
  <1>4. Follows(x, g', {})
    BY <1>2, <1>3, RtnlNewOK, RtnlDelOK DEF Inv
  <1> QED
    BY <1>1, <1>2, <1>4, FollowsTrans, FollowsInv DEF Inv

\* Every step keeps the invariant.
LEMMA NextInv == Inv /\ [Next]_vars => Inv'
  <1> SUFFICES ASSUME Inv, [Next]_vars PROVE Inv'
    OBVIOUS
  <1>1. ASSUME NEW s \in Services, NEW f \in Families, GatewayGone(s, f)
        PROVE  Inv'
    <2>0. Whole(g, s, {f})
      BY <1>1, Zenon DEF GatewayGone, Whole, Orderly, Inv
    <2>1. Follows(g, g', {}) /\ UNCHANGED <<list, connected, around>>
      BY <1>1, <2>0, GatewayRemoveOK, Zenon DEF GatewayGone, Change, Inv
    <2> QED
      BY <2>1, FollowsInv DEF Inv
  <1>2. CASE Reorder
    <2>1. /\ Follows(g, g', {}) /\ list' \in Orders(connected) /\ connected' = connected
          /\ around' = around
      BY <1>2, GatewayUpdateOK DEF Reorder, Change, Inv
    <2> QED
      BY <2>1, FollowsInv DEF Inv
  <1>3. CASE UNCHANGED vars
    BY <1>3 DEF vars, Inv
  <1> QED
    BY <1>1, <1>2, <1>3, ReadyStep, DisconnectStep, LinkLostStep, LinkBackStep, RtnlStep
       DEF Next

\* The records of gateway.c and the kernel's routing table agree, whatever is
\* promoted, demoted, replaced or acknowledged, in any order, for any services
\* and any VPNs with split routing.  (For a VPN without it __connman_gateway_add()
\* clears the route of an active gateway and leaves its record.)
THEOREM RoutesAgree ==
    ASSUME OnlySplit
    PROVE  Spec => []AgreesWithKernel
  BY InitInv, NextInv, InvImplies, PTL DEF Spec

\* The kernel has no default route that gateway.c has forgotten: when no gateway is
\* replaced or removed before the kernel has acknowledged its route, what add_gateway()
\* replaces and __connman_gateway_remove() drops is disabled first, for any services,
\* with any events lost, repeated or delayed.
THEOREM NoOrphanSafety ==
    ASSUME Orderly
    PROVE  Spec => []NoOrphanRoute
  BY InitInv, NextInv, InvImplies, PTL DEF Spec

\* The configurations, the interfaces and the list keep their types.
THEOREM GatewayTypes == Spec => []TypeOK
  BY InitInv, NextInv, InvImplies, PTL DEF Spec
=============================================================================

---------------------------- MODULE ServiceOrder ----------------------------
(***************************************************************************)
(* The states of a service, src/service.c.  A service has a state per IP   *)
(* family, state_ipv4 and state_ipv6, and their combination, state.        *)
(***************************************************************************)
EXTENDS Integers, Sequences, FiniteSets

\* The chain of tests of combine_state() amounts to this precedence.
Precedence == [UNKNOWN |-> 0, IDLE |-> 1, FAILURE |-> 2, DISCONNECT |-> 3,
               ASSOCIATION |-> 4, CONFIGURATION |-> 5, READY |-> 6,
               ONLINE |-> 7]

States == DOMAIN Precedence

is_connecting(state) == state \in {"ASSOCIATION", "CONFIGURATION"}

is_connected(state) == state \in {"READY", "ONLINE"}

is_online(state) == state = "ONLINE"

is_idle(state) == state \in {"IDLE", "DISCONNECT", "FAILURE"}

combine_state(state_a, state_b) ==
    IF Precedence[state_a] >= Precedence[state_b] THEN state_a ELSE state_b

check_suitable_state(a, b) == a = b \/ {a, b} = {"READY", "ONLINE"}

-----------------------------------------------------------------------------
(***************************************************************************)
(* The order of the service list, service_compare() and                    *)
(* service_list_sort() of src/service.c.                                   *)
(*                                                                         *)
(* x maps a service to the attributes the comparison reads.  A comparison  *)
(* is negative when its first service sorts before the second one.         *)
(***************************************************************************)

CONSTANT PreferredTechnologies   \* a sequence of service types

Types == {"ethernet", "wifi", "cellular", "bluetooth", "vpn", "gadget"}

ASSUME OrderAssumption == PreferredTechnologies \in Seq(Types)

NoService == "NULL"

\* The first criterion that tells the services apart decides.
Then(criterion, rest) == IF criterion # 0 THEN criterion ELSE rest

\* -1 when only p holds, 1 when only q does.
First(p, q) == IF p /\ ~q THEN -1 ELSE IF q /\ ~p THEN 1 ELSE 0

\* The entries of the list that are looked at before the type is met.
PreferredRank(type) ==
    Cardinality({i \in 1..Len(PreferredTechnologies) :
                    \A j \in 1..i : PreferredTechnologies[j] # type})

service_compare_preferred(a, b) == PreferredRank(a.type) - PreferredRank(b.type)

TypeRank == [ethernet |-> 1, wifi |-> 2, cellular |-> 3, bluetooth |-> 4,
             vpn |-> 5, gadget |-> 6]

CompareType(a, b) ==
    Then(service_compare_preferred(a, b), TypeRank[a.type] - TypeRank[b.type])

\* Two services that are connecting, in different states, both come first.
CompareState(a, b) ==
    IF a.state = b.state THEN 0
    ELSE Then(IF is_connected(a.state) /\ is_connected(b.state)
              THEN First(is_online(a.state), is_online(b.state)) ELSE 0,
         Then(First(is_connected(a.state), is_connected(b.state)),
         IF is_connecting(a.state) THEN -1
         ELSE IF is_connecting(b.state) THEN 1 ELSE 0))

CompareRest(a, b) ==
    Then(CompareState(a, b),
    Then(First(a.favorite, b.favorite),
    Then(CompareType(a, b),
    Then(b.strength - a.strength,
         a.name - b.name))))

BothConnected(a, b) == is_connected(a.state) /\ is_connected(b.state)

\* via is the outcome of service_compare_vpn() for a VPN and another service.
CompareConnected(a, b, via) ==
    Then(First(~a.threshold_met, ~b.threshold_met),
    Then(via,
    Then(b.order - a.order,
         service_compare_preferred(a, b))))

\* The comparison of two services neither of which, or both of which, are VPN.
CompareAlike(a, b) ==
    Then(IF BothConnected(a, b) THEN CompareConnected(a, b, 0) ELSE 0,
         CompareRest(a, b))

\* A VPN stands where the service it runs over stands.
service_compare_vpn(x, s, t) ==
    IF x[s].type = "vpn"
    THEN IF x[s].transport = NoService THEN 0
         ELSE CompareAlike(x[x[s].transport], x[t])
    ELSE IF x[t].transport = NoService THEN 0
         ELSE CompareAlike(x[s], x[x[t].transport])

service_compare(x, s, t) ==
    IF (x[s].type = "vpn") = (x[t].type = "vpn")
    THEN CompareAlike(x[s], x[t])
    ELSE Then(IF BothConnected(x[s], x[t])
              THEN CompareConnected(x[s], x[t], service_compare_vpn(x, s, t))
              ELSE 0,
              CompareRest(x[s], x[t]))

-----------------------------------------------------------------------------
(***************************************************************************)
(* g_list_sort(): a merge sort that keeps the left element first on a tie. *)
(***************************************************************************)

MergeSort(list, before(_, _)) ==
    LET Lists == Seq({list[i] : i \in DOMAIN list})
        merge[l \in Lists, r \in Lists] ==
            IF l = <<>> THEN r
            ELSE IF r = <<>> THEN l
            ELSE IF before(Head(l), Head(r))
            THEN <<Head(l)>> \o merge[Tail(l), r]
            ELSE <<Head(r)>> \o merge[l, Tail(r)]
        sort[l \in Lists] ==
            LET half == Len(l) \div 2
            IN  IF half = 0 THEN l
                ELSE merge[sort[SubSeq(l, 1, half)],
                           sort[SubSeq(l, half + 1, Len(l))]]
    IN  sort[list]

service_list_sort(x, list) ==
    MergeSort(list, LAMBDA s, t : service_compare(x, s, t) <= 0)

=============================================================================

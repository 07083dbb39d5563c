------------------------------ MODULE ServiceList ------------------------------
(***************************************************************************)
(* The service list as its attributes change, src/service.c.               *)
(*                                                                         *)
(* Each step is one of the places that change the list or an attribute the *)
(* comparison reads.  Most of them call SERVICE_LIST_SORT(); MoveBefore    *)
(* and MoveAfter, a failure the agent is told of and an agent's error do   *)
(* not.  Which state follows which is the business of module Service: here *)
(* a state may follow any other, but a service goes online from READY and  *)
(* a VPN connects over a service that is connected.                        *)
(***************************************************************************)
EXTENDS ServiceOrder, SequencesExt

CONSTANTS
    Services,
    Type,        \* the type of a service
    Name,        \* the place of its name in the alphabet
    Order,       \* its order: 10 for a VPN that routes everything, else 0
    Transport,   \* the service a VPN runs over, or NoService
    Strengths    \* the signal strengths that occur

VARIABLES
    service,       \* the attributes of each service
    service_list

vars == <<service, service_list>>

Attributes ==
    [state : States, favorite : BOOLEAN, strength : Strengths,
     threshold_met : BOOLEAN, type : Types, name : Int, order : Int,
     transport : Services \union {NoService}]

-----------------------------------------------------------------------------

service_create(s) ==
    [state |-> "IDLE", favorite |-> FALSE, strength |-> 0,
     threshold_met |-> FALSE, type |-> Type[s], name |-> Name[s],
     order |-> Order[s], transport |-> Transport[s]]

Permutation(list) ==
    /\ DOMAIN list = 1..Cardinality(Services)
    /\ {list[i] : i \in DOMAIN list} = Services

Init ==
    /\ service = [s \in Services |-> service_create(s)]
    /\ \E list \in [1..Cardinality(Services) -> Services] :
           /\ Permutation(list)
           /\ service_list = service_list_sort(service, list)

Resort == service_list' = service_list_sort(service', service_list)

\* Reaching READY makes a favorite, leaving clears the online check's verdict.
Entered(a, state) ==
    [a EXCEPT !.state = state,
              !.favorite = @ \/ state = "READY",
              !.threshold_met = @ /\ state # "DISCONNECT"]

CanEnter(s, state) ==
    /\ service[s].state # state
    /\ is_online(state) => service[s].state = "READY"
    /\ is_connected(state) /\ Transport[s] # NoService
           => is_connected(service[Transport[s]].state)

service_indicate_state(s, state) ==
    /\ CanEnter(s, state)
    /\ service' = [service EXCEPT ![s] = Entered(@, state)]
    /\ Resort

\* Faulty variant: the strength is read and the list left as it is.
UpdateFromNetwork_NoSort(s, strength) ==
    /\ service[s].strength # strength
    /\ service' = [service EXCEPT ![s].strength = strength]
    /\ UNCHANGED service_list

UpdateFromNetwork(s, strength) ==
    /\ service[s].strength # strength
    /\ service' = [service EXCEPT ![s].strength = strength]
    /\ Resort

\* The continuous online check of a connected service meets its threshold of
\* failures, and later of successes.
continuous_online_check_failure(s) ==
    /\ is_connected(service[s].state)
    /\ ~service[s].threshold_met
    /\ service' = [service EXCEPT ![s].threshold_met = TRUE,
                                  ![s].state = "READY"]
    /\ Resort

continuous_online_check_success(s) ==
    /\ is_connected(service[s].state)
    /\ service[s].threshold_met
    /\ LET cleared == [service EXCEPT ![s].threshold_met = FALSE]
           sorted  == service_list_sort(cleared, service_list)
       IN  IF Head(sorted) = s
           THEN /\ service' = [cleared EXCEPT ![s].state = "ONLINE"]
                /\ service_list' = service_list_sort(service', sorted)
           ELSE /\ service' = cleared
                /\ service_list' = sorted

\* The agent is asked to report the failure: the list is not sorted.
FailureReported(s) ==
    /\ CanEnter(s, "FAILURE")
    /\ service' = [service EXCEPT ![s] = Entered(@, "FAILURE")]
    /\ UNCHANGED service_list

\* The agent answers the request for a passphrase with an error.
request_input_cb(s) ==
    /\ service[s].state # "IDLE"
    /\ service' = [service EXCEPT ![s].state = "IDLE"]
    /\ UNCHANGED service_list

\* v holds the attributes and the list.  Leaving ONLINE sorts the list.
service_downgrade_online_state(v, s) ==
    IF ~is_online(v.service[s].state) THEN v
    ELSE LET ready == [v.service EXCEPT ![s].state = "READY"]
         IN  [service |-> ready, list |-> service_list_sort(ready, v.list)]

MovedBefore(list, s, t) ==
    LET others == Remove(list, s)
    IN  InsertAt(others, CHOOSE i \in DOMAIN others : others[i] = t, s)

\* MoveBefore and MoveAfter of two favorites; the place is not sorted again.
switch_service_order(demoted, promoted) ==
    LET v     == [service |-> service, list |-> service_list]
        down  == IF Head(service_list) = demoted
                 THEN service_downgrade_online_state(v, demoted) ELSE v
        moved == [down EXCEPT !.list = MovedBefore(@, promoted, demoted)]
        done  == IF moved = down THEN down
                 ELSE service_downgrade_online_state(moved, promoted)
    IN  /\ demoted # promoted
        /\ service[demoted].favorite /\ service[promoted].favorite
        /\ service' = done.service
        /\ service_list' = done.list

Unsorting ==
    \E s \in Services :
        \/ FailureReported(s)
        \/ request_input_cb(s)
        \/ \E promoted \in Services : switch_service_order(s, promoted)

Sorting ==
    \E s \in Services :
        \/ \E state \in States \ {"UNKNOWN"} : service_indicate_state(s, state)
        \/ \E strength \in Strengths : UpdateFromNetwork(s, strength)
        \/ continuous_online_check_failure(s)
        \/ continuous_online_check_success(s)

Next == Sorting \/ Unsorting

Spec == Init /\ [][Next]_vars

-----------------------------------------------------------------------------

\* Every service keeps its attributes and its one place in the list that
\* service_list_sort() rearranges.
TypeOK == service \in [Services -> Attributes] /\ Permutation(service_list)

\* No connected service stands behind one that service_compare() puts after it.
InOrder(x, list) ==
    \A i, j \in DOMAIN list :
        i < j /\ is_connected(x[list[j]].state)
            => service_compare(x, list[i], list[j]) <= 0

\* Every change but a move, a reported failure and an agent's error leaves the
\* connected services in the order of service_compare() and in front of all
\* others, in whatever order those three have left the list before: g_list_sort()
\* repairs it though the comparison is no order of the services that are
\* connecting.  connman_service_get_default() looks only at the head, and
\* single_connected_tech() stops at the first service that is not connected.
ConnectedSorted ==
    [][InOrder(service', service_list') \/ Unsorting]_vars

-----------------------------------------------------------------------------
(* The services of the configuration. *)

WifiFirst == <<"wifi">>

MCType == [s \in Services |-> IF s = "e1" THEN "ethernet" ELSE "wifi"]
MCName == [s \in Services |-> IF s = "w2" THEN 2 ELSE 1]
MCOrder == [s \in Services |-> 0]
MCTransport == [s \in Services |-> NoService]
=============================================================================

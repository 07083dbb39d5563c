------------------------------- MODULE AcdHost -------------------------------
(***************************************************************************)
(* One ACD host (module Acd) on a link where other machines may use or     *)
(* probe the same address at any time.  The caller may start it for any    *)
(* address and stop it at any time, also while it runs: that is how        *)
(* src/network.c uses it (start_acd() from a DHCP or a manual              *)
(* configuration, acd_host_stop() from a disconnect).                      *)
(***************************************************************************)
EXTENDS Acd

VARIABLES
    host,        \* struct acd_host
    heard,       \* history: packets sent for requested_ip since it was set,
                 \* and whether a conflicting one was received
    callback     \* the callback made by the last step

hostVars == <<host, heard, callback>>

Quiet == [probes |-> 0, announces |-> 0, conflict |-> FALSE]

HostInit ==
    /\ host = acd_host_new
    /\ heard = Quiet
    /\ callback = "none"

Start(ip, opened) ==
    /\ host' = acd_host_start(host, ip, opened)
    /\ heard' = IF host'.timeout = "probe" THEN Quiet ELSE heard
    /\ callback' = "none"

Stop ==
    /\ host' = acd_host_stop(host)
    /\ heard' = Quiet
    /\ callback' = "none"

ProbeTimeout(opened) ==
    /\ host.timeout = "probe"
    /\ host' = acd_probe_timeout(host, opened)
    /\ heard' = IF host'.state = "ANNOUNCE"
                THEN [heard EXCEPT !.announces = 1]
                ELSE [heard EXCEPT !.probes = @ + 1]
    /\ callback' = "none"

AnnounceTimeout ==
    /\ host.timeout = "announce"
    /\ LET r == acd_announce_timeout(host)
       IN  /\ host' = r.host
           /\ callback' = r.callback
           /\ heard' = IF r.callback = "none"
                       THEN [heard EXCEPT !.announces = @ + 1]
                       ELSE heard

DefendTimeout ==
    /\ host.timeout = "defend"
    /\ host' = acd_defend_timeout(host)
    /\ callback' = "none"
    /\ UNCHANGED heard

Receive(source) ==
    /\ Hears(host)
    /\ host.conflicts < ConflictBound
    /\ LET r == acd_recv_arp_packet(host, source)
       IN  /\ host' = r.host
           /\ callback' = r.callback
    /\ heard' = IF host'.requested_ip = NoAddress
                THEN Quiet
                ELSE [heard EXCEPT !.conflict = TRUE]

SocketError ==
    /\ host.listener_watch
    /\ host' = acd_listener_event_error(host)
    /\ callback' = "none"
    /\ UNCHANGED heard

HostNext ==
    \/ \E ip \in Addresses, opened \in BOOLEAN : Start(ip, opened)
    \/ Stop
    \/ \E opened \in BOOLEAN : ProbeTimeout(opened)
    \/ AnnounceTimeout
    \/ DefendTimeout
    \/ \E source \in BOOLEAN : Receive(source)
    \/ SocketError

HostSpec == HostInit /\ [][HostNext]_hostVars

-----------------------------------------------------------------------------
\* The host and the history have their types.
HostTypeOK ==
    /\ host \in Hosts
    /\ heard \in [probes : Nat, announces : Nat, conflict : BOOLEAN]
    /\ callback \in Callbacks

(***************************************************************************)
(* An address is claimed (announced, monitored or defended) only after     *)
(* exactly PROBE_NUM probes of that very address, and monitored or         *)
(* defended only after ANNOUNCE_NUM announcements of it, whatever restarts *)
(* and conflicts came before: no probe of an earlier address counts.       *)
(***************************************************************************)
ClaimedAfterProbes ==
    /\ host.state # "PROBE" => heard.probes = PROBE_NUM
    /\ host.state \in {"MONITOR", "DEFEND"} => heard.announces = ANNOUNCE_NUM

(***************************************************************************)
(* retry_times, which acd.c tests for equality with PROBE_NUM and with     *)
(* ANNOUNCE_NUM, counts the packets sent for the current address in the    *)
(* current state and is never past its limit; a conflict leaves a host     *)
(* neither probing nor announcing.                                         *)
(***************************************************************************)
RetriesCountPackets ==
    /\ host.state = "PROBE" =>
          /\ heard.probes = host.retry_times /\ host.retry_times \in 0 .. PROBE_NUM
          /\ heard.announces = 0
    /\ host.state = "ANNOUNCE" =>
          heard.announces = host.retry_times /\ host.retry_times \in 1 .. ANNOUNCE_NUM
    /\ heard.conflict => host.state \in {"MONITOR", "DEFEND"}

(***************************************************************************)
(* The one timeout field serves three timers.  The timer that runs is the  *)
(* one of the state, no timer runs in MONITOR, and a host that is not      *)
(* listening has none, so a stopped host never calls back.  A host listens *)
(* exactly while it has an address.                                        *)
(***************************************************************************)
TimerFollowsState ==
    /\ host.state = "ANNOUNCE" <=> host.timeout = "announce"
    /\ host.state = "DEFEND" <=> host.timeout = "defend"
    /\ host.timeout = "probe" => host.state = "PROBE"
    /\ ~host.listen_on => host.timeout = "none" /\ host.state = "PROBE"
    /\ host.listen_on <=> host.requested_ip # NoAddress

(***************************************************************************)
(* ipv4_available_cb is called only for an address nobody else was heard   *)
(* to use since its probing began, and ipv4_lost_cb only for an address    *)
(* that was defended first.                                                *)
(***************************************************************************)
AvailableIsUncontested ==
    /\ callback = "available" => ~heard.conflict /\ heard.announces = ANNOUNCE_NUM
    /\ callback = "lost" => host.state = "DEFEND" /\ heard.announces = ANNOUNCE_NUM

=============================================================================

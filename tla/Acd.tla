--------------------------------- MODULE Acd ---------------------------------
(***************************************************************************)
(* IPv4 address conflict detection, src/acd.c: the host probes an address, *)
(* announces it, and then monitors and defends it.                         *)
(*                                                                         *)
(* struct acd_host is a record.  Its functions are operators from the host *)
(* before to the host after, so that the network (module Ipv4Config) can   *)
(* call them from its own handlers; a function that ends in one of the     *)
(* four callbacks returns the callback's name as well.                     *)
(*                                                                         *)
(* Times are left out: a timer is the name of the function it will call.   *)
(***************************************************************************)
EXTENDS Integers

CONSTANTS
    Addresses,       \* IPv4 addresses that may be probed
    LinkLocal,       \* those in 169.254.0.0/16
    NoAddress,       \* address 0
    PROBE_NUM, ANNOUNCE_NUM, MAX_CONFLICTS,
    ConflictBound    \* bound on the conflicts counter

ASSUME AcdAssumption ==
    /\ LinkLocal \subseteq Addresses
    /\ NoAddress \notin Addresses
    /\ PROBE_NUM \in Nat \ {0}
    /\ ANNOUNCE_NUM \in Nat \ {0}
    /\ MAX_CONFLICTS \in Nat
    /\ ConflictBound \in Nat

AcdStates == {"PROBE", "ANNOUNCE", "MONITOR", "DEFEND"}

Timers == {"none", "probe", "announce", "defend"}

Callbacks == {"none", "available", "lost", "conflict", "maxconflict"}

Hosts == [state : AcdStates, requested_ip : Addresses \union {NoAddress},
          ac_ip : Addresses \union {NoAddress}, ac_resolved : BOOLEAN,
          listen_on : BOOLEAN, listener_watch : BOOLEAN,
          retry_times : Nat, conflicts : Nat, timeout : Timers]

\* acd_host_new(): a fresh host, g_try_new0() having cleared it.
acd_host_new ==
    [state |-> "PROBE", requested_ip |-> NoAddress,
     ac_ip |-> NoAddress, ac_resolved |-> TRUE,
     listen_on |-> FALSE, listener_watch |-> FALSE,
     retry_times |-> 0, conflicts |-> 0, timeout |-> "none"]

is_link_local(ip) == ip \in LinkLocal

remove_timeout(h) == [h EXCEPT !.timeout = "none"]

\* opened: the ARP socket could be opened.
start_listening(h, opened) ==
    IF h.listen_on \/ ~opened
    THEN h
    ELSE [h EXCEPT !.listen_on = TRUE, !.listener_watch = TRUE]

stop_listening(h) ==
    [h EXCEPT !.listen_on = FALSE,
              !.listener_watch = @ /\ ~h.listen_on]

\* Faulty variant: a running host is not stopped, its timer survives the restart.
acd_host_start_KeepTimer(h, ip, opened) ==
    LET l == start_listening(h, opened)
    IN  IF l.listen_on
        THEN [l EXCEPT !.retry_times = 0, !.requested_ip = ip, !.state = "PROBE",
                       !.timeout = IF @ = "none" THEN "probe" ELSE @]
        ELSE l

\* Faulty variant: the probes sent for the previous address are counted.
acd_host_start_KeepRetries(h, ip, opened) ==
    LET l == start_listening(remove_timeout(h), opened)
    IN  IF l.listen_on
        THEN [l EXCEPT !.requested_ip = ip, !.state = "PROBE", !.timeout = "probe"]
        ELSE l

acd_host_start(h, ip, opened) ==
    LET l == start_listening(remove_timeout(h), opened)
    IN  IF l.listen_on
        THEN [l EXCEPT !.retry_times = 0, !.requested_ip = ip,
                       !.state = "PROBE", !.timeout = "probe"]
        ELSE l

acd_host_stop(h) ==
    [remove_timeout(stop_listening(h))
        EXCEPT !.listener_watch = FALSE, !.state = "PROBE",
               !.retry_times = 0, !.requested_ip = NoAddress]

send_probe_packet(h, opened) ==
    LET r == remove_timeout(h)
        l == IF r.retry_times = 1
             THEN start_listening([r EXCEPT !.state = "PROBE"], opened)
             ELSE r
    IN  [l EXCEPT !.timeout = "probe"]

send_announce_packet(h) ==
    [remove_timeout(h)
        EXCEPT !.timeout = IF h.state = "DEFEND" THEN "defend" ELSE "announce"]

\* arp: a conflicting packet was heard; otherwise the conflict is over.
report_conflict(h, arp) ==
    IF arp
    THEN [h EXCEPT !.ac_ip = h.requested_ip, !.ac_resolved = FALSE]
    ELSE [h EXCEPT !.ac_resolved = TRUE]

ReportUnlessLinkLocal(h) ==
    IF is_link_local(h.requested_ip) THEN h ELSE report_conflict(h, TRUE)

acd_probe_timeout(h, opened) ==
    LET t == [h EXCEPT !.timeout = "none"]
    IN  IF h.retry_times = PROBE_NUM
        THEN send_announce_packet([t EXCEPT !.state = "ANNOUNCE", !.retry_times = 1])
        ELSE send_probe_packet([t EXCEPT !.retry_times = @ + 1], opened)

\* The conflicts counter is cleared after the callback, which does not read it.
acd_announce_timeout(h) ==
    LET t == [h EXCEPT !.timeout = "none"]
        m == [t EXCEPT !.state = "MONITOR", !.conflicts = 0]
    IN  IF h.retry_times # ANNOUNCE_NUM
        THEN [host |-> send_announce_packet([t EXCEPT !.retry_times = @ + 1]),
              callback |-> "none"]
        ELSE [host |-> IF ~h.ac_resolved /\ ~is_link_local(h.requested_ip)
                       THEN report_conflict(m, FALSE)
                       ELSE m,
              callback |-> "available"]

acd_defend_timeout(h) ==
    [h EXCEPT !.timeout = "none", !.conflicts = 0, !.state = "MONITOR"]

\* Faulty variant: a conflict heard while announcing is only counted.
acd_recv_arp_packet_IgnoreAnnounce(h, source) ==
    LET c == [h EXCEPT !.conflicts = @ + 1]
    IN  IF h.state = "PROBE"
        THEN [host |-> acd_host_stop(ReportUnlessLinkLocal(c)), callback |-> "conflict"]
        ELSE [host |-> c, callback |-> "none"]

\* source: the packet's sender uses the requested address; otherwise it probes
\* for it.  Packets of other kinds return before the host changes.
acd_recv_arp_packet(h, source) ==
    LET c == [h EXCEPT !.conflicts = @ + 1]
    IN  CASE h.state = "MONITOR" ->
               [host |-> IF source
                         THEN send_announce_packet([c EXCEPT !.state = "DEFEND"])
                         ELSE c,
                callback |-> "none"]
          [] h.state = "DEFEND" ->
               [host |-> IF source THEN ReportUnlessLinkLocal(c) ELSE c,
                callback |-> IF source THEN "lost" ELSE "none"]
          [] OTHER ->
               IF c.conflicts < MAX_CONFLICTS
               THEN [host |-> acd_host_stop(ReportUnlessLinkLocal(c)),
                     callback |-> "conflict"]
               ELSE [host |-> acd_host_stop(c), callback |-> "maxconflict"]

\* The socket reports an error: its watch is gone.
acd_listener_event_error(h) == [h EXCEPT !.listener_watch = FALSE]

\* Whether the main loop can hand the host a packet.
Hears(h) == h.listen_on /\ h.listener_watch
=============================================================================

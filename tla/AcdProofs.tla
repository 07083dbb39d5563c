------------------------------ MODULE AcdProofs ------------------------------
(***************************************************************************)
(* What each function of src/acd.c (module Acd) does to the fields of the  *)
(* host, and the safety of a single host (module AcdHost) for every set of *)
(* addresses and every number of probes and announcements.  The proofs     *)
(* about the configuration of a network (Ipv4ConfigProofs) rest on the     *)
(* lemmas about the functions.                                             *)
(***************************************************************************)
EXTENDS AcdHost, TLAPS

USE DEF AcdStates, Timers, Callbacks

\* acd_host_start(): a host that listens afterwards probes from the beginning,
\* one that could not open its socket is idle as before.
LEMMA StartEffect ==
    ASSUME NEW h \in Hosts, NEW ip \in Addresses \union {NoAddress}, NEW opened \in BOOLEAN
    PROVE  LET r == acd_host_start(h, ip, opened)
           IN  /\ r \in Hosts
               /\ r.listen_on = (h.listen_on \/ opened)
               /\ r.listen_on => /\ r.state = "PROBE" /\ r.retry_times = 0
                                 /\ r.timeout = "probe" /\ r.requested_ip = ip
               /\ ~r.listen_on => /\ r.state = h.state /\ r.timeout = "none"
                                  /\ r.retry_times = h.retry_times
                                  /\ r.requested_ip = h.requested_ip
  BY Zenon DEF Hosts, acd_host_start, start_listening, remove_timeout

\* acd_host_stop(): the host is idle.
LEMMA StopEffect ==
    ASSUME NEW h \in Hosts
    PROVE  LET r == acd_host_stop(h)
           IN  /\ r \in Hosts
               /\ ~r.listen_on /\ r.state = "PROBE" /\ r.retry_times = 0
               /\ r.timeout = "none" /\ r.requested_ip = NoAddress
  BY AcdAssumption, Zenon DEF Hosts, acd_host_stop, stop_listening, remove_timeout

\* send_announce_packet() arms the timer of the state, and nothing else.
LEMMA AnnounceEffect ==
    ASSUME NEW h \in Hosts
    PROVE  LET r == send_announce_packet(h)
           IN  /\ r \in Hosts
               /\ r.state = h.state /\ r.retry_times = h.retry_times
               /\ r.listen_on = h.listen_on /\ r.requested_ip = h.requested_ip
               /\ r.timeout = IF h.state = "DEFEND" THEN "defend" ELSE "announce"
  BY Zenon DEF Hosts, send_announce_packet, remove_timeout

\* send_probe_packet() arms the probe timer of a host that probes.
LEMMA ProbeEffect ==
    ASSUME NEW h \in Hosts, h.state = "PROBE", NEW opened \in BOOLEAN
    PROVE  LET r == send_probe_packet(h, opened)
           IN  /\ r \in Hosts
               /\ r.state = "PROBE" /\ r.retry_times = h.retry_times
               /\ h.listen_on => r.listen_on
               /\ r.timeout = "probe" /\ r.requested_ip = h.requested_ip
  <1> DEFINE q == remove_timeout(h)
             l == IF q.retry_times = 1
                  THEN start_listening([q EXCEPT !.state = "PROBE"], opened)
                  ELSE q
  <1>1. l \in Hosts /\ l.state = "PROBE" /\ l.retry_times = h.retry_times
        /\ (h.listen_on => l.listen_on) /\ l.requested_ip = h.requested_ip
    BY Zenon DEF Hosts, remove_timeout, start_listening
  <1>2. send_probe_packet(h, opened) = [l EXCEPT !.timeout = "probe"]
    BY DEF send_probe_packet
  <1> HIDE DEF l
  <1> QED
    BY <1>1, <1>2 DEF Hosts

\* report_conflict() touches nothing but the report.
LEMMA ReportEffect ==
    ASSUME NEW h \in Hosts, NEW arp \in BOOLEAN
    PROVE  LET r == report_conflict(h, arp)
           IN  /\ r \in Hosts
               /\ r.state = h.state /\ r.retry_times = h.retry_times
               /\ r.listen_on = h.listen_on /\ r.timeout = h.timeout
               /\ r.requested_ip = h.requested_ip
  BY Zenon DEF Hosts, report_conflict

\* acd_probe_timeout(): one more probe, or the first announcement.
LEMMA ProbeTimeoutEffect ==
    ASSUME NEW h \in Hosts, h.state = "PROBE", NEW opened \in BOOLEAN
    PROVE  LET r == acd_probe_timeout(h, opened)
           IN  /\ r \in Hosts
               /\ h.listen_on => r.listen_on
               /\ r.requested_ip = h.requested_ip
               /\ h.retry_times = PROBE_NUM =>
                     r.state = "ANNOUNCE" /\ r.retry_times = 1 /\ r.timeout = "announce"
               /\ h.retry_times # PROBE_NUM =>
                     /\ r.state = "PROBE" /\ r.retry_times = h.retry_times + 1
                     /\ r.timeout = "probe"
  <1> DEFINE t == [h EXCEPT !.timeout = "none"]
             a == [t EXCEPT !.state = "ANNOUNCE", !.retry_times = 1]
             p == [t EXCEPT !.retry_times = @ + 1]
  <1>0. /\ t \in Hosts /\ t.state = h.state /\ t.retry_times = h.retry_times
        /\ t.timeout = "none" /\ t.listen_on = h.listen_on
        /\ t.requested_ip = h.requested_ip
    BY DEF Hosts
  <1> HIDE DEF t
  <1>1. a \in Hosts /\ a.state = "ANNOUNCE" /\ a.retry_times = 1
        /\ a.listen_on = h.listen_on /\ a.requested_ip = h.requested_ip
    BY <1>0, Zenon DEF Hosts
  <1>2. p \in Hosts /\ p.state = "PROBE" /\ p.retry_times = h.retry_times + 1
        /\ p.listen_on = h.listen_on /\ p.requested_ip = h.requested_ip
    BY <1>0 DEF Hosts
  <1>3. acd_probe_timeout(h, opened) = IF h.retry_times = PROBE_NUM
                                      THEN send_announce_packet(a)
                                      ELSE send_probe_packet(p, opened)
    BY DEF acd_probe_timeout, t
  <1> HIDE DEF a, p
  <1> QED
    BY <1>1, <1>2, <1>3, AnnounceEffect, ProbeEffect

\* acd_announce_timeout(): one more announcement, or the address is available.
LEMMA AnnounceTimeoutEffect ==
    ASSUME NEW h \in Hosts, h.state = "ANNOUNCE"
    PROVE  LET r == acd_announce_timeout(h)
           IN  /\ r.host \in Hosts
               /\ r.host.listen_on = h.listen_on
               /\ r.host.requested_ip = h.requested_ip
               /\ h.retry_times # ANNOUNCE_NUM =>
                     /\ r.host.state = "ANNOUNCE" /\ r.host.retry_times = h.retry_times + 1
                     /\ r.host.timeout = "announce" /\ r.callback = "none"
               /\ h.retry_times = ANNOUNCE_NUM =>
                     /\ r.host.state = "MONITOR" /\ r.host.timeout = "none"
                     /\ r.callback = "available"
  <1> DEFINE t == [h EXCEPT !.timeout = "none"]
             m == [t EXCEPT !.state = "MONITOR", !.conflicts = 0]
             a == [t EXCEPT !.retry_times = @ + 1]
  <1>0. /\ t \in Hosts /\ t.state = h.state /\ t.retry_times = h.retry_times
        /\ t.timeout = "none" /\ t.listen_on = h.listen_on
        /\ t.requested_ip = h.requested_ip
    BY DEF Hosts
  <1> HIDE DEF t
  <1>1. m \in Hosts /\ m.state = "MONITOR" /\ m.timeout = "none"
        /\ m.listen_on = h.listen_on /\ m.requested_ip = h.requested_ip
    BY <1>0, Zenon DEF Hosts
  <1>2. a \in Hosts /\ a.state = "ANNOUNCE" /\ a.retry_times = h.retry_times + 1
        /\ a.listen_on = h.listen_on /\ a.requested_ip = h.requested_ip
    BY <1>0 DEF Hosts
  <1>3. acd_announce_timeout(h) =
          IF h.retry_times # ANNOUNCE_NUM
          THEN [host |-> send_announce_packet(a), callback |-> "none"]
          ELSE [host |-> IF ~h.ac_resolved /\ ~is_link_local(h.requested_ip)
                         THEN report_conflict(m, FALSE)
                         ELSE m,
                callback |-> "available"]
    BY DEF acd_announce_timeout, t
  <1> HIDE DEF a, m
  <1>4. CASE h.retry_times # ANNOUNCE_NUM
    BY <1>2, <1>3, <1>4, AnnounceEffect
  <1>5. CASE h.retry_times = ANNOUNCE_NUM
    <2> DEFINE v == IF ~h.ac_resolved /\ ~is_link_local(h.requested_ip)
                    THEN report_conflict(m, FALSE)
                    ELSE m
    <2>1. /\ v \in Hosts /\ v.state = "MONITOR" /\ v.timeout = "none"
          /\ v.listen_on = h.listen_on /\ v.requested_ip = h.requested_ip
      BY <1>1, ReportEffect, Zenon
    <2>2. acd_announce_timeout(h) = [host |-> v, callback |-> "available"]
      BY <1>3, <1>5
    <2> HIDE DEF v
    <2> QED
      BY <1>5, <2>1, <2>2
  <1> QED
    BY <1>4, <1>5

\* acd_recv_arp_packet(): a host that has its address keeps it or defends it,
\* one that has not is stopped.
LEMMA ReceiveEffect ==
    ASSUME NEW h \in Hosts, NEW source \in BOOLEAN
    PROVE  LET r == acd_recv_arp_packet(h, source)
           IN  /\ r.host \in Hosts
               /\ r.callback \in Callbacks
               /\ h.state \in {"MONITOR", "DEFEND"} =>
                     /\ r.host.state \in {h.state, "DEFEND"}
                     /\ r.host.listen_on = h.listen_on
                     /\ r.host.requested_ip = h.requested_ip
                     /\ r.host.timeout = IF r.host.state = h.state THEN h.timeout ELSE "defend"
               /\ h.state \in {"PROBE", "ANNOUNCE"} =>
                     /\ ~r.host.listen_on /\ r.host.state = "PROBE"
                     /\ r.host.retry_times = 0 /\ r.host.timeout = "none"
                     /\ r.host.requested_ip = NoAddress
  <1> DEFINE c == [h EXCEPT !.conflicts = @ + 1]
             d == [c EXCEPT !.state = "DEFEND"]
  <1>1. /\ c \in Hosts /\ c.state = h.state /\ c.timeout = h.timeout
        /\ c.listen_on = h.listen_on /\ c.requested_ip = h.requested_ip
    BY DEF Hosts
  <1>2. /\ d \in Hosts /\ d.state = "DEFEND" /\ d.listen_on = h.listen_on
        /\ d.requested_ip = h.requested_ip
    BY <1>1, Zenon DEF Hosts
  <1> HIDE DEF d
  <1> DEFINE u == ReportUnlessLinkLocal(c)
  <1>3. /\ u \in Hosts /\ u.state = h.state /\ u.timeout = h.timeout
        /\ u.listen_on = h.listen_on /\ u.requested_ip = h.requested_ip
    BY <1>1, ReportEffect, Zenon DEF ReportUnlessLinkLocal
  <1> HIDE DEF u
  <1>4. CASE h.state = "MONITOR"
    <2>1. acd_recv_arp_packet(h, source) =
            [host |-> IF source THEN send_announce_packet(d) ELSE c, callback |-> "none"]
      BY <1>4 DEF acd_recv_arp_packet, d
    <2> QED
      BY <1>1, <1>2, <1>4, <2>1, AnnounceEffect
  <1>5. CASE h.state = "DEFEND"
    <2>1. acd_recv_arp_packet(h, source) =
            [host |-> IF source THEN u ELSE c,
             callback |-> IF source THEN "lost" ELSE "none"]
      BY <1>5 DEF acd_recv_arp_packet, u
    <2> QED
      BY <1>1, <1>3, <1>5, <2>1
  <1>6. CASE h.state \in {"PROBE", "ANNOUNCE"}
    <2>1. acd_recv_arp_packet(h, source) =
            IF c.conflicts < MAX_CONFLICTS
            THEN [host |-> acd_host_stop(u), callback |-> "conflict"]
            ELSE [host |-> acd_host_stop(c), callback |-> "maxconflict"]
      BY <1>6 DEF acd_recv_arp_packet, u
    <2> QED
      BY <1>1, <1>3, <1>6, <2>1, StopEffect
  <1> QED
    BY <1>4, <1>5, <1>6 DEF Hosts

\* acd_recv_arp_packet() never says that an address is available, and that it is
\* lost only when it was being defended.
LEMMA ReceiveReports ==
    ASSUME NEW h \in Hosts, NEW source \in BOOLEAN
    PROVE  LET r == acd_recv_arp_packet(h, source)
           IN  /\ r.callback # "available"
               /\ r.callback = "lost" => h.state = "DEFEND"
  BY DEF acd_recv_arp_packet

\* acd_probe_timeout() keeps the type in every state.
LEMMA ProbeTimeoutTyped ==
    ASSUME NEW h \in Hosts, NEW opened \in BOOLEAN
    PROVE  acd_probe_timeout(h, opened) \in Hosts
  <1> DEFINE t == [h EXCEPT !.timeout = "none"]
             a == [t EXCEPT !.state = "ANNOUNCE", !.retry_times = 1]
             p == [t EXCEPT !.retry_times = @ + 1]
             q == remove_timeout(p)
             x == [q EXCEPT !.state = "PROBE"]
             y == start_listening(x, opened)
             l == IF q.retry_times = 1 THEN y ELSE q
  <1>1. t \in Hosts
    BY DEF Hosts
  <1> HIDE DEF t
  <1>2. a \in Hosts
    BY <1>1, Zenon DEF Hosts
  <1>p. p \in Hosts
    BY <1>1 DEF Hosts
  <1> HIDE DEF a, p
  <1>3. q \in Hosts
    BY <1>p DEF Hosts, remove_timeout
  <1> HIDE DEF q
  <1>x. x \in Hosts
    BY <1>3 DEF Hosts
  <1> HIDE DEF x
  <1>y. y \in Hosts
    BY <1>x, Zenon DEF Hosts, start_listening
  <1> HIDE DEF y
  <1>4. l \in Hosts
    BY <1>3, <1>y
  <1> HIDE DEF l
  <1>5. [l EXCEPT !.timeout = "probe"] \in Hosts
    BY <1>4 DEF Hosts
  <1>6. send_announce_packet(a) \in Hosts
    BY <1>2, AnnounceEffect
  <1> QED
    BY <1>5, <1>6 DEF acd_probe_timeout, send_probe_packet, a, t, p, l, q, x, y

\* acd_announce_timeout() keeps the type in every state.
LEMMA AnnounceTimeoutTyped ==
    ASSUME NEW h \in Hosts
    PROVE  /\ acd_announce_timeout(h).host \in Hosts
           /\ acd_announce_timeout(h).callback \in {"none", "available"}
  <1> DEFINE t == [h EXCEPT !.timeout = "none"]
             m == [t EXCEPT !.state = "MONITOR", !.conflicts = 0]
             a == [t EXCEPT !.retry_times = @ + 1]
             r == report_conflict(m, FALSE)
  <1>1. t \in Hosts
    BY DEF Hosts
  <1> HIDE DEF t
  <1>2. m \in Hosts
    BY <1>1, Zenon DEF Hosts
  <1>3. a \in Hosts
    BY <1>1 DEF Hosts
  <1> HIDE DEF m, a
  <1>4. r \in Hosts
    BY <1>2, ReportEffect, Zenon
  <1>5. send_announce_packet(a) \in Hosts
    BY <1>3, AnnounceEffect
  <1> HIDE DEF r
  <1>6. acd_announce_timeout(h) =
          IF h.retry_times # ANNOUNCE_NUM
          THEN [host |-> send_announce_packet(a), callback |-> "none"]
          ELSE [host |-> IF ~h.ac_resolved /\ ~is_link_local(h.requested_ip) THEN r ELSE m,
                callback |-> "available"]
    BY DEF acd_announce_timeout, a, m, t, r
  <1> QED
    BY <1>2, <1>4, <1>5, <1>6

\* acd_defend_timeout() keeps the type.
LEMMA DefendTimeoutTyped ==
    ASSUME NEW h \in Hosts
    PROVE  acd_defend_timeout(h) \in Hosts
  BY Zenon DEF Hosts, acd_defend_timeout

-----------------------------------------------------------------------------
(***************************************************************************)
(* ClaimedAfterProbes is not inductive alone: that the last probe was the  *)
(* PROBE_NUM-th follows from what retry_times counts, and that a timeout   *)
(* finds the state it was armed in from TimerFollowsState.                 *)
(***************************************************************************)
HostInv == HostTypeOK /\ ClaimedAfterProbes /\ RetriesCountPackets /\ TimerFollowsState

\* A fresh host (acd_host_new()) satisfies the invariant.
LEMMA HostInitHolds == HostInit => HostInv
  BY AcdAssumption DEF HostInit, HostInv, HostTypeOK, ClaimedAfterProbes, RetriesCountPackets,
     TimerFollowsState, Hosts, acd_host_new, Quiet

(***************************************************************************)
(* Every step keeps the invariant: a restart and a stop because they reset *)
(* retry_times together with the address, a timeout because it moves to    *)
(* the next state exactly when its limit is reached, a packet because it   *)
(* stops a host that was still probing or announcing.                      *)
(***************************************************************************)
LEMMA HostStepHolds == HostInv /\ [HostNext]_hostVars => HostInv'
<1> SUFFICES ASSUME HostInv, [HostNext]_hostVars PROVE HostInv'
  OBVIOUS
<1> USE AcdAssumption DEF HostInv, HostTypeOK, ClaimedAfterProbes, RetriesCountPackets,
        TimerFollowsState, Quiet
<1>0. host.state \in AcdStates /\ host.timeout \in Timers /\ host.retry_times \in Nat
  BY DEF Hosts
<1>1. ASSUME NEW ip \in Addresses, NEW opened \in BOOLEAN, Start(ip, opened) PROVE HostInv'
  <2>1. CASE host'.listen_on
    BY <1>1, <2>1, StartEffect DEF Start
  <2>2. CASE ~host'.listen_on
    <3>1. ~host.listen_on
      BY <1>1, <2>2, StartEffect DEF Start, Hosts
    <3>2. /\ host' \in Hosts /\ host'.state = host.state /\ host'.timeout = "none"
          /\ host'.retry_times = host.retry_times /\ host'.requested_ip = host.requested_ip
      BY <1>1, <2>2, StartEffect DEF Start
    <3>3. heard' = heard /\ callback' = "none"
      BY <1>1, <3>2 DEF Start
    <3> QED
      BY <2>2, <3>1, <3>2, <3>3
  <2> QED BY <2>1, <2>2
<1>2. CASE Stop
  BY <1>2, StopEffect DEF Stop
<1>3. ASSUME NEW opened \in BOOLEAN, ProbeTimeout(opened) PROVE HostInv'
  BY <1>0, <1>3, ProbeTimeoutEffect DEF ProbeTimeout
<1>4. CASE AnnounceTimeout
  BY <1>0, <1>4, AnnounceTimeoutEffect DEF AnnounceTimeout
<1>5. CASE DefendTimeout
  <2>1. /\ host' \in Hosts /\ host'.state = "MONITOR" /\ host'.timeout = "none"
        /\ host'.listen_on = host.listen_on /\ host'.requested_ip = host.requested_ip
    BY <1>5, Zenon DEF DefendTimeout, acd_defend_timeout, Hosts
  <2> QED
    BY <1>0, <1>5, <2>1 DEF DefendTimeout
<1>6. ASSUME NEW source \in BOOLEAN, Receive(source) PROVE HostInv'
  <2>1. CASE host.state \in {"MONITOR", "DEFEND"}
    <3>1. /\ host' \in Hosts /\ host'.state \in {host.state, "DEFEND"}
          /\ host'.listen_on = host.listen_on /\ host'.requested_ip = host.requested_ip
          /\ host'.timeout = IF host'.state = host.state THEN host.timeout ELSE "defend"
          /\ callback' \in Callbacks
      BY <1>6, <2>1, ReceiveEffect DEF Receive
    <3>2. host.listen_on
      BY <1>6 DEF Receive, Hears
    <3>3. heard' = [heard EXCEPT !.conflict = TRUE]
      BY <1>6, <3>1, <3>2 DEF Receive
    <3>4. heard' \in [probes : Nat, announces : Nat, conflict : BOOLEAN]
          /\ heard'.probes = heard.probes /\ heard'.announces = heard.announces
      BY <3>3, Zenon
    <3> QED
      BY <1>0, <2>1, <3>1, <3>2, <3>4
  <2>2. CASE host.state \in {"PROBE", "ANNOUNCE"}
    BY <1>6, <2>2, ReceiveEffect DEF Receive
  <2> QED BY <1>0, <2>1, <2>2
<1>7. CASE SocketError
  <2>1. /\ host' \in Hosts /\ host'.state = host.state /\ host'.timeout = host.timeout
        /\ host'.listen_on = host.listen_on /\ host'.retry_times = host.retry_times
        /\ host'.requested_ip = host.requested_ip
    BY <1>7, Zenon DEF SocketError, acd_listener_event_error, Hosts
  <2> QED
    BY <1>7, <2>1 DEF SocketError
<1>8. CASE UNCHANGED hostVars
  BY <1>8 DEF hostVars
<1> QED
  BY <1>1, <1>2, <1>3, <1>4, <1>5, <1>6, <1>7, <1>8 DEF HostNext

(***************************************************************************)
(* The invariant of the host, in every behaviour: type correctness, the    *)
(* meaning of retry_times and of the timer.                                *)
(***************************************************************************)
THEOREM HostInvariant == HostSpec => []HostInv
  BY HostInitHolds, HostStepHolds, PTL DEF HostSpec

(***************************************************************************)
(* acd_probe_timeout() and acd_announce_timeout() claim an address only    *)
(* after all its probes and monitor it only after all its announcements.   *)
(***************************************************************************)
THEOREM ClaimSafety == HostSpec => []ClaimedAfterProbes
<1>1. HostInv => ClaimedAfterProbes
  BY DEF HostInv
<1> QED
  BY <1>1, HostInvariant, PTL

(***************************************************************************)
(* The timer that runs is the one of the state, and a stopped host has     *)
(* none.                                                                   *)
(***************************************************************************)
THEOREM TimerSafety == HostSpec => []TimerFollowsState
<1>1. HostInv => TimerFollowsState
  BY DEF HostInv
<1> QED
  BY <1>1, HostInvariant, PTL

(***************************************************************************)
(* A step that calls back says what holds of the history: ANNOUNCE is left *)
(* for MONITOR only when retry_times has counted all announcements, and a  *)
(* conflict was heard in no state before MONITOR (RetriesCountPackets).    *)
(***************************************************************************)
LEMMA HostStepReports == HostInv /\ AvailableIsUncontested /\ [HostNext]_hostVars => AvailableIsUncontested'
<1> SUFFICES ASSUME HostInv, AvailableIsUncontested, [HostNext]_hostVars PROVE AvailableIsUncontested'
  OBVIOUS
<1>0. host \in Hosts /\ host.state \in AcdStates
  BY DEF HostInv, HostTypeOK, Hosts
<1>1. ASSUME NEW ip \in Addresses, NEW opened \in BOOLEAN, Start(ip, opened)
      PROVE  AvailableIsUncontested'
  BY <1>1 DEF Start, AvailableIsUncontested
<1>2. CASE Stop
  BY <1>2 DEF Stop, AvailableIsUncontested
<1>3. ASSUME NEW opened \in BOOLEAN, ProbeTimeout(opened) PROVE AvailableIsUncontested'
  BY <1>3 DEF ProbeTimeout, AvailableIsUncontested
<1>4. CASE AnnounceTimeout
  <2>1. host.state = "ANNOUNCE"
    BY <1>4 DEF AnnounceTimeout, HostInv, TimerFollowsState
  <2>2. /\ host.retry_times # ANNOUNCE_NUM => callback' = "none"
        /\ host.retry_times = ANNOUNCE_NUM => callback' = "available" /\ heard' = heard
    BY <1>0, <1>4, <2>1, AnnounceTimeoutEffect DEF AnnounceTimeout
  <2>3. ~heard.conflict /\ heard.announces = host.retry_times
    BY <2>1 DEF HostInv, RetriesCountPackets
  <2> QED
    BY <2>2, <2>3 DEF AvailableIsUncontested
<1>5. CASE DefendTimeout
  BY <1>5 DEF DefendTimeout, AvailableIsUncontested
<1>6. ASSUME NEW source \in BOOLEAN, Receive(source) PROVE AvailableIsUncontested'
  <2>1. callback' # "available" /\ (callback' = "lost" => host.state = "DEFEND")
    BY <1>0, <1>6, ReceiveReports DEF Receive
  <2>2. ASSUME host.state = "DEFEND"
        PROVE  host'.state = "DEFEND" /\ heard'.announces = ANNOUNCE_NUM
    <3>1. host'.state = "DEFEND" /\ host'.requested_ip = host.requested_ip
      BY <1>0, <1>6, <2>2, ReceiveEffect DEF Receive
    <3>2. host.requested_ip # NoAddress
      BY <1>6 DEF Receive, Hears, HostInv, TimerFollowsState
    <3>3. heard' = [heard EXCEPT !.conflict = TRUE]
      BY <1>6, <3>1, <3>2 DEF Receive
    <3>4. heard.announces = ANNOUNCE_NUM
      BY <2>2 DEF HostInv, ClaimedAfterProbes
    <3> QED
      BY <3>1, <3>3, <3>4 DEF HostInv, HostTypeOK
  <2> QED
    BY <2>1, <2>2 DEF AvailableIsUncontested
<1>7. CASE SocketError
  BY <1>7 DEF SocketError, AvailableIsUncontested
<1>8. CASE UNCHANGED hostVars
  BY <1>8 DEF hostVars, AvailableIsUncontested
<1> QED
  BY <1>1, <1>2, <1>3, <1>4, <1>5, <1>6, <1>7, <1>8 DEF HostNext

(***************************************************************************)
(* ipv4_available_cb() is called only for an address that nobody else was  *)
(* heard to use since its probing began, and ipv4_lost_cb() only for one   *)
(* that was defended first.                                                *)
(***************************************************************************)
THEOREM ReportSafety == HostSpec => []AvailableIsUncontested
<1>1. HostInit => AvailableIsUncontested
  BY DEF HostInit, AvailableIsUncontested
<1> QED
  BY <1>1, HostInvariant, HostStepReports, PTL DEF HostSpec

=============================================================================

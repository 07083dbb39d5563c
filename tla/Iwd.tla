---------------------------- MODULE Iwd ----------------------------
(***************************************************************************)
(* plugins/iwd.c: connecting and disconnecting the networks of one iwd     *)
(* device, and the mirror of iwd's Connected properties in the networks    *)
(* of the core.                                                            *)
(*                                                                         *)
(* iwd is the environment: it handles calls in order, connects networks of *)
(* its own accord, and its signals and replies arrive in the order they    *)
(* were sent.                                                              *)
(***************************************************************************)
EXTENDS Naturals, Sequences

CONSTANTS Networks,   \* the networks iwd may see
          Strangers,  \* networks that come and go
          MaxQueue    \* bound on the messages under way

VARIABLE s

NONE == "none"
msg(t, n, v) == [t |-> t, n |-> n, v |-> v]
call(w, t, n) == [w EXCEPT !.out = Append(@, msg(t, n, NONE))]
-------------------------------------------------------------------------------
(* A network of the core, network.c: "idle", "connecting" or "connected" *)

\* cm_network_disconnect() of the plugin, called by __connman_network_disconnect():
\* the core takes the network for disconnected at once.
cm_network_disconnect(w, n) ==
    IF w.disconnecting THEN [w EXCEPT !.net[n] = "idle"]
    ELSE [call(w, "disconnect", n) EXCEPT !.net[n] = "idle", !.disconnecting = TRUE]

connman_network_disconnect(w, n) ==
    IF w.net[n] = "idle" THEN w ELSE cm_network_disconnect(w, n)

\* An error disconnects the network.
connman_network_set_error(w, n) == connman_network_disconnect(w, n)

connman_network_set_connected(w, n, connected) ==
    IF connected THEN [w EXCEPT !.net[n] = "connected"]
    ELSE IF w.net[n] = "connecting" THEN connman_network_set_error(w, n)
    ELSE [w EXCEPT !.net[n] = "idle"]
-------------------------------------------------------------------------------
(* The plugin *)

listed(w, n) == n # NONE /\ n \in w.networks

abort_pending_network(w) ==
    [(IF listed(w, w.pending) THEN connman_network_set_error(w, w.pending) ELSE w)
        EXCEPT !.pending = NONE]

\* An error of kind "unknown" for the pending network is ignored.
cm_network_connect(w, n) ==
    IF ~w.disconnecting
    THEN [call(w, "connect", n) EXCEPT !.net[n] = "connecting", !.network = n, !.pending = NONE]
    ELSE IF w.pending = n THEN [w EXCEPT !.net[n] = "connecting"]
    ELSE [abort_pending_network(w) EXCEPT !.pending = n, !.net[n] = "connecting"]

cm_network_connect_cb(w, n, v) ==
    IF ~listed(w, n) \/ v = "InProgress" THEN w
    ELSE IF v = "ok" THEN connman_network_set_connected(w, n, TRUE)
    ELSE IF v = "Failed" \/ ~w.cm_autoconnect[n] THEN connman_network_set_error(w, n) ELSE w

update_network_disconnected(w, n) ==
    LET waiting == listed(w, w.pending)
        a == IF ~waiting \/ w.pending # n THEN connman_network_set_connected(w, n, FALSE) ELSE w
        b == [a EXCEPT !.disconnecting = FALSE]
    IN IF w.network # n THEN IF w.pending = n THEN abort_pending_network(b) ELSE b
       ELSE LET c == [b EXCEPT !.network = NONE]
            IN IF waiting THEN cm_network_connect(c, w.pending) ELSE c

\* The answer about a network that is gone is ignored ("missed"): the plugin goes on
\* waiting for the end of the disconnection.
cm_network_disconnect_cb(w, n, v) ==
    LET q == [w EXCEPT !.disconnecting = FALSE]
    IN IF ~listed(w, n) THEN [w EXCEPT !.missed = w.disconnecting]
       ELSE IF v \in {"ok", "NotConnected"} /\ w.net[n] = "connected"
            THEN update_network_disconnected(q, n) ELSE q

\* Faulty variant: the end of a connection is only mirrored when the plugin asked for it.
network_property_change_Asked(w, n, connected) ==
    IF ~listed(w, n) THEN w
    ELSE IF connected THEN connman_network_set_connected(w, n, TRUE)
    ELSE IF w.disconnecting THEN update_network_disconnected(w, n) ELSE w

network_property_change(w, n, connected) ==
    IF ~listed(w, n) THEN w
    ELSE IF connected THEN connman_network_set_connected(w, n, TRUE)
    ELSE update_network_disconnected(w, n)

create_network(w, n, connected) ==
    [w EXCEPT !.networks = @ \cup {n}, !.net[n] = IF connected THEN "connected" ELSE "idle"]

\* The core's network is disconnected and freed.
remove_network(w, n) ==
    [w EXCEPT !.networks = @ \ {n}, !.net[n] = "idle"]

\* A scan has ended: the strengths are read, which also ends the scan of the device.
station_property_change(w, scanning) ==
    IF scanning THEN [w EXCEPT !.scanning = TRUE] ELSE call(w, "ordered", NONE)

ordered_networks_cb(w) == [w EXCEPT !.scanning = FALSE]

cm_device_scan(w) == call(w, "scan", NONE)
-------------------------------------------------------------------------------
NoIwd == [conn |-> NONE, connecting |-> NONE, seen |-> Networks \ Strangers, scanning |-> FALSE]

Init == \E auto \in [Networks -> BOOLEAN] :
    s = [i |-> NoIwd, net |-> [n \in Networks |-> "idle"], networks |-> Networks \ Strangers,
         network |-> NONE, pending |-> NONE, disconnecting |-> FALSE, missed |-> FALSE,
         cm_autoconnect |-> auto,
         scanning |-> FALSE, in |-> <<>>, out |-> <<>>]

Becomes(st) == Len(st.in) + Len(st.out) <= MaxQueue /\ s' = st

tell(w, t, n, v) == [w EXCEPT !.in = Append(@, msg(t, n, v))]

\* iwd ends what it is doing, and says so.
left(w) == IF w.i.conn = NONE THEN w
           ELSE tell([w EXCEPT !.i.conn = NONE], "connected", w.i.conn, FALSE)
aborted(w) == IF w.i.connecting = NONE THEN w
              ELSE tell([w EXCEPT !.i.connecting = NONE], "connect", w.i.connecting, "Aborted")

handles(t) == s.out # <<>> /\ Head(s.out).t = t
called == Head(s.out).n
handled == [s EXCEPT !.out = Tail(@)]

IwdConnects == handles("connect") /\
    \/ Becomes(tell(handled, "connect", called, "InProgress")) /\ s.i.connecting = called
    \/ called \notin s.i.seen /\ Becomes(tell(handled, "connect", called, "NotFound"))
    \/ /\ called \in s.i.seen /\ s.i.connecting # called
       /\ Becomes([left(aborted(handled)) EXCEPT !.i.connecting = called])

IwdDisconnects == handles("disconnect") /\
    IF s.i.conn = NONE /\ s.i.connecting = NONE
    THEN Becomes(tell(handled, "disconnect", called, "NotConnected"))
    ELSE Becomes(tell(left(aborted(handled)), "disconnect", called, "ok"))

IwdScans == handles("scan") /\
    \/ s.i.scanning /\ Becomes(handled)
    \/ ~s.i.scanning /\ Becomes(tell([handled EXCEPT !.i.scanning = TRUE], "scanning", NONE, TRUE))

IwdOrders == handles("ordered") /\ Becomes(tell(handled, "ordered", NONE, NONE))

ScanEnds == s.i.scanning /\ Becomes(tell([s EXCEPT !.i.scanning = FALSE], "scanning", NONE, FALSE))

ConnectEnds == s.i.connecting # NONE /\ LET n == s.i.connecting
                                            q == [s EXCEPT !.i.connecting = NONE] IN
    \/ Becomes(tell(q, "connect", n, "Failed"))
    \/ Becomes(tell(tell([q EXCEPT !.i.conn = n], "connected", n, TRUE), "connect", n, "ok"))

ConnectionLost == s.i.conn # NONE /\ Becomes(left(s))

IwdRoams == \E n \in s.i.seen :
    /\ s.i.conn = NONE /\ s.i.connecting = NONE /\ s.cm_autoconnect[n]
    /\ Becomes(tell([s EXCEPT !.i.conn = n], "connected", n, TRUE))

NetworkAppears == \E n \in Networks \ s.i.seen :
    Becomes(tell([s EXCEPT !.i.seen = @ \cup {n}], "added", n, FALSE))

NetworkVanishes == \E n \in s.i.seen \cap Strangers :
    /\ n # s.i.conn /\ n # s.i.connecting
    /\ Becomes(tell([s EXCEPT !.i.seen = @ \ {n}], "removed", n, FALSE))

\* The plugin reads the oldest message.
reads(t) == s.in # <<>> /\ Head(s.in).t = t
got == Head(s.in)
rest == [s EXCEPT !.in = Tail(@)]

ConnectedChanged ==
    reads("connected") /\ Becomes(network_property_change(rest, got.n, got.v))
ConnectReply == reads("connect") /\ Becomes(cm_network_connect_cb(rest, got.n, got.v))
DisconnectReply == reads("disconnect") /\ Becomes(cm_network_disconnect_cb(rest, got.n, got.v))
NetworkAdded == reads("added") /\ Becomes(create_network(rest, got.n, got.v))
NetworkRemoved == reads("removed") /\ Becomes(remove_network(rest, got.n))
ScanningChanged == reads("scanning") /\ Becomes(station_property_change(rest, got.v))
OrderedReply == reads("ordered") /\ Becomes(ordered_networks_cb(rest))

\* The core
Connect == \E n \in s.networks :
    s.net[n] = "idle" /\ Becomes(cm_network_connect(s, n))
Disconnect == \E n \in s.networks :
    s.net[n] # "idle" /\ Becomes(connman_network_disconnect(s, n))
\* To bound the messages under way, only when iwd has handled all calls.
Scan == s.out = <<>> /\ Becomes(cm_device_scan(s))

\* A behaviour is followed until the end of a disconnection is missed: no property
\* speaks of what comes after it.
Next == ~s.missed /\
        (\/ IwdConnects \/ IwdDisconnects \/ IwdScans \/ IwdOrders \/ ScanEnds \/ ConnectEnds
         \/ ConnectionLost \/ IwdRoams \/ NetworkAppears \/ NetworkVanishes \/ ConnectedChanged
         \/ ConnectReply \/ DisconnectReply \/ NetworkAdded \/ NetworkRemoved \/ ScanningChanged
         \/ OrderedReply \/ Connect \/ Disconnect \/ Scan)

Spec == Init /\ [][Next]_s
-------------------------------------------------------------------------------
Quiet == s.in = <<>> /\ s.out = <<>> /\ s.i.connecting = NONE

\* When nothing is under way, the core takes a network for connected exactly if iwd
\* is connected to it, whatever calls, failures, removals and roaming went before, and
\* the plugin waits for no disconnection; unless it missed the end of one because the
\* network was gone.
MirrorsIwd ==
    Quiet /\ ~s.missed => /\ \A n \in Networks : s.net[n] = "connected" <=> s.i.conn = n
                          /\ ~s.disconnecting

-----------------------------------------------------------------------------
(***************************************************************************)
(* plugins/iwd.c, "Managing autoconnect state": the core's autoconnect of  *)
(* a network is copied to iwd's AutoConnect of the known network, which    *)
(* appears after the network and before the network names it.  Changes are *)
(* made from a timeout, not from within the signal that calls for them.    *)
(***************************************************************************)


NoKnown == [here |-> FALSE, iwd_auto_connect |-> FALSE, cm_autoconnect |-> FALSE,
            auto_connect_id |-> NONE]

\* enable_auto_connect() and disable_auto_connect() keep a timer that runs already.
update_auto_connect(w) ==
    IF w.kn.iwd_auto_connect = w.kn.cm_autoconnect \/ w.kn.auto_connect_id # NONE THEN w
    ELSE [w EXCEPT !.kn.auto_connect_id = IF w.kn.cm_autoconnect THEN "enable" ELSE "disable"]

set_auto_connect(w, on) ==
    IF w.kn.iwd_auto_connect = on THEN w ELSE [w EXCEPT !.out = Append(@, on)]

\* disable_auto_connect_cb() and enable_auto_connect_cb()
auto_connect_cb(w, on) == [set_auto_connect(w, on) EXCEPT !.kn.auto_connect_id = NONE]

cm_network_set_autoconnect(w, on) ==
    LET q == [w EXCEPT !.cm_autoconnect = on]
    IN IF ~w.known_network \/ ~w.kn.here THEN q
       ELSE update_auto_connect([q EXCEPT !.kn.cm_autoconnect = on])

\* Faulty variant: what the core has chosen is not passed to the known network.
network_known_change_NoCopy(w, known) == [w EXCEPT !.known_network = known]

\* The network names its known network, or names it no longer.
network_known_change(w, known) ==
    LET q == [w EXCEPT !.known_network = known]
    IN IF ~known \/ ~w.kn.here THEN q
       ELSE update_auto_connect([q EXCEPT !.kn.cm_autoconnect = w.cm_autoconnect])

known_network_property_change(w, on) ==
    IF ~w.kn.here THEN w ELSE update_auto_connect([w EXCEPT !.kn.iwd_auto_connect = on])

init_auto_connect(w) ==
    IF ~w.known_network THEN w
    ELSE update_auto_connect([w EXCEPT !.kn.cm_autoconnect = w.cm_autoconnect])

create_known_network(w, on) ==
    init_auto_connect([w EXCEPT !.kn = [NoKnown EXCEPT !.here = TRUE, !.iwd_auto_connect = on]])

\* The timer goes with the known network.
known_network_free(w) == [w EXCEPT !.kn = NoKnown]
-------------------------------------------------------------------------------
\* At start iwd may know the network already.
KnownInit == \E on, known \in BOOLEAN :
    s = [i |-> [known |-> known, auto |-> TRUE], kn |-> NoKnown, known_network |-> known,
         cm_autoconnect |-> on, out |-> <<>>,
         in |-> IF known THEN <<[t |-> "added", v |-> TRUE]>> ELSE <<>>]

known_tell(w, t, v) == [w EXCEPT !.in = Append(@, [t |-> t, v |-> v])]

\* iwd gets to know the network when it is connected for the first time, and forgets it.
Learns == ~s.i.known /\
    Becomes(known_tell(known_tell([s EXCEPT !.i = [known |-> TRUE, auto |-> TRUE]], "added", TRUE),
                 "names", TRUE))
Forgets == s.i.known /\
    Becomes(known_tell(known_tell([s EXCEPT !.i = [known |-> FALSE, auto |-> FALSE]], "names", FALSE),
                 "removed", FALSE))
IwdSets == s.out # <<>> /\ LET q == [s EXCEPT !.out = Tail(@)]
                               on == Head(s.out) IN
    IF ~s.i.known \/ s.i.auto = on THEN Becomes(q)
    ELSE Becomes(known_tell([q EXCEPT !.i.auto = on], "auto", on))

Settled == s.in = <<>> /\ s.out = <<>> /\ s.kn.auto_connect_id = NONE

KnownAdded == reads("added") /\ Becomes(create_known_network(rest, Head(s.in).v))
KnownRemoved == reads("removed") /\ Becomes(known_network_free(rest))
KnownNamed == reads("names") /\ Becomes(network_known_change(rest, Head(s.in).v))
AutoConnectChanged ==
    reads("auto") /\ Becomes(known_network_property_change(rest, Head(s.in).v))
AutoConnectTimer == s.kn.auto_connect_id # NONE /\
    Becomes(auto_connect_cb(s, s.kn.auto_connect_id = "enable"))

\* Changes that follow so fast that a change is still under way are left out: a timer
\* for the earlier one is kept, and the last change may be lost.
SetAutoConnect == Settled /\ Becomes(cm_network_set_autoconnect(s, ~s.cm_autoconnect))

KnownNext == Learns \/ Forgets \/ IwdSets \/ KnownAdded \/ KnownRemoved \/ KnownNamed
        \/ AutoConnectChanged \/ AutoConnectTimer \/ SetAutoConnect

KnownSpec == KnownInit /\ [][KnownNext]_s
-------------------------------------------------------------------------------
\* When no call, signal or timer is under way, iwd connects a network that it knows
\* by itself exactly if the service of the network is to be connected automatically.
AutoConnectAgrees == Settled /\ s.i.known => s.i.auto = s.cm_autoconnect

-----------------------------------------------------------------------------
(***************************************************************************)
(* plugins/iwd.c: tethering.  The device is switched to the mode "ap", the *)
(* access point object that appears is started, and when it says that it   *)
(* has started its interface joins the bridge.                             *)
(***************************************************************************)


ap_call(w, t) == [w EXCEPT !.out = Append(@, t)]

\* The interface leaves the bridge before its mode is set; one that is not in the
\* bridge cannot.
cm_change_tethering(w, enabled) ==
    IF enabled THEN ap_call(w, "ap")
    ELSE IF ~w.bridged THEN w
    ELSE ap_call([w EXCEPT !.bridged = FALSE], "station")

\* A station is made an access point, and an access point a station.
cm_tech_tethering(w, enabled) ==
    IF w.mode = (IF enabled THEN "station" ELSE "ap")
    THEN cm_change_tethering([w EXCEPT !.wanted = enabled], enabled) ELSE w

tech_enable_tethering_cb(w, ok) ==
    IF ~ok \/ ~w.ap.here THEN w ELSE ap_call([w EXCEPT !.ap.index = TRUE], "start")

tech_disable_tethering_cb(w, ok) ==
    LET q == [w EXCEPT !.tethering = FALSE]
    IN IF ~ok THEN w
       ELSE IF ~w.ap.here THEN q ELSE ap_call([q EXCEPT !.ap.index = FALSE], "stop")

tech_ap_start_cb(w, ok) == IF ok THEN w ELSE cm_change_tethering(w, FALSE)

\* Faulty variant: any access point that starts is bridged.
ap_property_change_Any(w, started) ==
    LET q == [w EXCEPT !.ap.started = started]
    IN IF started THEN [q EXCEPT !.tethering = TRUE, !.bridged = TRUE] ELSE q

\* The access point is the plugin's if it has noted the index of the interface.  The
\* end of one is only noted.
ap_property_change(w, started) ==
    LET q == [w EXCEPT !.ap.started = started]
    IN IF w.ap.here /\ started /\ w.ap.index
       THEN [q EXCEPT !.tethering = TRUE, !.bridged = TRUE] ELSE q

create_ap(w) == [w EXCEPT !.ap = [here |-> TRUE, index |-> FALSE, started |-> FALSE]]
ap_free(w) == [w EXCEPT !.ap = [here |-> FALSE, index |-> FALSE, started |-> FALSE]]
device_property_change(w, mode) == [w EXCEPT !.mode = mode]
-------------------------------------------------------------------------------
ApInit == s = [i |-> [mode |-> "station", started |-> FALSE], mode |-> "station",
             ap |-> [here |-> FALSE, index |-> FALSE, started |-> FALSE],
             tethering |-> FALSE, bridged |-> FALSE, wanted |-> FALSE, in |-> <<>>, out |-> <<>>]

ap_tell(w, t, v) == [w EXCEPT !.in = Append(@, [t |-> t, v |-> v])]

\* iwd: the objects of the new mode are announced before the call is answered.
switched(w, mode) ==
    ap_tell(ap_tell([w EXCEPT !.i = [mode |-> mode, started |-> FALSE]], "mode", mode), "object", mode)

IwdSetsMode == s.out # <<>> /\ Head(s.out) \in {"ap", "station"} /\
    LET q == [s EXCEPT !.out = Tail(@)]
        mode == Head(s.out)
    IN \/ Becomes(ap_tell(q, mode, "failed"))
       \/ Becomes(ap_tell(switched(q, mode), mode, "ok"))

IwdStarts == s.out # <<>> /\ Head(s.out) \in {"start", "stop"} /\
    LET q == [s EXCEPT !.out = Tail(@)]
    IN \/ Becomes(ap_tell(q, Head(s.out), "failed"))
       \/ /\ s.i.mode = "ap" /\ ~s.i.started /\ Head(s.out) = "start"
          /\ Becomes(ap_tell(ap_tell([q EXCEPT !.i.started = TRUE], "started", "ok"), "start", "ok"))

\* Another client of iwd uses the device as an access point of its own.
OthersSwitch == s.i.mode = "station" /\ s.mode = "station" /\ s.out = <<>> /\ ~s.wanted
                /\ Becomes(switched(s, "ap"))
OthersStart == /\ s.i.mode = "ap" /\ ~s.i.started /\ ~s.wanted /\ ~s.ap.index
               /\ Becomes(ap_tell([s EXCEPT !.i.started = TRUE], "started", "ok"))

\* The access point ends, of its own accord or by another client.
ApStops == s.i.started /\ Becomes(ap_tell([s EXCEPT !.i.started = FALSE], "started", "stopped"))

ap_got == Head(s.in).v
ModeChanged == reads("mode") /\ Becomes(device_property_change(rest, ap_got))
ObjectsChanged == reads("object") /\ Becomes(IF ap_got = "ap" THEN create_ap(rest) ELSE ap_free(rest))
Started == reads("started") /\ Becomes(ap_property_change(rest, ap_got = "ok"))
EnableReply == reads("ap") /\ Becomes(tech_enable_tethering_cb(rest, ap_got = "ok"))
DisableReply == reads("station") /\ Becomes(tech_disable_tethering_cb(rest, ap_got = "ok"))
StartReply == reads("start") /\ Becomes(tech_ap_start_cb(rest, ap_got = "ok"))
SetTethering == s.out = <<>> /\ s.in = <<>> /\ Becomes(cm_tech_tethering(s, ~s.wanted))

ApNext == IwdSetsMode \/ IwdStarts \/ ApStops \/ OthersSwitch \/ OthersStart \/ ModeChanged \/ ObjectsChanged
        \/ Started \/ EnableReply \/ DisableReply \/ StartReply \/ SetTethering

ApSpec == ApInit /\ [][ApNext]_s
-------------------------------------------------------------------------------
\* An interface is in the bridge, and the technology told so, only after tethering was
\* asked for.  When nothing is under way it is in the bridge if tethering is asked for
\* and the access point of the plugin is started, and only while the device is an access
\* point: that iwd has ended it is not mirrored.
BridgedIsStarted ==
    /\ s.bridged => s.wanted /\ s.tethering
    /\ s.in = <<>> /\ s.out = <<>> =>
         /\ s.bridged => s.i.mode = "ap" /\ s.ap.index
         /\ s.wanted /\ s.i.started /\ s.ap.index => s.bridged

=============================================================================

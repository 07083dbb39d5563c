---------------------------- MODULE Ofono ----------------------------
(***************************************************************************)
(* plugins/ofono.c: the mirror of a modem of oFono, its connection manager *)
(* and its contexts, as a device and its networks.                         *)
(*                                                                         *)
(* oFono is the environment: it changes, signals what changed and answers  *)
(* calls in the order in which they came.  Signals and replies reach the   *)
(* plugin in the order they were sent; what the plugin asked for may be    *)
(* outdated when the answer is read.                                       *)
(***************************************************************************)
EXTENDS Naturals, Sequences, SequencesExt

CONSTANTS Calm,          \* oFono changes nothing that is being asked for, and dundee is asked
                         \* for one thing at a time
          MaxChanges,    \* bound on the changes of oFono's state
          MaxQueue       \* bound on the messages under way in each direction

VARIABLE s

NONE == "none"

\* What a context is for: an address given by oFono, DHCP beside IPv6, or IPv6 alone.
Kinds == {[v4 |-> "fixed", v6 |-> "off"], [v4 |-> "dhcp", v6 |-> "auto"],
          [v4 |-> "off", v6 |-> "auto"]}
NoKind == [v4 |-> "unknown", v6 |-> "unknown"]
NoContext == [path |-> FALSE, apn |-> FALSE, active |-> FALSE, kind |-> NoKind]
network_context_alloc == [apn |-> FALSE, active |-> FALSE, net |-> FALSE, conn |-> FALSE, late |-> FALSE,
                          roaming |-> FALSE, method |-> NoKind, index |-> FALSE, addr |-> FALSE,
                          ip |-> NoKind]
NoModem == [here |-> FALSE, powered |-> FALSE, online |-> FALSE, ifaces |-> {}, imsi |-> FALSE,
            attached |-> FALSE, cm_powered |-> TRUE, roaming |-> FALSE, ctx |-> NoContext]
NoData == [here |-> FALSE, set_powered |-> FALSE, online |-> FALSE, ifaces |-> {},
           imsi |-> FALSE, attached |-> FALSE, roaming |-> FALSE, device |-> FALSE,
           dev_powered |-> FALSE, contexts |-> <<>>, get |-> NONE, set |-> FALSE, list |-> FALSE]

msg(t, v) == [t |-> t, v |-> v]
-------------------------------------------------------------------------------
(* Calls.  w.out holds the calls that oFono has not handled, w.in what it sent. *)

send(w, call) == [w EXCEPT !.out = Append(@, call)]

cancelled(w, t) ==
    [w EXCEPT !.in = SelectSeq(@, LAMBDA r : r.t # t),
              !.out = [i \in DOMAIN @ |-> IF @[i].t = t THEN [@[i] EXCEPT !.t = "silent"] ELSE @[i]]]

\* A call that sets a property replaces the one before it.
set_property(w, property) ==
    send([cancelled(w, "set") EXCEPT !.m.set = TRUE], msg("set", property))

get_properties(w, interface) ==
    IF w.m.get # NONE THEN w
    ELSE send([w EXCEPT !.m.get = interface], msg("get", interface))

cm_get_contexts(w) ==
    IF w.m.list THEN w ELSE send([w EXCEPT !.m.list = TRUE], msg("list", "cm"))

cm_get(w) == cm_get_contexts(get_properties(w, "cm"))
-------------------------------------------------------------------------------
(* Networks of contexts *)

wanted(w, c) == c.apn /\ w.m.attached /\ "netreg" \in w.m.ifaces

\* "late" marks a network that is added although it is not wanted (any more).
add_network(w, c) ==
    IF c.net THEN c
    ELSE [c EXCEPT !.net = TRUE, !.conn = FALSE, !.roaming = w.m.roaming, !.late = ~wanted(w, c)]

remove_network(c) == [c EXCEPT !.net = FALSE, !.conn = FALSE, !.ip = NoKind, !.late = FALSE]

\* Settings that name no interface only forget the address.
extract_ipv4_settings(c, on, kind) ==
    IF kind.v4 = "off" THEN c
    ELSE IF ~on THEN [c EXCEPT !.addr = FALSE]
    ELSE [c EXCEPT !.method.v4 = kind.v4, !.index = TRUE, !.addr = kind.v4 = "fixed"]

extract_ipv6_settings(c, on, kind) ==
    IF kind.v6 = "off" \/ ~on THEN c ELSE [c EXCEPT !.method.v6 = "auto", !.index = TRUE]

settings(c, on, kind) == extract_ipv6_settings(extract_ipv4_settings(c, on, kind), on, kind)

\* The method of a protocol that the context is not for is "off".
allowed(method, k) == IF k = "off" THEN "off" ELSE IF method = "off" THEN "unknown" ELSE method

set_context_ipconfig(c, kind) ==
    [c EXCEPT !.method = [v4 |-> allowed(@.v4, kind.v4), v6 |-> allowed(@.v6, kind.v6)],
              !.addr = @ /\ kind.v4 # "off"]

set_connected(c) ==
    IF ~c.net \/ ~c.index \/ (c.method.v4 = "fixed" /\ ~c.addr) THEN c
    ELSE [c EXCEPT !.ip = c.method,
                   !.conn = @ \/ c.method.v4 \in {"fixed", "dhcp"} \/ c.method.v6 = "auto"]

set_disconnected(c) ==
    [c EXCEPT !.conn = FALSE,
              !.method = [v4 |-> IF @.v4 = "off" THEN "off" ELSE "unknown",
                          v6 |-> IF @.v6 = "off" THEN "off" ELSE "unknown"]]

add_cm_context(w, ctx) ==
    LET c == settings([network_context_alloc EXCEPT !.apn = ctx.apn, !.active = ctx.active],
                      ctx.active, ctx.kind)
        d == set_context_ipconfig(c, ctx.kind)
    IN [w EXCEPT !.m.contexts = <<IF wanted(w, d) THEN add_network(w, d) ELSE d>> \o @]

remove_all_networks(w) ==
    [w EXCEPT !.m.contexts = [i \in DOMAIN @ |-> remove_network(@[i])]]

remove_all_contexts(w) == [w EXCEPT !.m.contexts = <<>>]

try_create_device(w) ==
    IF w.m.device \/ ~w.m.imsi \/ (w.lte /\ "lte" \notin w.m.ifaces) THEN w
    ELSE LET q == [w EXCEPT !.m.device = TRUE, !.m.dev_powered = w.m.online]
         IN IF "cm" \in w.m.ifaces THEN cm_get(q) ELSE q
-------------------------------------------------------------------------------
(* What the plugin reads *)

cm_update_attached(w, attached) ==
    LET q == [w EXCEPT !.m.attached = attached]
    IN IF ~attached THEN remove_all_networks(q)
       ELSE IF "netreg" \in w.m.ifaces THEN get_properties(q, "netreg") ELSE q

netreg_update_status(w, roaming) ==
    [w EXCEPT !.m.roaming = roaming,
              !.m.contexts = IF roaming = w.m.roaming THEN @
                             ELSE [i \in DOMAIN @ |-> IF @[i].net THEN [@[i] EXCEPT !.roaming = roaming]
                                                      ELSE @[i]]]

\* Faulty variant: a context that was active before is not connected.
netreg_properties_reply_Idle(w, v) ==
    LET q == netreg_update_status(w, v.roaming)
    IN [q EXCEPT !.m.contexts = [i \in DOMAIN @ |-> IF @[i].apn THEN add_network(q, @[i]) ELSE @[i]]]

\* Networks are added whatever has become of the attachment in the meantime.
netreg_properties_reply(w, v) ==
    LET q == netreg_update_status(w, v.roaming)
        added(c) == IF c.apn THEN add_network(q, c) ELSE c
    IN [q EXCEPT !.m.contexts =
            [i \in DOMAIN @ |-> IF @[i].active THEN set_connected(added(@[i])) ELSE added(@[i])]]

cm_update_powered(w, powered) == IF powered THEN w ELSE set_property(w, "cm_powered")

cm_changed(w, v) == IF v.key = "attached" THEN cm_update_attached(w, v.on)
                    ELSE cm_update_powered(w, v.on)

cm_properties_reply(w, v) == cm_update_powered(cm_update_attached(w, v.attached), v.cm_powered)

sim_properties_reply(w, v) ==
    LET q == [w EXCEPT !.m.imsi = v.imsi \/ @]
        r == try_create_device(q)
    IN IF v.imsi /\ r.m.device # w.m.device /\ w.m.online /\ "cm" \in w.m.ifaces
       THEN cm_get(r) ELSE IF v.imsi THEN r ELSE w

\* The interfaces were "old" before.
modem_update_interfaces(w, old) ==
    LET added(i) == i \in w.m.ifaces \ old
        removed(i) == i \in old \ w.m.ifaces
        a == IF added("sim") /\ ~w.m.imsi /\ ~w.m.set_powered THEN get_properties(w, "sim") ELSE w
        b == IF added("cm") /\ w.m.device THEN cm_get(a) ELSE a
        c == IF added("netreg") /\ w.m.attached THEN get_properties(b, "netreg") ELSE b
        d == IF added("lte") THEN try_create_device(c) ELSE c
        e == IF removed("cm")
             THEN remove_all_contexts([cancelled(d, "list") EXCEPT !.m.list = FALSE]) ELSE d
    IN IF removed("netreg") THEN remove_all_networks(e) ELSE e

modem_set_powered(w) == set_property([w EXCEPT !.m.set_powered = TRUE], "powered")

add_modem(w, v) ==
    LET q == [w EXCEPT !.m = [NoData EXCEPT !.here = TRUE, !.online = v.online,
                                            !.ifaces = v.ifaces]]
    IN IF w.m.here THEN w
       ELSE IF ~v.powered THEN modem_set_powered(q)
       ELSE modem_update_interfaces(q, {})

remove_modem(w) ==
    [cancelled(cancelled(cancelled(w, "set"), "get"), "list") EXCEPT !.m = NoData]

modem_changed(w, v) ==
    CASE v.key = "powered" -> [w EXCEPT !.m.set_powered = v.on]
      [] v.key = "online" -> [w EXCEPT !.m.online = v.on,
                                       !.m.dev_powered = IF w.m.device THEN v.on ELSE @]
      [] v.key = "ifaces" -> modem_update_interfaces([w EXCEPT !.m.ifaces = v.on], w.m.ifaces)

sim_changed(w) == try_create_device([w EXCEPT !.m.imsi = TRUE])

\* The most recent entry of the context's path.
context_changed(w, v) ==
    LET c == w.m.contexts[1]
        activated == [c EXCEPT !.active = v.on]
        named == [c EXCEPT !.apn = v.on]
    IN IF w.m.contexts = <<>> THEN w
       ELSE [w EXCEPT !.m.contexts[1] =
           IF v.key = "settings" THEN settings(c, v.on, v.kind)
           ELSE IF v.key = "protocol" THEN set_context_ipconfig(c, v.kind)
           ELSE IF v.key = "active" THEN IF v.on THEN set_connected(activated) ELSE set_disconnected(activated)
           ELSE IF ~v.on THEN remove_network(named)
           ELSE IF ~wanted(w, named) \/ c.net THEN named
           ELSE IF c.active THEN set_connected(add_network(w, named)) ELSE add_network(w, named)]

cm_context_removed(w) ==
    IF w.m.contexts = <<>> THEN w ELSE [w EXCEPT !.m.contexts = Tail(@)]

modem_set_online(w, online) == set_property(w, IF online THEN "online" ELSE "offline")

network_connect(w, active) == set_property(w, IF active THEN "active" ELSE "inactive")
-------------------------------------------------------------------------------
Init == \E lte \in BOOLEAN : s = [lte |-> lte, o |-> NoModem, m |-> NoData, in |-> <<>>, out |-> <<>>,
                                   changes |-> 0]

Becomes(st) == /\ Len(st.in) <= MaxQueue /\ Len(st.out) <= MaxQueue
               /\ st.changes <= MaxChanges
               /\ s' = st

signal(w, o, t, v) == [w EXCEPT !.o = o, !.in = Append(@, msg(t, v))]
changed(o, t, v) == Becomes([signal(s, o, t, v) EXCEPT !.changes = @ + 1])
key(k, on) == [key |-> k, on |-> on]

\* oFono
ModemAppears == \E powered, imsi \in BOOLEAN, ifaces \in {{}, {"sim"}, {"sim", "cm", "netreg"}} :
    /\ ~s.o.here
    /\ ifaces # {} => powered
    /\ LET o == [NoModem EXCEPT !.here = TRUE, !.powered = powered, !.online = powered,
                                !.ifaces = ifaces, !.imsi = imsi]
       IN changed(o, "modem+", o)

ModemVanishes == s.o.here /\ changed(NoModem, "modem-", NoModem)

InterfacesChange == \E i \in {"sim", "cm", "netreg"} \cup (IF s.lte THEN {"lte"} ELSE {}) :
    LET ifaces == IF i \in s.o.ifaces THEN s.o.ifaces \ {i} ELSE s.o.ifaces \cup {i}
        o == [s.o EXCEPT !.ifaces = ifaces,
                         !.attached = @ /\ "cm" \in ifaces,
                         !.ctx = IF "cm" \in ifaces THEN @ ELSE NoContext]
    IN /\ s.o.powered
       /\ changed(o, "modem", key("ifaces", ifaces))

PowerChanges == \E k \in {"powered", "online"} :
    LET o == IF k = "powered" THEN [s.o EXCEPT !.powered = ~@] ELSE [s.o EXCEPT !.online = ~@]
    IN s.o.here /\ s.o.ifaces = {} /\ changed(o, "modem", key(k, o[k]))

SimRead == "sim" \in s.o.ifaces /\ ~s.o.imsi /\ changed([s.o EXCEPT !.imsi = TRUE], "sim", NONE)

AttachedChanges ==
    /\ "cm" \in s.o.ifaces
    /\ changed([s.o EXCEPT !.attached = ~@], "cm", key("attached", ~s.o.attached))

CmPowerFails ==
    /\ "cm" \in s.o.ifaces /\ s.o.cm_powered
    /\ changed([s.o EXCEPT !.cm_powered = FALSE], "cm", key("cm_powered", FALSE))

RoamingChanges ==
    /\ "netreg" \in s.o.ifaces
    /\ changed([s.o EXCEPT !.roaming = ~@], "netreg", ~s.o.roaming)

ContextAppears == \E apn \in BOOLEAN, kind \in Kinds :
    LET c == [path |-> TRUE, apn |-> apn, active |-> FALSE, kind |-> kind]
    IN /\ "cm" \in s.o.ifaces /\ ~s.o.ctx.path
       /\ changed([s.o EXCEPT !.ctx = c], "context+", c)

ContextVanishes == s.o.ctx.path /\ changed([s.o EXCEPT !.ctx = NoContext], "context-", NONE)

contextKey(k, on, kind) == [key |-> k, on |-> on, kind |-> kind]

\* The settings are signalled before the activity.
activity(w, on) ==
    LET o == [w.o EXCEPT !.ctx.active = on]
    IN signal(signal(w, o, "context", contextKey("settings", on, o.ctx.kind)), o, "context",
              contextKey("active", on, o.ctx.kind))

ContextChanges == s.o.ctx.path /\
    \/ changed([s.o EXCEPT !.ctx.apn = ~@], "context",
               contextKey("apn", ~s.o.ctx.apn, s.o.ctx.kind))
    \/ Becomes([activity(s, ~s.o.ctx.active) EXCEPT !.changes = @ + 1])
    \/ \E kind \in Kinds \ {s.o.ctx.kind} :
          /\ ~s.o.ctx.active
          /\ changed([s.o EXCEPT !.ctx.kind = kind], "context", contextKey("protocol", FALSE, kind))

\* oFono handles the oldest call.
answer(w, o, call, v) ==
    IF call.t = "silent" THEN [w EXCEPT !.o = o] ELSE signal(w, o, call.t, v)

OfonoGets == s.out # <<>> /\ LET call == Head(s.out) IN
    /\ call.v \in {"sim", "cm", "netreg"}
    /\ Becomes(answer([s EXCEPT !.out = Tail(@)], s.o, call,
                      [ok |-> call.v \in s.o.ifaces, o |-> s.o]))

OfonoSets == s.out # <<>> /\ LET call == Head(s.out)
                                 q == [s EXCEPT !.out = Tail(@)]
                                 on == call.v = "active" IN
    /\ call.v \notin {"sim", "cm", "netreg"}
    /\ \/ Becomes(answer(q, s.o, call, FALSE))
       \/ /\ call.v = "powered" /\ s.o.here /\ ~s.o.powered
          /\ LET p == [s.o EXCEPT !.powered = TRUE]
             IN Becomes(answer(signal(q, p, "modem", key("powered", TRUE)), p, call, TRUE))
       \/ /\ call.v = "cm_powered" /\ ~s.o.cm_powered
          /\ LET p == [s.o EXCEPT !.cm_powered = TRUE]
             IN Becomes(answer(signal(q, p, "cm", key("cm_powered", TRUE)), p, call, TRUE))
       \/ /\ call.v \in {"online", "offline"} /\ s.o.here /\ s.o.online # (call.v = "online")
          /\ LET p == [s.o EXCEPT !.online = ~@]
             IN Becomes(answer(signal(q, p, "modem", key("online", p.online)), p, call, TRUE))
       \/ /\ call.v \in {"active", "inactive"} /\ s.o.ctx.path /\ s.o.ctx.active # on
          /\ LET p == activity(q, on) IN Becomes(answer(p, p.o, call, TRUE))

\* The plugin reads the oldest message.
reads(t) == s.in # <<>> /\ Head(s.in).t = t
rest == [s EXCEPT !.in = Tail(@)]
v0 == Head(s.in).v

\* Calm leaves out a context that is announced both by a signal and in the list, or before
\* there is a device; and an interface that appears while the properties of another one
\* are being read, whose own are then not asked for.
Expected(p) == Calm => p

ModemAdded == reads("modem+") /\ Becomes(add_modem(rest, v0))
ModemRemoved == reads("modem-") /\ Becomes(remove_modem(rest))
ModemChanged == reads("modem") /\
    Expected(v0.key = "ifaces" /\ s.m.get # NONE => v0.on \subseteq s.m.ifaces \cup {s.m.get}) /\
    Becomes(IF s.m.here THEN modem_changed(rest, v0) ELSE rest)
SimChanged == reads("sim") /\ Becomes(IF s.m.here THEN sim_changed(rest) ELSE rest)
CmChanged == reads("cm") /\ Becomes(IF s.m.here THEN cm_changed(rest, v0) ELSE rest)
NetregChanged ==
    reads("netreg") /\ Becomes(IF s.m.here THEN netreg_update_status(rest, v0) ELSE rest)
ContextAdded == reads("context+") /\ Expected(s.m.contexts = <<>> /\ s.m.device) /\
    Becomes(IF s.m.here THEN add_cm_context(rest, v0) ELSE rest)
ContextRemoved == reads("context-") /\ Becomes(cm_context_removed(rest))
ContextChanged == reads("context") /\ Becomes(context_changed(rest, v0))
PropertiesReply == reads("get") /\ Expected(s.m.get = "netreg" => s.m.device) /\
    LET q == [rest EXCEPT !.m.get = NONE]
    IN Becomes(CASE ~v0.ok -> q
                 [] s.m.get = "sim" -> sim_properties_reply(q, v0.o)
                 [] s.m.get = "cm" -> cm_properties_reply(q, v0.o)
                 [] s.m.get = "netreg" -> netreg_properties_reply(q, v0.o))
ContextsReply == reads("list") /\ Expected(s.m.contexts = <<>>) /\
    LET q == [rest EXCEPT !.m.list = FALSE]
    IN Becomes(IF v0.ok /\ v0.o.ctx.path THEN add_cm_context(q, v0.o.ctx) ELSE q)
SetReply == reads("set") /\ Becomes([rest EXCEPT !.m.set = FALSE])

\* The service of a network is connected or disconnected.
Connect == \E active \in BOOLEAN :
    /\ s.m.contexts # <<>> /\ s.m.contexts[1].net /\ "cm" \in s.m.ifaces
    /\ s.m.contexts[1].active # active /\ ~s.m.set
    /\ Becomes(network_connect(s, active))

\* The technology is enabled or disabled.
Enable == \E online \in BOOLEAN :
    s.m.device /\ s.m.online # online /\ ~s.m.set /\ Becomes(modem_set_online(s, online))

\* oFono leaves the bus and comes back: the modems are asked for again.
OfonoRestarts == Becomes([remove_modem(s) EXCEPT !.o = NoModem, !.in = <<>>, !.out = <<>>])

Next == ModemAppears \/ ModemVanishes \/ InterfacesChange \/ PowerChanges \/ SimRead
        \/ AttachedChanges \/ CmPowerFails \/ RoamingChanges \/ ContextAppears \/ ContextVanishes
        \/ ContextChanges \/ OfonoGets \/ OfonoSets \/ ModemAdded \/ ModemRemoved
        \/ ModemChanged \/ SimChanged \/ CmChanged \/ NetregChanged \/ ContextAdded
        \/ ContextRemoved \/ ContextChanged \/ PropertiesReply \/ ContextsReply \/ SetReply
        \/ Connect \/ Enable \/ OfonoRestarts

Spec == Init /\ [][Next]_s
-------------------------------------------------------------------------------
\* Nothing is under way between oFono and the plugin.
Quiet == s.in = <<>> /\ s.out = <<>>

\* When nothing is under way, a context that the plugin knows has a network if it has
\* an access point name, the modem is attached and there is a network registration, and
\* only then, unless the answer of a registration that was asked for before brought it
\* back.  The network is connected exactly if the context is active, with the methods
\* the context is for.  The device is powered exactly if the modem is online.
MirrorsContexts ==
    Quiet =>
      /\ s.m.device => s.m.dev_powered = s.o.online
      /\ \A i \in DOMAIN s.m.contexts :
            LET c == s.m.contexts[i]
            IN /\ s.o.ctx.path
               /\ (s.o.ctx.apn /\ s.o.attached /\ "netreg" \in s.o.ifaces) => c.net
               /\ c.net => c.late \/ (s.o.ctx.apn /\ s.o.attached /\ "netreg" \in s.o.ifaces)
               /\ c.conn <=> (c.net /\ s.o.ctx.active)
               /\ c.conn => c.ip = s.o.ctx.kind
               /\ c.net => c.roaming = s.o.roaming

-----------------------------------------------------------------------------
(***************************************************************************)
(* plugins/dundee.c: the mirror of the dial-up devices of dundee.  A call   *)
(* that activates or deactivates a device keeps a pointer to its data until *)
(* the answer has been read.                                               *)
(***************************************************************************)

NoInfo == [here |-> FALSE, active |-> FALSE, conn |-> FALSE, error |-> FALSE, call |-> 0]

\* w.calls numbers the calls; w.live are those whose answer is not cancelled.
dundee_set_property(w, active) ==
    [w EXCEPT !.calls = @ + 1, !.info.call = w.calls + 1,
              !.live = @ \cup {w.calls + 1},
              !.out = Append(@, [id |-> w.calls + 1, active |-> active])]

dundee_set_connected(w) == [w EXCEPT !.info.conn = TRUE, !.info.error = FALSE]

dundee_set_disconnected(w) == [w EXCEPT !.info.conn = FALSE]

\* Faulty variant: the pending call outlives the device.
destroy_device_KeepCall(w) == [w EXCEPT !.info = NoInfo]

\* Only the most recent call is cancelled.
destroy_device(w) ==
    IF w.info.here THEN [w EXCEPT !.live = @ \ {w.info.call}, !.info = NoInfo] ELSE w

set_property_reply(w, id, ok) ==
    IF id \notin w.live THEN w
    ELSE [w EXCEPT !.live = @ \ {id},
                   !.late = @ \/ ~w.info.here \/ id \in w.old,
                   !.info.call = 0,
                   !.info.error = IF ok THEN @ ELSE TRUE]

device_changed(w, active) ==
    LET q == [w EXCEPT !.info.active = active]
    IN IF ~w.info.here THEN w ELSE IF active THEN dundee_set_connected(q) ELSE dundee_set_disconnected(q)

add_device(w, active) ==
    LET q == [w EXCEPT !.info = [NoInfo EXCEPT !.here = TRUE, !.active = active]]
    IN IF w.info.here THEN w ELSE IF active THEN dundee_set_connected(q) ELSE q

\* The calls of the device that is removed belong to freed data.
remove_device(w) ==
    LET q == destroy_device(w) IN [q EXCEPT !.old = @ \cup q.live]

dundee_disconnect(w) == remove_device(w)
-------------------------------------------------------------------------------
DundeeInit == s = [d |-> [here |-> FALSE, active |-> FALSE], info |-> NoInfo, in |-> <<>>,
             out |-> <<>>, calls |-> 0, live |-> {}, old |-> {}, late |-> FALSE, changes |-> 0]

dundee_msg(t, v, id) == [t |-> t, v |-> v, id |-> id]
dundee_signal(w, d, m) == [w EXCEPT !.d = d, !.in = Append(@, m)]
dundee_changed(d, m) == Becomes([dundee_signal(s, d, m) EXCEPT !.changes = @ + 1])

DeviceAppears == \E active \in BOOLEAN :
    ~s.d.here /\ dundee_changed([here |-> TRUE, active |-> active], dundee_msg("added", active, 0))
DeviceVanishes ==
    s.d.here /\ dundee_changed([here |-> FALSE, active |-> FALSE], dundee_msg("removed", FALSE, 0))
ActiveChanges ==
    s.d.here /\ dundee_changed([s.d EXCEPT !.active = ~@], dundee_msg("active", ~s.d.active, 0))

\* dundee handles the oldest call.
DundeeSets == s.out # <<>> /\ LET call == Head(s.out)
                                  q == [s EXCEPT !.out = Tail(@)]
                                  d == [s.d EXCEPT !.active = call.active] IN
    \/ Becomes(dundee_signal(q, s.d, dundee_msg("reply", FALSE, call.id)))
    \/ s.d.here /\ s.d.active = call.active
       /\ Becomes(dundee_signal(q, s.d, dundee_msg("reply", TRUE, call.id)))
    \/ s.d.here /\ s.d.active # call.active
       /\ Becomes(dundee_signal(dundee_signal(q, d, dundee_msg("active", call.active, 0)), d,
                         dundee_msg("reply", TRUE, call.id)))

\* The plugin reads the oldest message.
DeviceAdded == reads("added") /\ Becomes(add_device(rest, Head(s.in).v))
DeviceRemoved == reads("removed") /\ Becomes(remove_device(rest))
DeviceChanged == reads("active") /\ Becomes(device_changed(rest, Head(s.in).v))
SetPropertyReply ==
    reads("reply") /\ Becomes(set_property_reply(rest, Head(s.in).id, Head(s.in).v))

\* network_connect and network_disconnect
DundeeConnect == \E active \in BOOLEAN :
    /\ s.info.here /\ s.info.active # active
    /\ Calm => s.info.call = 0
    /\ s.calls < MaxChanges
    /\ Becomes(dundee_set_property(s, active))

\* dundee leaves the bus; a new one is asked for its devices, and answers the calls
\* under way with an error.
DundeeRestarts ==
    LET q == dundee_disconnect(s)
        failed(i) == dundee_msg("reply", FALSE, s.out[i].id)
    IN Becomes([q EXCEPT !.d = [here |-> FALSE, active |-> FALSE],
                         !.in = SelectSeq(@, LAMBDA m : m.t = "reply")
                                \o [i \in DOMAIN s.out |-> failed(i)],
                         !.out = <<>>])

DundeeNext == DeviceAppears \/ DeviceVanishes \/ ActiveChanges \/ DundeeSets \/ DeviceAdded
        \/ DeviceRemoved \/ DeviceChanged \/ SetPropertyReply \/ DundeeConnect \/ DundeeRestarts

-------------------------------------------------------------------------------
\* No answer reaches the data of a device that was removed: the call it made was
\* cancelled with it.  And when nothing is under way, the network is connected
\* exactly if dundee's device is active.
RepliesToLive ==
    /\ ~s.late
    /\ s.in = <<>> /\ s.out = <<>> =>
           s.info.here = s.d.here /\ (s.info.conn <=> s.d.active)

=============================================================================

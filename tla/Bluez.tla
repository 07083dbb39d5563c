------------------------------- MODULE Bluez -------------------------------
(***************************************************************************)
(* plugins/bluetooth.c: the mirror of bluez's adapter and of the devices   *)
(* that offer a personal area network.  bluez sends its signals and its    *)
(* replies in order (`in`), connmand's calls wait in `out`.                *)
(***************************************************************************)
EXTENDS Integers, Sequences

CONSTANTS
  Devices,   \* object paths of remote devices
  Roles,     \* roles a device can offer
  MaxQueue,  \* bound on messages on their way, each direction
  Calm       \* an adapter is announced before its devices

VARIABLE s

NONE == "none"

\* bluez: its adapter and its devices.
NoRemote == [there |-> FALSE, role |-> NONE, conn |-> FALSE]

\* connmand: the proxies with the properties last reported, and the network.
NoPan == [there |-> FALSE, role |-> NONE, conn |-> FALSE,
          network |-> FALSE, pan_role |-> NONE, connected |-> FALSE, associating |-> FALSE,
          connecting |-> FALSE]
NoDevice == [there |-> FALSE, powered |-> FALSE, prop |-> FALSE]

Init ==
  s = [adapter |-> [there |-> FALSE, powered |-> FALSE],
       remote |-> [d \in Devices |-> NoRemote],
       device |-> NoDevice, pan |-> [d \in Devices |-> NoPan],
       in |-> <<>>, out |-> <<>>]

Msg(k, d, role, flag) == [k |-> k, d |-> d, role |-> role, flag |-> flag]

-----------------------------------------------------------------------------
\* Networks.

\* src/network.c.  The driver disconnects by a call; only its answer ends the network's
\* connection.
network_disconnect(st, d) ==
  LET p == st.pan[d] IN
  IF ~p.connected /\ ~p.connecting /\ ~p.associating THEN st
  ELSE [st EXCEPT !.pan[d].connecting = FALSE,
                  !.out = Append(@, Msg("disconnect", d, NONE, TRUE))]

\* The end of a network that is being connected is an error, which disconnects it.
set_connected(st, d, on) ==
  LET p == st.pan[d] IN
  IF ~on /\ (p.connecting \/ p.associating) THEN network_disconnect(st, d)
  ELSE [st EXCEPT !.pan[d].connected = on, !.pan[d].associating = FALSE]

\* Connected when bluez says so: the interface comes with it.
pan_connect(p) == IF p.conn THEN [p EXCEPT !.connected = TRUE, !.associating = FALSE] ELSE p

pan_remove_nap(p) ==
  [p EXCEPT !.network = FALSE, !.pan_role = NONE, !.connected = FALSE, !.associating = FALSE,
            !.connecting = FALSE]

\* A device with a role on a powered adapter has a network.
pan_create_nap(p, device) ==
  IF p.role = NONE THEN pan_remove_nap(p)
  ELSE IF ~device.there \/ ~device.powered THEN p
  ELSE pan_connect([p EXCEPT !.network = TRUE, !.pan_role = p.role])

\* Faulty variant: a new role is taken for the old one.
btdevice_property_change_Known(st, m) ==
  LET p == [st.pan[m.d] EXCEPT !.role = m.role] IN
  IF ~p.there THEN st
  ELSE IF p.network THEN [st EXCEPT !.pan[m.d] = p]
  ELSE [st EXCEPT !.pan[m.d] = pan_create_nap(p, st.device)]

btdevice_property_change(st, m) ==
  LET p == [st.pan[m.d] EXCEPT !.role = m.role] IN
  IF ~p.there THEN st
  ELSE IF p.network /\ p.pan_role = p.role THEN [st EXCEPT !.pan[m.d] = p]
  ELSE [st EXCEPT !.pan[m.d] = pan_create_nap(p, st.device)]

btnetwork_property_change(st, m) ==
  LET p == [st.pan[m.d] EXCEPT !.conn = m.flag]
      q == [st EXCEPT !.pan[m.d] = p] IN
  IF ~p.there THEN st
  ELSE IF p.network /\ p.connected # m.flag THEN set_connected(q, m.d, m.flag) ELSE q

pan_create(st, m) ==
  [st EXCEPT !.pan[m.d] =
     pan_create_nap([NoPan EXCEPT !.there = TRUE, !.role = m.role, !.conn = m.flag], st.device)]

\* A failed Connect is an error of the network; a successful one answers with the
\* interface, whatever the property says by then.
pan_connect_cb(st, m) ==
  IF ~st.pan[m.d].there \/ ~st.pan[m.d].network THEN st
  ELSE IF m.flag THEN set_connected(st, m.d, TRUE)
  ELSE network_disconnect([st EXCEPT !.pan[m.d].associating = FALSE], m.d)

pan_disconnect_cb(st, m) ==
  IF ~st.pan[m.d].there \/ ~st.pan[m.d].network THEN st ELSE set_connected(st, m.d, FALSE)

-----------------------------------------------------------------------------
\* The adapter.

enable_device(st) ==
  LET on == [st.device EXCEPT !.powered = TRUE] IN
  [st EXCEPT !.device = on,
             !.pan = [d \in Devices |-> IF @[d].there THEN pan_create_nap(@[d], on) ELSE @[d]]]

\* Faulty variant: the networks of an adapter that is off stay.
disable_device_Keep(st) == [st EXCEPT !.device.powered = FALSE]

disable_device(st) ==
  [st EXCEPT !.device.powered = FALSE,
             !.pan = [d \in Devices |-> pan_remove_nap(@[d])]]

device_enable_cb(st, m) == IF st.device.there /\ m.flag THEN enable_device(st) ELSE st
device_disable_cb(st, m) == IF st.device.there /\ m.flag THEN disable_device(st) ELSE st

adapter_property_change(st, m) ==
  LET p == [st EXCEPT !.device.prop = m.flag] IN
  IF st.device.powered = m.flag THEN p
  ELSE IF m.flag THEN enable_device(p) ELSE disable_device(p)

\* The devices that were announced before are not looked at again.
device_create(st, m) ==
  [st EXCEPT !.device = [there |-> TRUE, powered |-> m.flag, prop |-> m.flag]]

\* Unregistering the device removes its networks.
device_free(st) ==
  [st EXCEPT !.device = NoDevice, !.pan = [d \in Devices |-> pan_remove_nap(@[d])]]

object_added(st, m) == IF m.k = "adapter_added" THEN device_create(st, m) ELSE pan_create(st, m)

object_removed(st, m) ==
  IF m.k = "adapter_removed" THEN device_free(st) ELSE [st EXCEPT !.pan[m.d] = NoPan]

Handled(st, m) ==
  CASE m.k \in {"adapter_added", "network_added"} -> object_added(st, m)
    [] m.k \in {"adapter_removed", "network_removed"} -> object_removed(st, m)
    [] m.k = "Powered" -> adapter_property_change(st, m)
    [] m.k = "UUIDs" -> btdevice_property_change(st, m)
    [] m.k = "Connected" -> btnetwork_property_change(st, m)
    [] m.k = "enabled" -> device_enable_cb(st, m)
    [] m.k = "disabled" -> device_disable_cb(st, m)
    [] m.k = "connect" -> pan_connect_cb(st, m)
    [] m.k = "disconnect" -> pan_disconnect_cb(st, m)

Dispatch ==
  /\ s.in # <<>>
  /\ s' = Handled([s EXCEPT !.in = Tail(@)], Head(s.in))
  /\ Len(s'.out) <= MaxQueue + 1

-----------------------------------------------------------------------------
\* Calls of the rest of connmand.

Call(m) == s' = [s EXCEPT !.out = Append(@, m)]

bluetooth_device_enable ==
  /\ s.device.there /\ ~s.device.prop /\ Len(s.out) < MaxQueue
  /\ Call(Msg("enabled", NONE, NONE, TRUE))

bluetooth_device_disable ==
  /\ s.device.there /\ s.device.prop /\ Len(s.out) < MaxQueue
  /\ Call(Msg("disabled", NONE, NONE, TRUE))

bluetooth_pan_connect(d) ==
  /\ s.pan[d].network /\ Len(s.out) < MaxQueue
  /\ ~s.pan[d].connected /\ ~s.pan[d].connecting /\ ~s.pan[d].associating
  /\ s' = [s EXCEPT !.pan[d].associating = TRUE, !.pan[d].connecting = TRUE,
                    !.out = Append(@, Msg("connect", d, s.pan[d].pan_role, TRUE))]

bluetooth_pan_disconnect(d) ==
  /\ s.pan[d].network /\ Len(s.out) < MaxQueue
  /\ s.pan[d].connected \/ s.pan[d].connecting \/ s.pan[d].associating
  /\ s' = network_disconnect(s, d)

\* The network has its address.
Configured(d) ==
  /\ s.pan[d].connected /\ s.pan[d].connecting
  /\ s' = [s EXCEPT !.pan[d].connecting = FALSE]

-----------------------------------------------------------------------------
\* bluez.

Says(st, msgs) == [st EXCEPT !.in = @ \o msgs]
Fits(n) == Len(s.in) + n <= MaxQueue

AdapterPlugged(on) ==
  /\ ~s.adapter.there /\ Fits(1)
  /\ Calm => \A d \in Devices: ~s.remote[d].there
  /\ s' = Says([s EXCEPT !.adapter = [there |-> TRUE, powered |-> on]],
               <<Msg("adapter_added", NONE, NONE, on)>>)

\* An adapter goes after its devices.
AdapterUnplugged ==
  /\ s.adapter.there /\ Fits(1)
  /\ \A d \in Devices: ~s.remote[d].there
  /\ s' = Says([s EXCEPT !.adapter = [there |-> FALSE, powered |-> FALSE]],
               <<Msg("adapter_removed", NONE, NONE, FALSE)>>)

\* A device is known to bluez with or without the adapter's power.  The two
\* are announced in one answer when connmand starts after bluez.
DeviceFound(d, role) ==
  /\ ~s.remote[d].there /\ Fits(1)
  /\ Calm => s.adapter.there
  /\ s' = Says([s EXCEPT !.remote[d] = [there |-> TRUE, role |-> role, conn |-> FALSE]],
               <<Msg("network_added", d, role, FALSE)>>)

DeviceLost(d) ==
  /\ s.remote[d].there /\ ~s.remote[d].conn /\ Fits(1)
  /\ s' = Says([s EXCEPT !.remote[d] = NoRemote], <<Msg("network_removed", d, NONE, FALSE)>>)

RoleChanges(d, role) ==
  /\ s.remote[d].there /\ s.remote[d].role # role /\ ~s.remote[d].conn /\ Fits(1)
  /\ s' = Says([s EXCEPT !.remote[d].role = role], <<Msg("UUIDs", d, role, FALSE)>>)

Drops(d) ==
  /\ s.remote[d].conn /\ Fits(1)
  /\ s' = Says([s EXCEPT !.remote[d].conn = FALSE], <<Msg("Connected", d, NONE, FALSE)>>)

\* Power changes, by another client or by an answered call; off only without
\* a connection, which bluez drops first.
Power(st, on) ==
  IF st.adapter.powered = on THEN st
  ELSE Says([st EXCEPT !.adapter.powered = on], <<Msg("Powered", NONE, NONE, on)>>)

Switched(on) ==
  /\ s.adapter.there /\ s.adapter.powered # on /\ Fits(1)
  /\ \A d \in Devices: ~s.remote[d].conn
  /\ s' = Power(s, on)

AnswerPower(on, ok) ==
  /\ s.out # <<>> /\ Head(s.out).k = IF on THEN "enabled" ELSE "disabled"
  /\ Fits(2) /\ \A d \in Devices: ~s.remote[d].conn
  /\ LET done == ok /\ s.adapter.there
         st == IF done THEN Power(s, on) ELSE s
     IN s' = Says([st EXCEPT !.out = Tail(@)], <<[Head(s.out) EXCEPT !.flag = done]>>)

AnswerConnect(ok) ==
  /\ s.out # <<>> /\ Head(s.out).k = "connect" /\ Fits(2)
  /\ LET d == Head(s.out).d
         done == ok /\ s.remote[d].there /\ s.adapter.powered /\ s.remote[d].role # NONE
         st == IF done THEN Says([s EXCEPT !.remote[d].conn = TRUE], <<Msg("Connected", d, NONE, TRUE)>>)
               ELSE s
     IN s' = Says([st EXCEPT !.out = Tail(@)], <<[Head(s.out) EXCEPT !.flag = done]>>)

AnswerDisconnect ==
  /\ s.out # <<>> /\ Head(s.out).k = "disconnect" /\ Fits(2)
  /\ LET d == Head(s.out).d
         st == IF s.remote[d].conn
               THEN Says([s EXCEPT !.remote[d].conn = FALSE], <<Msg("Connected", d, NONE, FALSE)>>)
               ELSE s
     IN s' = Says([st EXCEPT !.out = Tail(@)], <<Head(s.out)>>)

Next ==
  \/ Dispatch
  \/ bluetooth_device_enable \/ bluetooth_device_disable
  \/ \E d \in Devices: bluetooth_pan_connect(d) \/ bluetooth_pan_disconnect(d) \/ Configured(d)
  \/ \E b \in BOOLEAN: AdapterPlugged(b) \/ Switched(b) \/ AnswerConnect(b)
  \/ \E b, ok \in BOOLEAN: AnswerPower(b, ok)
  \/ AdapterUnplugged \/ AnswerDisconnect
  \/ \E d \in Devices: DeviceLost(d) \/ Drops(d)
  \/ \E d \in Devices, r \in Roles \cup {NONE}: DeviceFound(d, r) \/ RoleChanges(d, r)

Spec == Init /\ [][Next]_s

-----------------------------------------------------------------------------
\* With no message on its way the mirror agrees with bluez: a device is there
\* and powered like the adapter, and a remote device has a network, connected
\* like it, exactly if it offers a role and the adapter is on.
MirrorsBluez ==
  s.in = <<>> /\ s.out = <<>> =>
    /\ s.device.there = s.adapter.there /\ s.device.powered = s.adapter.powered
    /\ \A d \in Devices:
         /\ s.pan[d].network <=> s.adapter.powered /\ s.remote[d].role # NONE
         /\ s.pan[d].connected = s.remote[d].conn
         /\ s.pan[d].network => s.pan[d].pan_role = s.remote[d].role
=============================================================================

---------------------------- MODULE Power ----------------------------
(***************************************************************************)
(* Power: the technologies of src/technology.c, the power requests of      *)
(* src/device.c and the rfkill switches of src/rfkill.c.  A technology is  *)
(* switched by D-Bus callers, by offline mode, by its devices and by the   *)
(* kernel's switches.  Operators take the state w and give the state after *)
(* the function; those whose error code matters give [w, err].             *)
(*                                                                         *)
(* Nothing is tethered here: set_tethering() is called for a technology    *)
(* that tethers, or with PersistentTetheringMode, and for no other.        *)
(***************************************************************************)
EXTENDS Integers, Sequences, FiniteSets

CONSTANTS
    Types,        \* technologies with a driver, of "wifi", "p2p", "ethernet", ...
    Devices,
    TypeOf,       \* [Devices -> Types]
    ReportsOff,   \* devices whose driver reports them off when they are removed
    Switches      \* indexes of the rfkill switches, all of type wifi

RfkillType == "wifi"

ASSUME PowerAssumption ==
    /\ RfkillType \in Types
    /\ TypeOf \in [Devices -> Types \ {"p2p"}]
    /\ ReportsOff \subseteq Devices
    /\ IsFiniteSet(Devices)
    /\ IsFiniteSet(Switches)

\* What drivers may answer to enable() and disable().  An operator that gets to
\* the drivers or to the kernel takes o, what they answer in this run of the
\* handler: o.answer[d] by the driver of d, and o.ok whether connman_inet_ifup()
\* and the write to /dev/rfkill succeed.
DriverAnswers == {"0", "EALREADY", "EINPROGRESS", "EIO"}

PendingTypes == {"NONE", "ENABLE", "DISABLE"}

DeviceRecords ==
    [driver : BOOLEAN, powered : BOOLEAN, powered_pending : PendingTypes,
     pending_timeout : BOOLEAN]

\* connman_device_create().
NewDevice ==
    [driver |-> FALSE, powered |-> FALSE, powered_pending |-> "NONE",
     pending_timeout |-> FALSE]

\* pending_reply stands for the call and for its timer pending_timeout; callers
\* counts the calls to this technology that were not answered yet.
NoTechnology ==
    [refcount |-> 0, enabled |-> FALSE, enable_persistent |-> FALSE,
     pending_reply |-> FALSE, callers |-> 0, rfkill_driven |-> FALSE, softblocked |-> FALSE,
     hardblocked |-> FALSE, dbus_registered |-> FALSE, device_list |-> <<>>]

\* A switch, in rfkill_list or in the kernel.
NoSwitch == [present |-> FALSE, soft |-> FALSE, hard |-> FALSE]

\* technology_find().
technology_find(w, t) == t \in Types /\ w.tech[t].refcount > 0

-----------------------------------------------------------------------------
(***************************************************************************)
(* The power state of a technology.                                        *)
(***************************************************************************)

CallEnds(technology) == [technology EXCEPT !.pending_reply = FALSE, !.callers = @ - 1]
CallWaits(technology) == [technology EXCEPT !.pending_reply = TRUE, !.callers = @ + 1]

AnswerCaller(w, t) ==
    IF w.tech[t].pending_reply THEN [w EXCEPT !.tech[t] = CallEnds(@)] ELSE w

\* The caller that waits is answered, if the technology is on D-Bus.
powered_changed(w, t) ==
    IF w.tech[t].dbus_registered THEN AnswerCaller(w, t) ELSE w

SetEnabled(w, t, on) == powered_changed([w EXCEPT !.tech[t].enabled = on], t)

\* P2P comes back with WiFi.
technology_enabled(w, t) ==
    IF w.tech[t].enabled THEN w
    ELSE SetEnabled(
             IF /\ t = "wifi"
                /\ technology_find(w, "p2p")
                /\ ~w.tech["p2p"].enabled
                /\ w.tech["p2p"].enable_persistent
             THEN SetEnabled(w, "p2p", TRUE)
             ELSE w, t, TRUE)

technology_disabled(w, t) ==
    IF w.tech[t].enabled THEN SetEnabled(w, t, FALSE) ELSE w

\* Faulty variant: a device decides also where an rfkill switch does.
__connman_technology_enabled_Always(w, t) ==
    IF technology_find(w, t) THEN technology_enabled(w, t) ELSE w

__connman_technology_enabled(w, t) ==
    IF technology_find(w, t) /\ ~w.tech[t].rfkill_driven
    THEN technology_enabled(w, t) ELSE w

Listed(w, t) == {w.tech[t].device_list[i] : i \in 1..Len(w.tech[t].device_list)}

\* Faulty variant: the other devices are not looked at.
__connman_technology_disabled_First(w, t) ==
    IF technology_find(w, t) /\ ~w.tech[t].rfkill_driven
    THEN technology_disabled(w, t) ELSE w

__connman_technology_disabled(w, t) ==
    IF /\ technology_find(w, t)
       /\ ~w.tech[t].rfkill_driven
       /\ \A d \in Listed(w, t) : ~w.dev[d].powered
    THEN technology_disabled(w, t) ELSE w

-----------------------------------------------------------------------------
(***************************************************************************)
(* The power requests of a device.                                         *)
(***************************************************************************)

\* Faulty variant: the request stays pending.
SettledPower_Pending(w, d, on) == [w EXCEPT !.dev[d].pending_timeout = FALSE,
                                            !.dev[d].powered = on]

\* clear_pending_trigger(), powered_pending and powered.
SettledPower(w, d, on) ==
    [w EXCEPT !.dev[d] = [@ EXCEPT !.pending_timeout = FALSE,
                                   !.powered_pending = "NONE", !.powered = on]]

connman_device_set_powered(w, d, on) ==
    IF w.dev[d].powered = on THEN w
    ELSE IF on THEN __connman_technology_enabled(SettledPower(w, d, TRUE), TypeOf[d])
    ELSE __connman_technology_disabled(SettledPower(w, d, FALSE), TypeOf[d])

\* The driver was asked to switch the device and gave the answer.
DriverAnswered(w, d, on, answer) ==
    IF answer \in {"0", "EALREADY"} THEN connman_device_set_powered(w, d, on)
    ELSE IF answer = "EINPROGRESS" THEN [w EXCEPT !.dev[d].pending_timeout = TRUE]
    ELSE w

__connman_device_enable(w, d, o) ==
    LET device == w.dev[d]
    IN  IF device.powered_pending = "DISABLE" THEN [w |-> w, err |-> "EBUSY"]
        ELSE IF device.powered_pending = "ENABLE" THEN [w |-> w, err |-> "EINPROGRESS"]
        ELSE IF device.powered THEN [w |-> w, err |-> "EALREADY"]
        ELSE IF ~o.ok THEN [w |-> w, err |-> "EIO"]
        ELSE [w |-> DriverAnswered([w EXCEPT !.dev[d].powered_pending = "ENABLE"],
                                   d, TRUE, o.answer[d]),
              err |-> o.answer[d]]

\* Disconnecting the device's network is the business of module Service.
__connman_device_disable(w, d, o) ==
    LET device == w.dev[d]
    IN  IF device.powered_pending = "ENABLE" THEN [w |-> w, err |-> "EBUSY"]
        ELSE IF device.powered_pending = "DISABLE" THEN [w |-> w, err |-> "EINPROGRESS"]
        ELSE IF ~device.powered THEN [w |-> w, err |-> "EALREADY"]
        ELSE [w |-> DriverAnswered([w EXCEPT !.dev[d].powered_pending = "DISABLE"],
                                   d, FALSE, o.answer[d]),
              err |-> o.answer[d]]

\* device_pending_reset(), after four seconds.
device_pending_reset(w, d) ==
    [w EXCEPT !.dev[d].pending_timeout = FALSE, !.dev[d].powered_pending = "NONE"]

\* The last device that fails decides the result.
WithError(r, err) ==
    [w |-> r.w, err |-> IF r.err \in {"0", "EALREADY"} THEN err ELSE r.err]

SwitchDevice(r, d, on, o) ==
    WithError(IF on THEN __connman_device_enable(r.w, d, o)
              ELSE __connman_device_disable(r.w, d, o), r.err)

technology_affect_devices(w, t, on, o) ==
    IF t = "p2p"
    THEN [w |-> IF on THEN __connman_technology_enabled(w, t)
                ELSE __connman_technology_disabled(w, t), err |-> "0"]
    ELSE LET q == w.tech[t].device_list
             r[i \in 0..Len(q)] ==
                 IF i = 0 THEN [w |-> w, err |-> "0"] ELSE SwitchDevice(r[i - 1], q[i], on, o)
         IN  r[Len(q)]

-----------------------------------------------------------------------------
(***************************************************************************)
(* rfkill.                                                                 *)
(***************************************************************************)

\* The elements of S one after the other.
InOrder(S) == CHOOSE q \in [1..Cardinality(S) -> S] : \A x \in S : \E i \in DOMAIN q : q[i] = x

\* The kernel switches the radios of the type and tells every reader of
\* /dev/rfkill what changed.
KernelBlock(w, block) ==
    LET changed == {i \in Switches : w.kernel[i].present /\ w.kernel[i].soft # block}
        order == InOrder(changed)
        event(i) == [op |-> "CHANGE", index |-> i, soft |-> block, hard |-> w.kernel[i].hard]
    IN  [w EXCEPT
            !.kernel = [i \in Switches |-> IF i \in changed
                            THEN [w.kernel[i] EXCEPT !.soft = block] ELSE w.kernel[i]],
            !.events = @ \o [k \in 1..Len(order) |-> event(order[k])]]

__connman_rfkill_block(w, t, block, o) ==
    IF t # RfkillType THEN [w |-> w, err |-> "EINVAL"]
    ELSE IF ~o.ok THEN [w |-> w, err |-> "EIO"]
    ELSE [w |-> KernelBlock(w, block), err |-> "0"]

technology_dbus_unregister(w, t) == [w EXCEPT !.tech[t].dbus_registered = FALSE]

technology_dbus_register(w, t) ==
    IF w.tech[t].rfkill_driven /\ w.tech[t].hardblocked THEN w
    ELSE [w EXCEPT !.tech[t].dbus_registered = TRUE]

technology_enable(w, t, o) ==
    IF t = "p2p"
    THEN IF technology_find(w, "wifi") /\ w.tech["wifi"].enabled
         THEN [w |-> technology_enabled(w, t),
               err |-> IF w.tech[t].enabled THEN "EALREADY" ELSE "0"]
         ELSE [w |-> w, err |-> "0"]
    ELSE IF w.tech[t].enabled THEN [w |-> w, err |-> "EALREADY"]
    ELSE IF w.tech[t].pending_reply THEN [w |-> w, err |-> "EBUSY"]
    ELSE IF ~w.tech[t].rfkill_driven THEN technology_affect_devices(w, t, TRUE, o)
    ELSE LET r == __connman_rfkill_block(w, t, FALSE, o)
         IN  [w |-> technology_affect_devices(r.w, t, TRUE, o).w, err |-> r.err]

\* Faulty variant: a request that waits for its answer is not respected.
DisableTechnology_Impatient(w, t, o) ==
    IF ~w.tech[t].enabled THEN [w |-> w, err |-> "EALREADY"]
    ELSE technology_affect_devices(w, t, FALSE, o)

DisableTechnology(w, t, o) ==
    IF ~w.tech[t].enabled THEN [w |-> w, err |-> "EALREADY"]
    ELSE IF w.tech[t].pending_reply THEN [w |-> w, err |-> "EBUSY"]
    ELSE IF w.tech[t].rfkill_driven
    THEN __connman_rfkill_block(technology_affect_devices(w, t, FALSE, o).w, t, TRUE, o)
    ELSE technology_affect_devices(w, t, FALSE, o)

\* P2P goes with WiFi and is to come back with it.
technology_disable(w, t, o) ==
    IF t = "p2p"
    THEN [w |-> technology_disabled([w EXCEPT !.tech[t].enable_persistent = FALSE], t),
          err |-> IF w.tech[t].enabled THEN "0" ELSE "EALREADY"]
    ELSE DisableTechnology(
             IF t = "wifi" /\ technology_find(w, "p2p") /\ w.tech["p2p"].enabled
             THEN technology_disabled([w EXCEPT !.tech["p2p"].enable_persistent = TRUE], "p2p")
             ELSE w, t, o)

-----------------------------------------------------------------------------
(***************************************************************************)
(* Technologies come with their first device or switch and go with the     *)
(* last one.                                                               *)
(***************************************************************************)

\* technology_get() of a technology not there yet: the saved Enable is loaded.
NewTechnology(w, t) ==
    [w EXCEPT !.tech[t] = [NoTechnology EXCEPT !.refcount = 1,
                                               !.enable_persistent = w.saved[t],
                                               !.dbus_registered = TRUE],
              !.technology_list = <<t>> \o @]

\* Faulty variant: a second user of the technology is not counted.
technology_get_Uncounted(w, t, o) ==
    IF technology_find(w, t) THEN w ELSE NewTechnology(w, t)

technology_get(w, t, o) ==
    IF technology_find(w, t)
    THEN IF t = "p2p" THEN w ELSE [w EXCEPT !.tech[t].refcount = @ + 1]
    ELSE IF t = "p2p"
    THEN technology_affect_devices(NewTechnology(w, t), t,
             w.saved[t] /\ (technology_find(w, "wifi") => w.tech["wifi"].enabled), o).w
    ELSE NewTechnology(w, t)

\* g_slist_remove().
Unlisted(q, x) ==
    IF \E i \in 1..Len(q) : q[i] = x
    THEN LET i == CHOOSE i \in 1..Len(q) : q[i] = x /\ \A j \in 1..(i - 1) : q[j] # x
         IN  SubSeq(q, 1, i - 1) \o SubSeq(q, i + 1, Len(q))
    ELSE q

\* When the technology goes, a call that waits is dropped with it, unanswered.
technology_put(w, t) ==
    IF w.tech[t].refcount > 1 THEN [w EXCEPT !.tech[t].refcount = @ - 1]
    ELSE [w EXCEPT !.tech[t] = NoTechnology, !.technology_list = Unlisted(@, t)]

\* __connman_technology_add_device() once the technology is there; the device
\* is listed last of all.
PowerNewDevice(w, t, d, o) ==
    LET technology == w.tech[t]
        enabled == __connman_device_enable(w, d, o)
    IN  IF technology.rfkill_driven /\ technology.enabled THEN enabled.w
        ELSE IF technology.rfkill_driven \/ ~technology.enable_persistent
        THEN __connman_device_disable(w, d, o).w
        ELSE IF w.offline THEN w
        ELSE IF enabled.err = "EALREADY" THEN __connman_technology_enabled(enabled.w, t)
        ELSE enabled.w

AddListed(w, t, d) == [w EXCEPT !.tech[t].device_list = <<d>> \o @]

__connman_technology_add_device(w, d, o) ==
    AddListed(PowerNewDevice(technology_get(w, TypeOf[d], o), TypeOf[d], d, o), TypeOf[d], d)

__connman_technology_remove_device(w, d) ==
    technology_put([w EXCEPT !.tech[TypeOf[d]].device_list = Unlisted(@, d)], TypeOf[d])

\* connman_device_register(), with the driver that probes it.
connman_device_register(w, d, o) ==
    __connman_technology_add_device([w EXCEPT !.dev[d].driver = TRUE], d, o)

\* The driver's remove(), after the technology has forgotten the device:
\* wifi_remove() reports it off, those of Ethernet, iwd and Bluetooth do not.
RemoveDriver(w, d) ==
    IF d \in ReportsOff THEN connman_device_set_powered(w, d, FALSE) ELSE w

remove_device(w, d, o) ==
    [RemoveDriver(__connman_technology_remove_device(
                      __connman_device_disable(w, d, o).w, d), d)
     EXCEPT !.dev[d] = NewDevice]

-----------------------------------------------------------------------------
(***************************************************************************)
(* The events of /dev/rfkill.                                              *)
(***************************************************************************)

\* Faulty variant: one switch decides for all of them.
HardblockApplies_Any(w, t, hard, new) == w.tech[t].hardblocked # hard

\* A hard block is applied when the switches agree on it; a new switch that
\* blocks nothing lifts it.
HardblockApplies(w, t, hard, new) ==
    /\ w.tech[t].hardblocked # hard
    /\ \/ new /\ ~hard
       \/ \A i \in Switches : w.rfkill[i].present => w.rfkill[i].hard = hard

\* Technology and devices follow the blocks.
FollowBlocks(w, t, o) ==
    IF w.tech[t].hardblocked \/ w.tech[t].softblocked
    THEN IF w.tech[t].enabled
         THEN technology_affect_devices(technology_disabled(w, t), t, FALSE, o).w ELSE w
    ELSE IF w.tech[t].enabled THEN w
         ELSE technology_affect_devices(technology_enabled(w, t), t, TRUE, o).w

\* The switch was turned off or on: the technology leaves or enters D-Bus.
ShowTechnology(w, t, o) ==
    IF w.tech[t].hardblocked THEN technology_dbus_unregister(w, t)
    ELSE IF w.offline THEN __connman_rfkill_block(technology_dbus_register(w, t), t, TRUE, o).w
    ELSE technology_dbus_register(w, t)

SetBlocks(w, t, soft, hard) ==
    [w EXCEPT !.tech[t].softblocked = soft, !.tech[t].hardblocked = hard]

technology_apply_rfkill_change(w, t, soft, hard, new, o) ==
    IF HardblockApplies(w, t, hard, new)
    THEN ShowTechnology(FollowBlocks(SetBlocks(w, t, soft, hard), t, o), t, o)
    ELSE IF w.tech[t].hardblocked = hard \/ w.tech[t].softblocked # soft
    THEN FollowBlocks(SetBlocks(w, t, soft, w.tech[t].hardblocked), t, o)
    ELSE w

\* Not hard-blocked, and not in offline mode: the switch is set as saved.
SetAsSaved(w, t, o) ==
    IF w.tech[t].hardblocked \/ w.offline THEN w
    ELSE IF w.tech[t].softblocked = w.tech[t].enable_persistent
    THEN __connman_rfkill_block(w, t, ~w.tech[t].softblocked, o).w
    ELSE w

__connman_technology_add_rfkill(w, i, t, soft, hard, o) ==
    LET known == IF w.rfkill[i].present THEN w
                 ELSE [w EXCEPT !.rfkill[i] = [present |-> TRUE, soft |-> soft, hard |-> hard]]
        driven == [technology_get(known, t, o) EXCEPT !.tech[t].rfkill_driven = TRUE]
    IN  SetAsSaved(technology_apply_rfkill_change(driven, t, soft, hard, TRUE, o), t, o)

__connman_technology_update_rfkill(w, i, t, soft, hard, o) ==
    IF ~w.rfkill[i].present \/ (w.rfkill[i].soft = soft /\ w.rfkill[i].hard = hard) THEN w
    ELSE LET known == [w EXCEPT !.rfkill[i].soft = soft, !.rfkill[i].hard = hard]
         IN  IF technology_find(w, t)
             THEN technology_apply_rfkill_change(known, t, soft, hard, FALSE, o)
             ELSE known

\* The hard block turns when the switches that are left say so.
__connman_technology_remove_rfkill(w, i, t, o) ==
    IF ~w.rfkill[i].present THEN w
    ELSE LET gone == [w EXCEPT !.rfkill[i] = NoSwitch]
         IN  IF ~technology_find(w, t) THEN gone
             ELSE technology_put(technology_apply_rfkill_change(gone, t,
                      w.tech[t].softblocked, ~w.tech[t].hardblocked, FALSE, o), t)

\* rfkill_process().
rfkill_process(w, e, o) ==
    CASE e.op = "ADD" -> __connman_technology_add_rfkill(w, e.index, RfkillType, e.soft, e.hard, o)
      [] e.op = "DEL" -> __connman_technology_remove_rfkill(w, e.index, RfkillType, o)
      [] e.op = "CHANGE" ->
            __connman_technology_update_rfkill(w, e.index, RfkillType, e.soft, e.hard, o)

-----------------------------------------------------------------------------
(***************************************************************************)
(* D-Bus: the Powered property of a technology and offline mode.           *)
(***************************************************************************)

\* technology_save().
SavePowered(w, t, on) ==
    [w EXCEPT !.tech[t].enable_persistent = on, !.saved[t] = on]

\* The answer to the call, or the wait for one.
WaitOrAnswer(w, t, err) ==
    IF err = "EINPROGRESS" THEN [w EXCEPT !.tech[t] = CallWaits(@)] ELSE w

PoweredResult(r, t, on) ==
    WaitOrAnswer(IF r.err = "EBUSY" THEN r.w ELSE SavePowered(r.w, t, on), t, r.err)

set_powered(w, t, on, o) ==
    IF w.tech[t].rfkill_driven /\ w.tech[t].hardblocked THEN w
    ELSE PoweredResult(IF on THEN technology_enable(w, t, o)
                       ELSE technology_disable(w, t, o), t, on)

\* technology_pending_reply(): ETIMEDOUT after ten seconds.
technology_pending_reply(w, t) == AnswerCaller(w, t)

\* One technology enters or leaves offline mode; err is the last one's.
OfflineStep(r, t, on, o) ==
    LET s == IF on THEN technology_disable(r.w, t, o) ELSE technology_enable(r.w, t, o)
    IN  IF ~on /\ (r.w.tech[t].hardblocked \/ ~r.w.tech[t].enable_persistent) THEN r
        ELSE [w |-> s.w, err |-> s.err, enabled |-> IF on THEN 0 ELSE r.enabled + 1]

\* The mode is saved, or the saved one is loaded back.
OfflineResult(r) ==
    IF r.err \in {"0", "EINPROGRESS", "EALREADY"} \/ (r.err = "EINVAL" /\ r.enabled = 0)
    THEN [r.w EXCEPT !.saved_offline = r.w.offline]
    ELSE [r.w EXCEPT !.offline = r.w.saved_offline]

__connman_technology_set_offlinemode(w, on, o) ==
    IF w.offline = on THEN w
    ELSE LET q == w.technology_list
             r[i \in 0..Len(q)] ==
                 IF i = 0 THEN [w |-> [w EXCEPT !.offline = on], err |-> "EINVAL", enabled |-> 0]
                 ELSE OfflineStep(r[i - 1], q[i], on, o)
         IN  OfflineResult(r[Len(q)])

-----------------------------------------------------------------------------
(***************************************************************************)
(* Everything that switches technologies: callers on D-Bus, the timers of  *)
(* their requests, drivers that find, lose and switch devices on their     *)
(* own, and the rfkill switches, whose events connmand reads any time      *)
(* after the kernel changed them.  Every action is one run of a handler.   *)
(***************************************************************************)

CONSTANTS
    Hosts,       \* the machines: [devices, switches, p2p]
    Answers,     \* what drivers answer, of DriverAnswers
    Succeeds,    \* whether ifup and writes to /dev/rfkill may succeed, or fail
    MaxEvents    \* events of /dev/rfkill that may wait when something else happens

VARIABLES
    w,      \* technologies, devices, switches, events and the stored settings
    host    \* the machine

vars == <<w, host>>

ASSUME HostAssumption ==
    /\ \A h \in Hosts : /\ h.devices \subseteq Devices
                        /\ h.switches \subseteq Switches
                        /\ h.p2p \in BOOLEAN
                        /\ h.p2p => "p2p" \in Types
    /\ Succeeds \subseteq BOOLEAN

Outcomes == [answer : [host.devices -> Answers], ok : Succeeds]

Init ==
    /\ host \in Hosts
    /\ \E saved \in [Types -> BOOLEAN], offline \in BOOLEAN :
          w = [tech |-> [t \in Types |-> NoTechnology], technology_list |-> <<>>,
               dev |-> [d \in Devices |-> NewDevice],
               rfkill |-> [i \in Switches |-> NoSwitch],
               kernel |-> [i \in Switches |-> NoSwitch], events |-> <<>>,
               saved |-> saved, offline |-> offline, saved_offline |-> offline]

\* Another source of the main loop gets its turn.
Room == Len(w.events) < MaxEvents

\* SetProperty of Powered.
SetPowered(t, on) ==
    /\ Room
    /\ w.tech[t].dbus_registered
    /\ \E o \in Outcomes : w' = set_powered(w, t, on, o)
    /\ UNCHANGED host

\* The ten seconds of a caller are over.
CallTimeout(t) ==
    /\ w.tech[t].pending_reply
    /\ w' = technology_pending_reply(w, t)
    /\ UNCHANGED host

\* The four seconds of a device are over.
DeviceTimeout(d) ==
    /\ w.dev[d].pending_timeout
    /\ w' = device_pending_reset(w, d)
    /\ UNCHANGED host

\* SetProperty of OfflineMode.
SetOffline(on) ==
    /\ Room
    /\ \E o \in Outcomes : w' = __connman_technology_set_offlinemode(w, on, o)
    /\ UNCHANGED host

\* A driver finds a device.
DeviceFound(d) ==
    /\ Room
    /\ ~w.dev[d].driver
    /\ \E o \in Outcomes : w' = connman_device_register(w, d, o)
    /\ UNCHANGED host

\* connman_device_unregister().
DeviceLost(d) ==
    /\ Room
    /\ w.dev[d].driver
    /\ \E o \in Outcomes : w' = remove_device(w, d, o)
    /\ UNCHANGED host

\* The driver reports the power of its device: the late answer to a request, or
\* a change somebody else made.
DriverReports(d, on) ==
    /\ Room
    /\ w.dev[d].driver
    /\ w' = connman_device_set_powered(w, d, on)
    /\ UNCHANGED host

\* The supplicant has an interface for P2P, or has none any more.
P2pFound ==
    /\ Room
    /\ host.p2p
    /\ ~technology_find(w, "p2p")
    /\ \E o \in Outcomes : w' = technology_get(w, "p2p", o)
    /\ UNCHANGED host

P2pLost ==
    /\ Room
    /\ host.p2p
    /\ technology_find(w, "p2p")
    /\ w' = technology_put(w, "p2p")
    /\ UNCHANGED host

\* A switch appears, goes, or is turned by a key or by the rfkill command.
SwitchTurned(i, present, soft, hard) ==
    LET k == [present |-> present, soft |-> soft, hard |-> hard]
        op == IF ~present THEN "DEL" ELSE IF w.kernel[i].present THEN "CHANGE" ELSE "ADD"
    IN  /\ Room
        /\ k # w.kernel[i]
        /\ present \/ k = NoSwitch
        /\ w' = [w EXCEPT !.kernel[i] = k,
                          !.events = Append(@, [op |-> op, index |-> i,
                                                soft |-> soft, hard |-> hard])]
        /\ UNCHANGED host

RfkillEvent ==
    /\ w.events # <<>>
    /\ \E o \in Outcomes :
          w' = rfkill_process([w EXCEPT !.events = Tail(@)], Head(w.events), o)
    /\ UNCHANGED host

Next ==
    \/ \E t \in Types : CallTimeout(t) \/ \E on \in BOOLEAN : SetPowered(t, on)
    \/ \E on \in BOOLEAN : SetOffline(on)
    \/ \E d \in host.devices :
          \/ DeviceFound(d) \/ DeviceLost(d) \/ DeviceTimeout(d)
          \/ \E on \in BOOLEAN : DriverReports(d, on)
    \/ P2pFound \/ P2pLost
    \/ \E i \in host.switches, present, soft, hard \in BOOLEAN :
          SwitchTurned(i, present, soft, hard)
    \/ RfkillEvent

Spec == Init /\ [][Next]_vars

-----------------------------------------------------------------------------
\* The records keep their types, and technology_list holds every technology
\* that is in use exactly once.
TypeOK ==
    /\ w.dev \in [Devices -> DeviceRecords]
    /\ \A t \in Types :
          /\ w.tech[t].refcount \in 0..(Cardinality(Devices) + Cardinality(Switches))
          /\ \A f \in {"enabled", "enable_persistent", "pending_reply", "rfkill_driven",
                       "softblocked", "hardblocked", "dbus_registered"} : w.tech[t][f] \in BOOLEAN
          /\ Cardinality({i \in 1..Len(w.technology_list) : w.technology_list[i] = t})
                = IF technology_find(w, t) THEN 1 ELSE 0
    /\ w.saved \in [Types -> BOOLEAN]
    /\ {w.offline, w.saved_offline} \subseteq BOOLEAN

\* Users of a technology: its devices with a driver, its switches, and the
\* driver of P2P for P2P.
Users(t) ==
    {d \in Devices : w.dev[d].driver /\ TypeOf[d] = t}
        \union {i \in Switches : w.rfkill[i].present /\ t = RfkillType}

\* technology_get() and technology_put() count every device and every switch
\* once: a technology is there as long as something uses it, and no longer.
RefsCounted ==
    \A t \in Types \ {"p2p"} : w.tech[t].refcount = Cardinality(Users(t))

\* Where a switch decides, a technology is on exactly when nothing blocks it
\* ("Technologies cannot be activated while rfkill switch is turned on"), in
\* whatever order devices, callers, offline mode and events come.
SwitchDecides ==
    \A t \in Types : w.tech[t].rfkill_driven =>
        (w.tech[t].enabled <=> ~w.tech[t].softblocked /\ ~w.tech[t].hardblocked)

\* technology_apply_rfkill_change(): the technology is hard-blocked when all its
\* switches are and not hard-blocked when none is, after any switch came, went
\* or changed.
HardblockAgrees ==
    LET here == {i \in Switches : w.rfkill[i].present}
    IN  here # {} =>
            /\ (\A i \in here : w.rfkill[i].hard) => w.tech[RfkillType].hardblocked
            /\ (\A i \in here : ~w.rfkill[i].hard) => ~w.tech[RfkillType].hardblocked

\* Without a switch, a technology is powered exactly while one of its devices
\* is: the reports of several devices, their requests, and devices that come
\* and go never leave it on or off alone.
PoweredByDevices ==
    \A t \in Types \ {"p2p"} : technology_find(w, t) /\ ~w.tech[t].rfkill_driven =>
        (w.tech[t].enabled <=> \E d \in Listed(w, t) : w.dev[d].powered)

\* powered_pending "Indicates a pending enable/disable request": while it does,
\* the four seconds that reset it are running.
PendingIsTimed ==
    \A d \in Devices : (w.dev[d].powered_pending # "NONE") <=> w.dev[d].pending_timeout

\* At most one caller waits for a technology that is there, the one pending_reply
\* remembers: no request takes the place of one that was not answered.  A call
\* that waits when the technology goes is dropped by technology_put().
CallerRemembered ==
    \A t \in Types : technology_find(w, t) =>
        w.tech[t].callers = IF w.tech[t].pending_reply THEN 1 ELSE 0

-----------------------------------------------------------------------------
(* The hosts of the configuration. *)

WifiEthernet == [d \in Devices |-> IF d = "eth0" THEN "ethernet" ELSE "wifi"]

\* Two switches for one wifi device; two wifi devices beside an ethernet one; a
\* wifi device that can do P2P and its switch.
Laptop == [devices |-> {"wlan0"}, switches |-> {"s1", "s2"}, p2p |-> FALSE]
Router == [devices |-> {"wlan0", "wlan1", "eth0"}, switches |-> {}, p2p |-> FALSE]
Phone == [devices |-> {"wlan0"}, switches |-> {"s1"}, p2p |-> TRUE]

AllHosts == {Laptop, Router, Phone}
=============================================================================

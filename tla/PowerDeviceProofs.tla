-------------------------- MODULE PowerDeviceProofs -------------------------
(***************************************************************************)
(* The invariant of the power of technologies and devices (module Power),  *)
(* and that the functions of src/technology.c and src/device.c keep it,    *)
(* with any number of devices and switches and any answers of the drivers. *)
(* PowerProofs composes them to the steps.                                 *)
(*                                                                         *)
(* That a technology is on exactly while a device of it is (ByDevices), or *)
(* while its switch says so (BySwitch), is not inductive alone.  A report  *)
(* of a device walks the list of its technology, so the list must hold its *)
(* devices with a driver, each once (Lists); the technology must be there  *)
(* when a device reports, so its counter must cover its users (Held); and  *)
(* one that is put for the last time must have no state (Bare), nor a      *)
(* device without a driver (Blank), for the next that takes its place.     *)
(*                                                                         *)
(* Works(x) and Shape(x, H, X) state this of a world x on a host with the  *)
(* devices H; X holds the device that is just being added or removed,      *)
(* which is not listed or not counted while other functions run.           *)
(***************************************************************************)
EXTENDS Power, TLAPS

\* Facts about natural numbers and finite sets that the lemmas below take as
\* hypotheses: every set of natural numbers has a least element, which is how
\* they do induction along lists, and devices and switches can be counted.
Induction == \A T \in SUBSET Nat : T # {} => \E n \in T : \A m \in T : n <= m

Countable(S) ==
    /\ \A T \in SUBSET S : Cardinality(T) \in Nat /\ (Cardinality(T) = 0 <=> T = {})
    /\ \A T \in SUBSET S : \A c \in S \ T : Cardinality(T \union {c}) = Cardinality(T) + 1
    /\ \A T \in SUBSET S : \A R \in SUBSET T : Cardinality(R) <= Cardinality(T)

Listable(S) ==
    \A T \in SUBSET S :
        \E q \in [1..Cardinality(T) -> T] : \A c \in T : \E i \in DOMAIN q : q[i] = c

Basics == Induction /\ Countable(Devices) /\ Countable(Switches) /\ Listable(Switches)

\* The types of the state.
SwitchRecords == [present : BOOLEAN, soft : BOOLEAN, hard : BOOLEAN]

EventRecords ==
    [op : {"ADD", "DEL", "CHANGE"}, index : Switches, soft : BOOLEAN, hard : BOOLEAN]

TechRecords ==
    [refcount : Nat, enabled : BOOLEAN, enable_persistent : BOOLEAN, pending_reply : BOOLEAN,
     callers : Int, rfkill_driven : BOOLEAN, softblocked : BOOLEAN, hardblocked : BOOLEAN,
     dbus_registered : BOOLEAN, device_list : Seq(Devices)]

Worlds ==
    [tech : [Types -> TechRecords], technology_list : Seq(Types),
     dev : [Devices -> DeviceRecords], rfkill : [Switches -> SwitchRecords],
     kernel : [Switches -> SwitchRecords], events : Seq(EventRecords),
     saved : [Types -> BOOLEAN], offline : BOOLEAN, saved_offline : BOOLEAN]

\* pending_reply remembers the only caller.
CallersOk(x) == \A t \in Types : x.tech[t].callers = IF x.tech[t].pending_reply THEN 1 ELSE 0

\* A technology that is not there has no state.
Bare(x) == \A t \in Types : x.tech[t].refcount = 0 => x.tech[t] = NoTechnology

\* Nor has a device without a driver.
Blank(x) == \A d \in Devices : ~x.dev[d].driver => x.dev[d] = NewDevice

\* A technology without a switch is on exactly while one of its devices is.
ByDevices(x) ==
    \A t \in Types \ {"p2p"} : x.tech[t].refcount > 0 /\ ~x.tech[t].rfkill_driven =>
        (x.tech[t].enabled <=> \E d \in Devices : TypeOf[d] = t /\ x.dev[d].powered)

\* A technology with one is on exactly while nothing blocks it.
BySwitch(x) ==
    \A t \in Types : x.tech[t].rfkill_driven =>
        (x.tech[t].enabled <=> ~x.tech[t].softblocked /\ ~x.tech[t].hardblocked)

\* No driver answers a request with an error.
\* Every driver reports a device off that is removed, as wifi_remove() does.
AllReport == ReportsOff = Devices

NoFailure == Answers \subseteq {"0", "EALREADY", "EINPROGRESS"}

\* A device has a request under way exactly while its timeout runs.
Timed(x) ==
    NoFailure => \A d \in Devices : (x.dev[d].powered_pending # "NONE") <=> x.dev[d].pending_timeout

\* Only one technology can have switches.
Driven(x) == \A t \in Types : x.tech[t].rfkill_driven => t = RfkillType

\* A list without duplicates, and one that holds d.
Once(q) == \A i, j \in 1..Len(q) : q[i] = q[j] => i = j
Holds(q, d) == \E i \in 1..Len(q) : q[i] = d

\* The list of technologies holds technologies that somebody uses, each once.
InUse(x) ==
    /\ \A i \in 1..Len(x.technology_list) : x.tech[x.technology_list[i]].refcount > 0
    /\ Once(x.technology_list)

\* The list of a technology holds its devices with a driver once, without those of X.
Lists(x, X) ==
    \A t \in Types \ {"p2p"} :
        /\ Once(x.tech[t].device_list)
        /\ \A d \in Devices :
              Holds(x.tech[t].device_list, d) <=> (x.dev[d].driver /\ TypeOf[d] = t /\ d \notin X)

\* The technology of a known switch is driven by it.
Present(x) == \A i \in Switches : x.rfkill[i].present => x.tech[RfkillType].rfkill_driven

\* Only devices of the host have a driver.
Owned(x, H) == \A d \in Devices : x.dev[d].driver => d \in H

\* The users of a technology: devices and switches.
DevUsers(x, t, X) == {d \in Devices : x.dev[d].driver /\ TypeOf[d] = t /\ d \notin X}
SwUsers(x, t) == {i \in Switches : t = RfkillType /\ x.rfkill[i].present}

\* Every user of a technology, the devices of X aside, holds a reference.
Held(x, X) ==
    \A t \in Types \ {"p2p"} :
        Cardinality(DevUsers(x, t, X)) + Cardinality(SwUsers(x, t)) <= x.tech[t].refcount

\* The part of the invariant about lists and references, the devices of X aside.
Shape(x, H, X) ==
    Driven(x) /\ InUse(x) /\ Lists(x, X) /\ Present(x) /\ Owned(x, H) /\ Held(x, X)

\* The part about power.
Powers(x) == x \in Worlds /\ CallersOk(x) /\ Bare(x) /\ Blank(x) /\ ByDevices(x) /\ BySwitch(x)

\* What drivers and the kernel may answer.
Outs(H) == [answer : [H -> Answers], ok : Succeeds]

\* y differs from x in the power of technologies and devices only, and no caller
\* waits who did not.
SameTech(a, b) ==
    /\ b.refcount = a.refcount
    /\ b.rfkill_driven <=> a.rfkill_driven
    /\ b.softblocked <=> a.softblocked
    /\ b.hardblocked <=> a.hardblocked
    /\ b.dbus_registered <=> a.dbus_registered
    /\ b.device_list = a.device_list
    /\ b.pending_reply => a.pending_reply

SameShape(x, y) ==
    /\ y.technology_list = x.technology_list
    /\ y.rfkill = x.rfkill
    /\ \A t \in Types : SameTech(x.tech[t], y.tech[t])
    /\ \A d \in Devices : y.dev[d].driver <=> x.dev[d].driver

\* The same technologies are in use, by the same devices and switches.
SameUse(x, y) ==
    /\ y.technology_list = x.technology_list
    /\ y.rfkill = x.rfkill
    /\ \A t \in Types :
          /\ y.tech[t].refcount = x.tech[t].refcount
          /\ y.tech[t].rfkill_driven <=> x.tech[t].rfkill_driven
          /\ y.tech[t].device_list = x.tech[t].device_list
    /\ \A d \in Devices : y.dev[d].driver <=> x.dev[d].driver

\* SameShape holds along a sequence of calls.
LEMMA SameShapeTrans ==
    ASSUME NEW x, NEW y, NEW z, SameShape(x, y), SameShape(y, z)
    PROVE  SameShape(x, z)
  BY DEF SameShape, SameTech

\* References that covered the users of a technology still do when neither changes.
LEMMA SameUseHeld ==
    ASSUME NEW x, NEW y, NEW X, SameUse(x, y), Held(x, X)
    PROVE  Held(y, X)
<1>1. \A t \in Types : DevUsers(y, t, X) = DevUsers(x, t, X) /\ SwUsers(y, t) = SwUsers(x, t)
  BY DEF DevUsers, SwUsers, SameUse
<1>2. QED BY <1>1 DEF Held, SameUse

\* The lists and the counters of technologies survive what does not touch their use.
LEMMA SameUseKeeps ==
    ASSUME NEW x \in Worlds, NEW y \in Worlds, NEW H, NEW X, SameUse(x, y), Shape(x, H, X)
    PROVE  Shape(y, H, X)
<1>3. Lists(y, X)
  <2>1. \A t \in Types : y.tech[t].device_list = x.tech[t].device_list BY DEF SameUse
  <2>2. \A d \in Devices : y.dev[d].driver <=> x.dev[d].driver BY DEF SameUse
  <2>3. Lists(x, X) BY DEF Shape
  <2>4. QED BY <2>1, <2>2, <2>3 DEF Lists
<1> USE PowerAssumption DEF SameUse, Shape
<1>1. Driven(y) BY DEF Driven
<1>2. InUse(y)
  <2>1. \A i \in 1..Len(x.technology_list) : x.technology_list[i] \in Types BY DEF Worlds
  <2>2. QED BY <2>1 DEF InUse
<1>4. Present(y) BY DEF Present
<1>5. Owned(y, H) BY DEF Owned
<1>6. Held(y, X) BY SameUseHeld
<1>7. QED BY <1>1, <1>2, <1>3, <1>4, <1>5, <1>6

\* A change of power only is no change of use.
LEMMA SameShapeUse == ASSUME NEW x, NEW y, SameShape(x, y) PROVE SameUse(x, y)
  BY DEF SameShape, SameTech, SameUse

\* So a change of power keeps the lists and the counters.
LEMMA SameShapeKeeps ==
    ASSUME NEW x \in Worlds, NEW y \in Worlds, NEW H, NEW X, SameShape(x, y), Shape(x, H, X)
    PROVE  Shape(y, H, X)
  BY SameShapeUse, SameUseKeeps

-----------------------------------------------------------------------------

\* Assignments to one technology and to one device.
PutTech(x, t, a) == [x EXCEPT !.tech[t] = a]
PutDev(x, d, a) == [x EXCEPT !.dev[d] = a]

\* y is x with the record a for the technology t, or for the device d.
IsPutTech(x, y, t, a) ==
    /\ y \in Worlds
    /\ y.tech[t] = a
    /\ \A u \in Types \ {t} : y.tech[u] = x.tech[u]
    /\ y.dev = x.dev /\ y.technology_list = x.technology_list /\ y.rfkill = x.rfkill
    /\ y.offline = x.offline /\ y.saved_offline = x.saved_offline /\ y.saved = x.saved
    /\ y.kernel = x.kernel /\ y.events = x.events

IsPutDev(x, y, d, a) ==
    /\ y \in Worlds
    /\ y.dev[d] = a
    /\ \A e \in Devices \ {d} : y.dev[e] = x.dev[e]
    /\ y.tech = x.tech /\ y.technology_list = x.technology_list /\ y.rfkill = x.rfkill
    /\ y.offline = x.offline /\ y.saved_offline = x.saved_offline /\ y.saved = x.saved
    /\ y.kernel = x.kernel /\ y.events = x.events

\* What is known of a world whose technology t became a: all else is as it was.
LEMMA PutTechIs ==
    ASSUME NEW x \in Worlds, NEW t \in Types, NEW a \in TechRecords
    PROVE  IsPutTech(x, PutTech(x, t, a), t, a)
  BY Zenon DEF Worlds, PutTech, IsPutTech

\* The same of a device.
LEMMA PutDevIs ==
    ASSUME NEW x \in Worlds, NEW d \in Devices, NEW a \in DeviceRecords
    PROVE  IsPutDev(x, PutDev(x, d, a), d, a)
  BY Zenon DEF Worlds, PutDev, IsPutDev

\* The second of two assignments to a technology counts.
LEMMA PutTwice ==
    ASSUME NEW x \in Worlds, NEW t \in Types, NEW a, NEW b
    PROVE  PutTech(PutTech(x, t, a), t, b) = PutTech(x, t, b)
  BY Zenon DEF PutTech, Worlds

\* AnswerCaller(), as a change of the technology's record.
Answered(c) == IF c.pending_reply THEN CallEnds(c) ELSE c

\* The reply to a caller touches nothing but pending_reply and the callers that wait.
LEMMA AnsweredIs ==
    ASSUME NEW c \in TechRecords
    PROVE  /\ Answered(c) \in TechRecords
           /\ SameTech(c, Answered(c))
           /\ ~Answered(c).pending_reply
           /\ Answered(c).enabled <=> c.enabled
           /\ Answered(c).enable_persistent <=> c.enable_persistent
           /\ c.callers = (IF c.pending_reply THEN 1 ELSE 0) => Answered(c).callers = 0
<1>1. CASE c.pending_reply
  <2>1. c.callers - 1 \in Int BY DEF TechRecords
  <2>2. Answered(c) = [c EXCEPT !.pending_reply = FALSE, !.callers = c.callers - 1]
    BY <1>1 DEF Answered, CallEnds
  <2>3. Answered(c) \in TechRecords BY Zenon, <2>1, <2>2 DEF TechRecords
  <2>4. QED BY <1>1, <2>2, <2>3 DEF TechRecords, SameTech
<1>2. CASE ~c.pending_reply BY <1>2 DEF Answered, TechRecords, SameTech
<1>3. QED BY <1>1, <1>2

\* technology_pending_reply() and its kin answer the caller of one technology.
LEMMA AnswerCallerIs ==
    ASSUME NEW x \in Worlds, NEW t \in Types
    PROVE  AnswerCaller(x, t) = PutTech(x, t, Answered(x.tech[t]))
<1>1. CASE x.tech[t].pending_reply
  BY <1>1, Zenon DEF AnswerCaller, Answered, PutTech
<1>2. CASE ~x.tech[t].pending_reply
  <2>1. [x EXCEPT !.tech[t] = x.tech[t]] = x BY DEF Worlds
  <2>2. QED BY <1>2, <2>1 DEF AnswerCaller, Answered, PutTech
<1>3. QED BY <1>1, <1>2

\* What switching one technology on or off does.
Turned(x, y, t, on) ==
    /\ y \in Worlds
    /\ CallersOk(y)
    /\ SameShape(x, y)
    /\ y.dev = x.dev
    /\ y.tech[t].enabled <=> on
    /\ \A u \in Types \ {t} : y.tech[u] = x.tech[u]

\* technology->enabled is set, and the caller that waited for it is answered.
LEMMA SetEnabledTurns ==
    ASSUME NEW x \in Worlds, CallersOk(x), NEW t \in Types, NEW on \in BOOLEAN
    PROVE  Turned(x, SetEnabled(x, t, on), t, on)
<1> DEFINE c == x.tech[t]
           e == [c EXCEPT !.enabled = on]
           a == IF c.dbus_registered THEN Answered(e) ELSE e
           v == PutTech(x, t, e)
           y == PutTech(x, t, a)
<1>1. c \in TechRecords BY DEF Worlds
<1>2. e \in TechRecords /\ SameTech(c, e) /\ (e.enabled <=> on) /\ e.callers = c.callers
      /\ (e.pending_reply <=> c.pending_reply) /\ (e.dbus_registered <=> c.dbus_registered)
  BY <1>1 DEF TechRecords, SameTech
<1>3. /\ a \in TechRecords /\ SameTech(c, a) /\ (a.enabled <=> on)
      /\ a.callers = IF a.pending_reply THEN 1 ELSE 0
  <2> HIDE DEF e
  <2>1. SameTech(e, Answered(e)) => SameTech(c, Answered(e)) BY <1>2 DEF SameTech
  <2>2. e.callers = IF e.pending_reply THEN 1 ELSE 0 BY <1>2 DEF CallersOk
  <2>3. QED BY <1>2, <2>1, <2>2, AnsweredIs
<1>4. SetEnabled(x, t, on) = y
  <2>1. [x EXCEPT !.tech[t].enabled = on] = v BY DEF Worlds, PutTech
  <2> HIDE DEF e
  <2>2. v \in Worlds /\ v.tech[t] = e BY <1>2, PutTechIs DEF IsPutTech
  <2>4. AnswerCaller(v, t) = PutTech(x, t, Answered(e))
    BY <2>2, PutTwice, AnswerCallerIs
  <2>5. SetEnabled(x, t, on) = IF e.dbus_registered THEN AnswerCaller(v, t) ELSE v
    BY <2>1, <2>2, Zenon DEF SetEnabled, powered_changed
  <2>6. QED BY <2>4, <2>5, <1>2
<1> HIDE DEF a
<1>5. IsPutTech(x, y, t, a) BY <1>3, PutTechIs
<1> HIDE DEF y
<1>9. CallersOk(y) BY <1>5, <1>3 DEF CallersOk, IsPutTech
<1>10. SameShape(x, y)
  <2>1. \A u \in Types : SameTech(x.tech[u], y.tech[u]) BY <1>5, <1>3 DEF SameTech, IsPutTech
  <2>2. QED BY <2>1, <1>5 DEF SameShape, IsPutTech
<1>11. QED BY <1>4, <1>5, <1>3, <1>9, <1>10 DEF Turned, IsPutTech

-----------------------------------------------------------------------------
\* What technology_enabled() and technology_disabled() do to a technology that
\* is there: P2P may come along.
Switched(x, y, t, on) ==
    /\ y \in Worlds
    /\ CallersOk(y)
    /\ Bare(y)
    /\ SameShape(x, y)
    /\ y.dev = x.dev
    /\ y.tech[t].enabled <=> on
    /\ \A u \in Types \ {t, "p2p"} : y.tech[u] = x.tech[u]

\* technology_enabled() turns its technology on, in offline mode too.
LEMMA EnabledSwitches ==
    ASSUME NEW x \in Worlds, CallersOk(x), Bare(x), NEW t \in Types, x.tech[t].refcount > 0
    PROVE  Switched(x, technology_enabled(x, t), t, TRUE)
<1>0. \A a \in TechRecords : a.refcount \in Nat BY DEF TechRecords
<1>1. CASE x.tech[t].enabled
  <2>1. technology_enabled(x, t) = x BY <1>1 DEF technology_enabled
  <2>2. QED BY <1>1, <2>1 DEF Switched, SameShape, SameTech
<1>2. CASE ~x.tech[t].enabled
  <2> DEFINE p == /\ t = "wifi"
                  /\ technology_find(x, "p2p")
                  /\ ~x.tech["p2p"].enabled
                  /\ x.tech["p2p"].enable_persistent
             v == IF p THEN SetEnabled(x, "p2p", TRUE) ELSE x
             y == SetEnabled(v, t, TRUE)
  <2>1. technology_enabled(x, t) = y BY <1>2, Zenon DEF technology_enabled
  <2>2. /\ v \in Worlds /\ CallersOk(v) /\ SameShape(x, v) /\ v.dev = x.dev
        /\ \A u \in Types \ {"p2p"} : v.tech[u] = x.tech[u]
        /\ "p2p" \in Types => (v.tech["p2p"] = x.tech["p2p"] \/ x.tech["p2p"].refcount > 0)
    <3>1. CASE p
      <4>1. "p2p" \in Types /\ x.tech["p2p"].refcount > 0 BY <3>1 DEF technology_find
      <4>2. Turned(x, v, "p2p", TRUE) BY Zenon, <3>1, <4>1, SetEnabledTurns
      <4>3. QED BY Zenon, <4>1, <4>2 DEF Turned
    <3>2. CASE ~p BY Zenon, <3>2 DEF SameShape, SameTech
    <3>3. QED BY Zenon, <3>1, <3>2
  <2> HIDE DEF v
  <2>3. Turned(v, y, t, TRUE) BY Zenon, <2>2, SetEnabledTurns
  <2> HIDE DEF y
  <2>4. SameShape(x, y) BY <2>2, <2>3, SameShapeTrans DEF Turned
  <2>5. Bare(y)
    <3> SUFFICES ASSUME NEW u \in Types, y.tech[u].refcount = 0 PROVE y.tech[u] = NoTechnology
      BY DEF Bare
    <3>1. x.tech[u].refcount = 0 BY <2>4 DEF SameShape, SameTech
    <3>2. u # t BY <3>1
    <3>3. y.tech[u] = v.tech[u] BY <2>3, <3>2 DEF Turned
    <3>4. v.tech[u] = x.tech[u] BY <2>2, <3>1
    <3>5. QED BY <3>1, <3>3, <3>4 DEF Bare
  <2>6. QED BY <2>1, <2>2, <2>3, <2>4, <2>5 DEF Switched, Turned
<1>3. QED BY Zenon, <1>1, <1>2

\* technology_disabled() turns its technology off and leaves the others alone.
LEMMA DisabledSwitches ==
    ASSUME NEW x \in Worlds, CallersOk(x), Bare(x), NEW t \in Types, x.tech[t].refcount > 0
    PROVE  /\ Switched(x, technology_disabled(x, t), t, FALSE)
           /\ \A u \in Types \ {t} : technology_disabled(x, t).tech[u] = x.tech[u]
<1>1. CASE ~x.tech[t].enabled
  <2>1. technology_disabled(x, t) = x BY <1>1 DEF technology_disabled
  <2>2. QED BY <1>1, <2>1 DEF Switched, SameShape, SameTech
<1>2. CASE x.tech[t].enabled
  <2> DEFINE y == technology_disabled(x, t)
  <2>1. Turned(x, y, t, FALSE) BY Zenon, <1>2, SetEnabledTurns DEF technology_disabled
  <2> HIDE DEF y
  <2>2. Bare(y) BY <2>1 DEF Turned, Bare, SameShape, SameTech
  <2>3. Switched(x, y, t, FALSE) /\ \A u \in Types \ {t} : y.tech[u] = x.tech[u]
    BY <2>1, <2>2 DEF Switched, Turned
  <2>4. QED BY Zenon, <2>3 DEF y
<1>3. QED BY Zenon, <1>1, <1>2

-----------------------------------------------------------------------------

\* A device whose request is over.
Settled(c, on) == [c EXCEPT !.pending_timeout = FALSE, !.powered_pending = "NONE", !.powered = on]

\* A device whose request is over: its record.
LEMMA SettledIs ==
    ASSUME NEW c \in DeviceRecords, NEW on \in BOOLEAN
    PROVE  /\ Settled(c, on) \in DeviceRecords
           /\ Settled(c, on).driver <=> c.driver
           /\ Settled(c, on).powered <=> on
           /\ Settled(c, on).powered_pending = "NONE"
           /\ ~Settled(c, on).pending_timeout
<1>1. Settled(c, on) \in DeviceRecords BY Zenon DEF Settled, DeviceRecords, PendingTypes
<1>2. QED BY <1>1 DEF Settled, DeviceRecords

\* connman_device_set_powered() ends the request before it reports.
LEMMA SettledPowerIs ==
    ASSUME NEW x \in Worlds, NEW d \in Devices, NEW on \in BOOLEAN
    PROVE  /\ SettledPower(x, d, on) = PutDev(x, d, Settled(x.dev[d], on))
           /\ IsPutDev(x, SettledPower(x, d, on), d, Settled(x.dev[d], on))
<1>1. SettledPower(x, d, on) = PutDev(x, d, Settled(x.dev[d], on))
  BY Zenon DEF SettledPower, PutDev, Settled
<1>2. x.dev[d] \in DeviceRecords BY DEF Worlds
<1>3. QED BY <1>1, <1>2, SettledIs, PutDevIs

\* A device is reported on or off.
Reported(x, y, d, on) ==
    /\ Powers(y)
    /\ SameShape(x, y)
    /\ y.dev[d] = IF x.dev[d].powered = on THEN x.dev[d] ELSE Settled(x.dev[d], on)
    /\ \A e \in Devices \ {d} : y.dev[e] = x.dev[e]

\* connman_device_set_powered(), the report to the technology included: the
\* technology is on exactly while a device of it is.
LEMMA SetPoweredKeeps ==
    ASSUME NEW x, Powers(x), NEW H, NEW d \in Devices, NEW X \in SUBSET {d}, Shape(x, H, X),
           x.dev[d].driver, NEW on \in BOOLEAN,
           NEW y, y = connman_device_set_powered(x, d, on)
    PROVE  Reported(x, y, d, on)
<1> USE PowerAssumption DEF Reported
<1>1. CASE x.dev[d].powered = on
  <2>1. y = x BY <1>1 DEF connman_device_set_powered
  <2>2. QED BY <1>1, <2>1 DEF SameShape, SameTech
<1>2. CASE x.dev[d].powered # on
  <2> DEFINE u == SettledPower(x, d, on)
             t == TypeOf[d]
  <2>0. x \in Worlds /\ x.dev[d] \in DeviceRecords /\ x.dev \in [Devices -> DeviceRecords]
        /\ x.tech \in [Types -> TechRecords] /\ t \in Types \ {"p2p"}
    BY DEF Powers, Worlds
  <2>1. IsPutDev(x, u, d, Settled(x.dev[d], on)) BY <2>0, SettledPowerIs
  <2> HIDE DEF u, t
  <2>2. /\ u \in Worlds
        /\ u.dev[d] = Settled(x.dev[d], on)
        /\ \A e \in Devices \ {d} : u.dev[e] = x.dev[e]
        /\ u.tech = x.tech
        /\ SameShape(x, u)
    BY <2>0, <2>1, SettledIs DEF IsPutDev, SameShape, SameTech
  <2>3. (u.dev[d].powered <=> on) /\ u.dev[d].driver BY <2>0, <2>2, SettledIs
  <2>4. CallersOk(u) /\ Bare(u) /\ BySwitch(u) BY <2>2 DEF Powers, CallersOk, Bare, BySwitch
  <2>5. Blank(u) BY <2>2, <2>3 DEF Powers, Blank
  <2>6. ASSUME NEW s \in Types \ {"p2p"}, s # t, x.tech[s].refcount > 0, ~x.tech[s].rfkill_driven
        PROVE  x.tech[s].enabled <=> \E e \in Devices : TypeOf[e] = s /\ u.dev[e].powered
    BY <2>2, <2>6 DEF Powers, ByDevices, t
  <2>7. CASE technology_find(u, t) /\ ~u.tech[t].rfkill_driven /\ on
    <3>1. y = technology_enabled(u, t)
      BY <1>2, <2>7, Zenon DEF connman_device_set_powered, u, t, __connman_technology_enabled
    <3>2. u.tech[t].refcount > 0 BY <2>7 DEF technology_find
    <3>3. Switched(u, y, t, TRUE) BY Zenon, <2>0, <2>2, <2>4, <3>1, <3>2, EnabledSwitches
    <3>4. SameShape(x, y) BY <3>3, <2>2, SameShapeTrans DEF Switched
    <3>5. ByDevices(y)
      <4> SUFFICES ASSUME NEW s \in Types \ {"p2p"}, y.tech[s].refcount > 0,
                          ~y.tech[s].rfkill_driven
                   PROVE  y.tech[s].enabled <=> \E e \in Devices : TypeOf[e] = s /\ y.dev[e].powered
        BY DEF ByDevices
      <4>1. CASE s = t BY Zenon, <4>1, <3>3, <2>3, <2>7 DEF Switched, t
      <4>2. CASE s # t BY <4>2, <2>6, <3>3, <2>2 DEF Switched
      <4>3. QED BY <4>1, <4>2
    <3>6. BySwitch(y)
      <4> SUFFICES ASSUME NEW s \in Types, y.tech[s].rfkill_driven
                   PROVE  y.tech[s].enabled <=> ~y.tech[s].softblocked /\ ~y.tech[s].hardblocked
        BY DEF BySwitch
      <4>1. x.tech[s].rfkill_driven BY <3>4 DEF SameShape, SameTech
      <4>2. s \notin {t, "p2p"} BY <4>1, <2>7, <2>2 DEF Shape, Driven, RfkillType
      <4>3. y.tech[s] = x.tech[s] BY <4>2, <3>3, <2>2 DEF Switched
      <4>4. QED BY <4>1, <4>3 DEF Powers, BySwitch
    <3>7. Blank(y) BY <2>5, <3>3 DEF Blank, Switched
    <3>8. QED BY <3>3, <3>4, <3>5, <3>6, <3>7, <1>2, <2>2 DEF Powers, Switched
  <2>8. CASE /\ technology_find(u, t) /\ ~u.tech[t].rfkill_driven /\ ~on
             /\ \A e \in Listed(u, t) : ~u.dev[e].powered
    <3>1. y = technology_disabled(u, t)
      BY <1>2, <2>8, Zenon DEF connman_device_set_powered, u, t, __connman_technology_disabled
    <3>2. u.tech[t].refcount > 0 BY <2>8 DEF technology_find
    <3>3. /\ Switched(u, y, t, FALSE)
          /\ \A s \in Types \ {t} : y.tech[s] = u.tech[s]
      <4>1. /\ Switched(u, technology_disabled(u, t), t, FALSE)
            /\ \A s \in Types \ {t} : technology_disabled(u, t).tech[s] = u.tech[s]
        BY Zenon, <2>0, <2>2, <2>4, <3>2, DisabledSwitches
      <4>2. QED BY Zenon, <4>1, <3>1
    <3>4. SameShape(x, y) BY <3>3, <2>2, SameShapeTrans DEF Switched
    <3>5. ASSUME NEW e \in Devices, TypeOf[e] = t PROVE ~u.dev[e].powered
      <4>1. CASE e = d BY <4>1, <2>3, <2>8
      <4>2. CASE e # d /\ ~x.dev[e].driver
        BY <4>2, <2>2 DEF Powers, Blank, NewDevice
      <4>3. CASE e # d /\ x.dev[e].driver
        <5>1. e \notin X BY <4>3
        <5>2. \E i \in 1..Len(x.tech[t].device_list) : x.tech[t].device_list[i] = e
          BY <5>1, <4>3, <3>5, <2>0 DEF Shape, Lists, Holds
        <5>3. e \in Listed(u, t) BY <5>2, <2>2 DEF Listed
        <5>4. QED BY <5>3, <2>8
      <4>4. QED BY <4>1, <4>2, <4>3
    <3>6. ByDevices(y)
      <4> SUFFICES ASSUME NEW s \in Types \ {"p2p"}, y.tech[s].refcount > 0,
                          ~y.tech[s].rfkill_driven
                   PROVE  y.tech[s].enabled <=> \E e \in Devices : TypeOf[e] = s /\ y.dev[e].powered
        BY DEF ByDevices
      <4>1. CASE s = t BY <4>1, <3>3, <3>5 DEF Switched
      <4>2. CASE s # t BY <4>2, <2>6, <3>3, <2>2 DEF Switched
      <4>3. QED BY <4>1, <4>2
    <3>7. BySwitch(y) BY <3>3, <2>8, <2>4 DEF BySwitch, Switched, SameShape, SameTech
    <3>8. Blank(y) BY <2>5, <3>3 DEF Blank, Switched
    <3>9. QED BY <3>3, <3>4, <3>6, <3>7, <3>8, <1>2, <2>2 DEF Powers, Switched
  <2>9. CASE \/ ~technology_find(u, t) \/ u.tech[t].rfkill_driven
             \/ ~on /\ \E e \in Listed(u, t) : u.dev[e].powered
    <3>1. y = u
      BY <1>2, <2>9, Zenon DEF connman_device_set_powered, u, t, __connman_technology_enabled,
         __connman_technology_disabled
    <3>2. ByDevices(u)
      <4> SUFFICES ASSUME NEW s \in Types \ {"p2p"}, u.tech[s].refcount > 0,
                          ~u.tech[s].rfkill_driven
                   PROVE  u.tech[s].enabled <=> \E e \in Devices : TypeOf[e] = s /\ u.dev[e].powered
        BY DEF ByDevices
      <4>1. CASE s = t
        <5>1. ~on BY <4>1, <2>9, <2>0 DEF technology_find
        <5>2. PICK e \in Listed(u, t) : u.dev[e].powered
          BY <4>1, <2>9, <2>0 DEF technology_find
        <5>3. PICK i \in 1..Len(x.tech[t].device_list) : x.tech[t].device_list[i] = e
          BY <5>2, <2>2 DEF Listed
        <5>4. x.tech[t].device_list \in Seq(Devices) BY <2>0 DEF TechRecords
        <5>5. e \in Devices BY <5>3, <5>4
        <5>6. TypeOf[e] = t BY <5>3, <5>5, <2>0 DEF Shape, Lists, Holds
        <5>7. e # d BY <5>1, <5>2, <2>3
        <5>8. x.dev[e].powered BY <5>2, <5>5, <5>7, <2>2
        <5>9. x.tech[t].enabled BY <5>5, <5>6, <5>8, <4>1, <2>2 DEF Powers, ByDevices
        <5>10. QED BY <4>1, <5>2, <5>5, <5>6, <5>9, <2>2
      <4>2. CASE s # t BY <4>2, <2>6, <2>2
      <4>3. QED BY <4>1, <4>2
    <3>3. QED BY <3>1, <3>2, <2>2, <2>4, <2>5, <1>2 DEF Powers
  <2>10. QED BY <2>7, <2>8, <2>9
<1>3. QED BY <1>1, <1>2

-----------------------------------------------------------------------------
\* The part of the invariant that a power request keeps, and what it leaves alone.
Works(x) == Powers(x) /\ Timed(x)

\* SameShape allows that nothing happens.
LEMMA SameShapeSelf == ASSUME NEW x PROVE SameShape(x, x)
  BY DEF SameShape, SameTech

\* Only the request of a device with a driver changes.
LEMMA RequestKeeps ==
    ASSUME NEW x, Powers(x), NEW d \in Devices, x.dev[d].driver, NEW a \in DeviceRecords,
           a.driver, a.powered <=> x.dev[d].powered,
           NEW y, IsPutDev(x, y, d, a)
    PROVE  Powers(y) /\ SameShape(x, y)
<1>1. SameShape(x, y) BY DEF SameShape, SameTech, IsPutDev
<1>2. y \in Worlds /\ CallersOk(y) /\ Bare(y) /\ BySwitch(y)
  BY DEF Powers, CallersOk, Bare, BySwitch, IsPutDev
<1>3. Blank(y) BY DEF Powers, Blank, IsPutDev
<1>4. \A e \in Devices : y.dev[e].powered <=> x.dev[e].powered BY DEF IsPutDev
<1>5. ByDevices(y) BY <1>4 DEF Powers, ByDevices, IsPutDev
<1>6. QED BY <1>1, <1>2, <1>3, <1>5 DEF Powers

\* The driver's answer to a request was taken.
Taken(x, y, d, on, answer) ==
    /\ Works(y)
    /\ SameShape(x, y)
    /\ answer = "EALREADY" => (y.dev[d].powered <=> on)

\* The answer of a driver: at once, in progress or an error.
LEMMA DriverAnsweredKeeps ==
    ASSUME NEW x, Works(x), NEW H, NEW d \in Devices, NEW X \in SUBSET {d}, Shape(x, H, X),
           x.dev[d].driver, NEW on \in BOOLEAN, x.dev[d].powered # on,
           NEW p \in {"ENABLE", "DISABLE"}, NEW answer \in Answers,
           NEW y, y = DriverAnswered([x EXCEPT !.dev[d].powered_pending = p], d, on, answer)
    PROVE  Taken(x, y, d, on, answer)
<1> USE DEF Taken
<1> DEFINE c == x.dev[d]
           a == [c EXCEPT !.powered_pending = p]
           v == PutDev(x, d, a)
<1>0. x \in Worlds /\ c \in DeviceRecords BY DEF Works, Powers, Worlds
<1>1. [x EXCEPT !.dev[d].powered_pending = p] = v BY <1>0 DEF Worlds, PutDev
<1>2. a \in DeviceRecords /\ a.driver /\ (a.powered <=> c.powered) /\ a.powered_pending = p
  BY <1>0 DEF DeviceRecords, PendingTypes
<1> HIDE DEF a
<1>3. IsPutDev(x, v, d, a) BY <1>0, <1>2, PutDevIs
<1> HIDE DEF v
<1>4. Powers(v) /\ SameShape(x, v) BY <1>2, <1>3, RequestKeeps DEF Works
<1>5. Shape(v, H, X) BY <1>4, <1>0, SameShapeKeeps DEF Powers
<1>6. v.dev[d] = a BY <1>3 DEF IsPutDev
<1>7. CASE answer \in {"0", "EALREADY"}
  <2>1. y = connman_device_set_powered(v, d, on) BY <1>1, <1>7 DEF DriverAnswered
  <2>2. v.dev[d].driver /\ v.dev[d].powered # on BY <1>2, <1>6, <1>0 DEF DeviceRecords
  <2>3. Reported(v, y, d, on) BY Zenon, <1>4, <1>5, <2>1, <2>2, SetPoweredKeeps
  <2>4. SameShape(x, y) BY <1>4, <2>3, SameShapeTrans DEF Reported
  <2>5. y.dev[d] = Settled(a, on) BY <2>2, <2>3, <1>6 DEF Reported
  <2>6. Timed(y)
    <3>1. y.dev[d].powered_pending = "NONE" /\ ~y.dev[d].pending_timeout
      BY <2>5, <1>2, SettledIs
    <3>2. \A e \in Devices \ {d} : y.dev[e] = x.dev[e] BY <2>3, <1>3 DEF IsPutDev, Reported
    <3>3. QED BY <3>1, <3>2 DEF Works, Timed
  <2>7. y.dev[d].powered <=> on BY <2>5, <1>2, SettledIs
  <2>8. QED BY <2>3, <2>4, <2>6, <2>7 DEF Works, Reported
<1>8. CASE answer = "EINPROGRESS"
  <2> DEFINE b == [a EXCEPT !.pending_timeout = TRUE]
             z == PutDev(v, d, b)
  <2>1. y = [v EXCEPT !.dev[d].pending_timeout = TRUE] BY Zenon, <1>1, <1>8 DEF DriverAnswered
  <2>2. v \in Worlds BY <1>3 DEF IsPutDev
  <2>3. y = z BY Zenon, <2>1, <2>2, <1>6 DEF Worlds, PutDev
  <2>4. /\ b \in DeviceRecords /\ b.driver /\ (b.powered <=> a.powered)
        /\ b.powered_pending = p /\ b.pending_timeout
    BY Zenon, <1>2 DEF DeviceRecords
  <2> HIDE DEF b
  <2>5. IsPutDev(v, y, d, b) BY <2>2, <2>3, <2>4, PutDevIs
  <2>6. Powers(y) /\ SameShape(v, y) BY <1>2, <1>4, <1>6, <2>4, <2>5, RequestKeeps
  <2>7. Timed(y)
    <3>1. y.dev[d] = b BY <2>5 DEF IsPutDev
    <3>2. \A e \in Devices \ {d} : y.dev[e] = x.dev[e] BY <2>5, <1>3 DEF IsPutDev
    <3>3. QED BY <3>1, <3>2, <2>4 DEF Works, Timed
  <2>8. QED BY <1>8, <2>6, <2>7, <1>4, SameShapeTrans DEF Works
<1>9. CASE answer \notin {"0", "EALREADY", "EINPROGRESS"}
  <2>1. y = v BY <1>1, <1>9 DEF DriverAnswered
  <2>2. Timed(y) BY <1>9 DEF Timed, NoFailure
  <2>3. QED BY <1>9, <2>1, <2>2, <1>4 DEF Works
<1>10. QED BY <1>7, <1>8, <1>9

\* __connman_device_enable(), whatever the driver answers.
LEMMA DeviceEnableKeeps ==
    ASSUME NEW x, Works(x), NEW H, NEW d \in Devices, NEW X \in SUBSET {d}, Shape(x, H, X),
           x.dev[d].driver, NEW o \in Outs(H)
    PROVE  LET r == __connman_device_enable(x, d, o)
           IN  Works(r.w) /\ SameShape(x, r.w) /\ (r.err = "EALREADY" => r.w.dev[d].powered)
<1> DEFINE r == __connman_device_enable(x, d, o)
           y == DriverAnswered([x EXCEPT !.dev[d].powered_pending = "ENABLE"], d, TRUE, o.answer[d])
<1>1. CASE x.dev[d].powered_pending \in {"ENABLE", "DISABLE"} \/ x.dev[d].powered \/ ~o.ok
  <2>1. r.w = x /\ (r.err = "EALREADY" => x.dev[d].powered)
    BY Zenon, <1>1 DEF __connman_device_enable
  <2>2. QED BY <2>1, SameShapeSelf
<1>2. CASE ~(x.dev[d].powered_pending \in {"ENABLE", "DISABLE"} \/ x.dev[d].powered \/ ~o.ok)
  <2>1. r = [w |-> y, err |-> o.answer[d]] BY Zenon, <1>2 DEF __connman_device_enable
  <2>2. o.answer[d] \in Answers BY DEF Outs, Shape, Owned
  <2> HIDE DEF y
  <2>3. Taken(x, y, d, TRUE, o.answer[d]) BY Zenon, <1>2, <2>2, DriverAnsweredKeeps DEF y
  <2>4. QED BY <2>1, <2>3 DEF Taken
<1>3. QED BY <1>1, <1>2

\* __connman_device_disable(), whatever the driver answers.
LEMMA DeviceDisableKeeps ==
    ASSUME NEW x, Works(x), NEW H, NEW d \in Devices, NEW X \in SUBSET {d}, Shape(x, H, X),
           x.dev[d].driver, NEW o \in Outs(H)
    PROVE  Works(__connman_device_disable(x, d, o).w)
           /\ SameShape(x, __connman_device_disable(x, d, o).w)
<1> DEFINE r == __connman_device_disable(x, d, o)
           y == DriverAnswered([x EXCEPT !.dev[d].powered_pending = "DISABLE"], d, FALSE, o.answer[d])
<1>1. CASE x.dev[d].powered_pending \in {"ENABLE", "DISABLE"} \/ ~x.dev[d].powered
  <2>1. r.w = x BY Zenon, <1>1 DEF __connman_device_disable
  <2>2. QED BY <2>1, SameShapeSelf
<1>2. CASE ~(x.dev[d].powered_pending \in {"ENABLE", "DISABLE"} \/ ~x.dev[d].powered)
  <2>1. r = [w |-> y, err |-> o.answer[d]] BY Zenon, <1>2 DEF __connman_device_disable
  <2>2. o.answer[d] \in Answers BY DEF Outs, Shape, Owned
  <2> HIDE DEF y
  <2>3. Taken(x, y, d, FALSE, o.answer[d]) BY Zenon, <1>2, <2>2, DriverAnsweredKeeps DEF y
  <2>4. QED BY <2>1, <2>3 DEF Taken
<1>3. QED BY <1>1, <1>2

-----------------------------------------------------------------------------
\* The walk of technology_affect_devices() along the devices.
IsDeviceWalk(r, b, q, on, o) ==
    r = [i \in 0..Len(q) |-> IF i = 0 THEN b ELSE SwitchDevice(r[i - 1], q[i], on, o)]

\* There is such a walk: by induction on the number of steps.
LEMMA DeviceWalkExists ==
    ASSUME Basics, NEW b, NEW q \in Seq(Devices), NEW on, NEW o
    PROVE  \E r : IsDeviceWalk(r, b, q, on, o)
<1> DEFINE P(n) == \E r : r = [i \in 0..n |-> IF i = 0 THEN b
                                              ELSE SwitchDevice(r[i - 1], q[i], on, o)]
           T == {n \in 0..Len(q) : ~P(n)}
<1>1. Len(q) \in Nat OBVIOUS
<1>2. SUFFICES ASSUME T # {} PROVE FALSE BY <1>1 DEF IsDeviceWalk
<1>3. PICK n \in T : \A m \in T : n <= m
  <2>1. T \in SUBSET Nat BY <1>1
  <2> HIDE DEF T
  <2>2. QED BY <1>2, <2>1 DEF Basics, Induction
<1>4. P(0)
  <2> DEFINE r == [i \in 0..0 |-> b]
  <2>1. r = [i \in 0..0 |-> IF i = 0 THEN b ELSE SwitchDevice(r[i - 1], q[i], on, o)] OBVIOUS
  <2>2. QED BY Zenon, <2>1
<1>5. n > 0 /\ n - 1 \in 0..Len(q) /\ P(n - 1)
  <2> HIDE DEF P
  <2>1. QED BY <1>1, <1>3, <1>4
<1>6. PICK g : g = [i \in 0..(n - 1) |-> IF i = 0 THEN b ELSE SwitchDevice(g[i - 1], q[i], on, o)]
  BY <1>5
<1> DEFINE h == [i \in 0..n |-> IF i = 0 THEN b ELSE SwitchDevice(g[i - 1], q[i], on, o)]
<1>7. \A i \in 0..(n - 1) : h[i] = g[i]
  <2>1. \A i \in 0..(n - 1) : g[i] = IF i = 0 THEN b ELSE SwitchDevice(g[i - 1], q[i], on, o)
    BY <1>6
  <2>2. QED BY <2>1, <1>5
<1>8. h = [i \in 0..n |-> IF i = 0 THEN b ELSE SwitchDevice(h[i - 1], q[i], on, o)]
  <2>1. \A i \in 0..n : i # 0 => i - 1 \in 0..(n - 1) BY <1>5
  <2>2. \A i \in 0..n : i # 0 => h[i - 1] = g[i - 1]
    <3> HIDE DEF h
    <3> QED BY <1>7, <2>1
  <2>3. QED BY Zenon, <2>2
<1>9. P(n) BY Zenon, <1>8
<1>10. QED BY Zenon, <1>3, <1>9

\* technology_affect_devices() ends where that walk ends.
LEMMA DeviceWalk ==
    ASSUME Basics, NEW x, NEW t, t # "p2p", NEW on, NEW o, x.tech[t].device_list \in Seq(Devices)
    PROVE  LET q == x.tech[t].device_list
           IN  \E r : /\ r[0] = [w |-> x, err |-> "0"]
                      /\ \A i \in 1..Len(q) : r[i] = SwitchDevice(r[i - 1], q[i], on, o)
                      /\ r[Len(q)] = technology_affect_devices(x, t, on, o)
<1> DEFINE q == x.tech[t].device_list
           b == [w |-> x, err |-> "0"]
           r == CHOOSE r : r = [i \in 0..Len(q) |-> IF i = 0 THEN b
                                   ELSE SwitchDevice(r[i - 1], q[i], on, o)]
<1>1. r = [i \in 0..Len(q) |-> IF i = 0 THEN b ELSE SwitchDevice(r[i - 1], q[i], on, o)]
  <2> HIDE DEF q, b
  <2>1. q \in Seq(Devices) BY DEF q
  <2>2. \E f : IsDeviceWalk(f, b, q, on, o) BY Zenon, <2>1, DeviceWalkExists
  <2>3. QED BY Zenon, <2>2 DEF IsDeviceWalk
<1>2. technology_affect_devices(x, t, on, o) = r[Len(q)] BY DEF technology_affect_devices
<1> HIDE DEF r
<1>3. Len(q) \in Nat OBVIOUS
<1>4. r[0] = b BY <1>1, <1>3
<1>5. \A i \in 1..Len(q) : r[i] = SwitchDevice(r[i - 1], q[i], on, o)
  <2>1. \A i \in 1..Len(q) : i \in 0..Len(q) /\ i # 0 BY <1>3
  <2>2. QED BY Zenon, <1>1, <2>1
<1>6. QED BY <1>2, <1>4, <1>5

\* The devices of a technology are switched one after the other.
LEMMA AffectKeeps ==
    ASSUME Basics, NEW x, Works(x), NEW H, Shape(x, H, {}), NEW t \in Types \ {"p2p"},
           NEW on \in BOOLEAN, NEW o \in Outs(H)
    PROVE  LET y == technology_affect_devices(x, t, on, o).w IN Works(y) /\ SameShape(x, y)
<1> DEFINE q == x.tech[t].device_list
<1>1. q \in Seq(Devices) /\ Len(q) \in Nat
  <2>1. x.tech[t] \in TechRecords BY DEF Works, Powers, Worlds
  <2>2. QED BY <2>1 DEF TechRecords
<1>2. PICK r : /\ r[0] = [w |-> x, err |-> "0"]
               /\ \A i \in 1..Len(q) : r[i] = SwitchDevice(r[i - 1], q[i], on, o)
               /\ r[Len(q)] = technology_affect_devices(x, t, on, o)
  BY <1>1, DeviceWalk
<1>3. \A i \in 1..Len(q) : q[i] \in Devices /\ x.dev[q[i]].driver
  BY <1>1 DEF Shape, Lists, Holds
<1> HIDE DEF q
<1> DEFINE P(i) == Works(r[i].w) /\ SameShape(x, r[i].w)
           T == {i \in 0..Len(q) : ~P(i)}
<1>4. P(0) BY <1>2, SameShapeSelf
<1>5. ASSUME NEW i \in 1..Len(q), P(i - 1) PROVE P(i)
  <2> DEFINE v == r[i - 1].w
             z == IF on THEN __connman_device_enable(v, q[i], o)
                  ELSE __connman_device_disable(v, q[i], o)
  <2>1. r[i].w = z.w
    <3>1. r[i] = WithError(z, r[i - 1].err) BY Zenon, <1>2 DEF SwitchDevice
    <3> HIDE DEF z
    <3>2. QED BY <3>1 DEF WithError
  <2>2. Works(v) /\ SameShape(x, v) BY <1>5
  <2> HIDE DEF v
  <2>3. Shape(v, H, {}) BY <2>2, SameShapeKeeps DEF Works, Powers
  <2>4. q[i] \in Devices /\ v.dev[q[i]].driver BY <1>3, <2>2 DEF SameShape
  <2>5. {} \in SUBSET {q[i]} OBVIOUS
  <2>6. Works(z.w) /\ SameShape(v, z.w)
    <3>1. CASE on BY Zenon, <3>1, <2>2, <2>3, <2>4, <2>5, DeviceEnableKeeps
    <3>2. CASE ~on BY Zenon, <3>2, <2>2, <2>3, <2>4, <2>5, DeviceDisableKeeps
    <3>3. QED BY <3>1, <3>2
  <2> HIDE DEF z
  <2>7. QED BY <2>1, <2>2, <2>6, SameShapeTrans
<1>6. T = {}
  <2>1. SUFFICES ASSUME T # {} PROVE FALSE OBVIOUS
  <2>2. T \in SUBSET Nat BY <1>1
  <2>3. PICK n \in T : \A m \in T : n <= m
    <3> HIDE DEF T
    <3>1. QED BY <2>1, <2>2 DEF Basics, Induction
  <2> HIDE DEF P
  <2>4. n # 0 /\ n \in 1..Len(q) BY <1>1, <1>4, <2>3
  <2>5. P(n - 1) BY <1>1, <2>3, <2>4
  <2>6. QED BY <1>5, <2>3, <2>4, <2>5
<1>7. P(Len(q))
  <2> HIDE DEF P
  <2>1. QED BY <1>1, <1>6
<1>8. QED BY <1>2, <1>7

-----------------------------------------------------------------------------
\* Only the kernel's switches and the events under way differ.
SameButKernel(x, y) ==
    /\ y \in Worlds
    /\ y.tech = x.tech /\ y.dev = x.dev /\ y.technology_list = x.technology_list
    /\ y.rfkill = x.rfkill /\ y.saved = x.saved /\ y.offline = x.offline
    /\ y.saved_offline = x.saved_offline

\* A write to /dev/rfkill changes the switches of the kernel and queues events, no more.
LEMMA KernelBlockIs ==
    ASSUME Basics, NEW x \in Worlds, NEW block \in BOOLEAN
    PROVE  SameButKernel(x, KernelBlock(x, block))
<1> DEFINE changed == {i \in Switches : x.kernel[i].present /\ x.kernel[i].soft # block}
           order == InOrder(changed)
           event(i) == [op |-> "CHANGE", index |-> i, soft |-> block, hard |-> x.kernel[i].hard]
           k == [i \in Switches |-> IF i \in changed
                            THEN [x.kernel[i] EXCEPT !.soft = block] ELSE x.kernel[i]]
           q == [n \in 1..Len(order) |-> event(order[n])]
<1>1. x.kernel \in [Switches -> SwitchRecords] /\ x.events \in Seq(EventRecords) BY DEF Worlds
<1>2. k \in [Switches -> SwitchRecords] BY <1>1 DEF SwitchRecords
<1>3. \A i \in Switches : event(i) \in EventRecords BY <1>1 DEF SwitchRecords, EventRecords
<1>4. order \in Seq(Switches)
  <2>1. changed \in SUBSET Switches OBVIOUS
  <2> HIDE DEF changed
  <2>3. Cardinality(changed) \in Nat BY <2>1 DEF Basics, Countable
  <2>5. \E f \in [1..Cardinality(changed) -> changed] : \A c \in changed : \E i \in DOMAIN f : f[i] = c
    BY Zenon, <2>1 DEF Basics, Listable
  <2>6. order \in [1..Cardinality(changed) -> changed] BY Zenon, <2>5 DEF InOrder
  <2> HIDE DEF order
  <2>7. order \in [1..Cardinality(changed) -> Switches] BY <2>1, <2>6
  <2>8. QED BY <2>3, <2>7
<1> HIDE DEF order, event
<1>5. q \in Seq(EventRecords)
  <2>1. Len(order) \in Nat /\ \A n \in 1..Len(order) : order[n] \in Switches BY <1>4
  <2>2. q \in [1..Len(order) -> EventRecords] BY <1>3, <2>1
  <2>3. QED BY <2>1, <2>2
<1>6. x.events \o q \in Seq(EventRecords) BY <1>1, <1>5
<1>7. KernelBlock(x, block) = [x EXCEPT !.kernel = k, !.events = x.events \o q]
  BY Zenon DEF KernelBlock, order, event
<1> HIDE DEF k, q
<1>8. QED BY Zenon, <1>2, <1>6, <1>7 DEF SameButKernel, Worlds

\* What the kernel does shows in connmand when it reads the events, not before.
LEMMA SameButKernelKeeps ==
    ASSUME NEW x, Works(x), NEW y, SameButKernel(x, y)
    PROVE  Works(y) /\ SameShape(x, y)
<1> USE DEF SameButKernel
<1>1. SameShape(x, y) BY DEF SameShape, SameTech
<1>2. CallersOk(y) /\ Bare(y) /\ Blank(y) BY DEF Works, Powers, CallersOk, Bare, Blank
<1>3. ByDevices(y) /\ BySwitch(y) BY DEF Works, Powers, ByDevices, BySwitch
<1>4. Timed(y) BY DEF Works, Timed
<1>5. QED BY <1>1, <1>2, <1>3, <1>4 DEF Works, Powers

\* __connman_rfkill_block(): a write that may fail, and that is never in progress.
LEMMA RfkillBlockKeeps ==
    ASSUME Basics, NEW x, Works(x), NEW t, NEW block \in BOOLEAN, NEW o
    PROVE  LET r == __connman_rfkill_block(x, t, block, o)
           IN  Works(r.w) /\ SameShape(x, r.w) /\ r.err # "EINPROGRESS"
<1> DEFINE r == __connman_rfkill_block(x, t, block, o)
<1>1. CASE t # RfkillType \/ ~o.ok
  <2>1. r.w = x /\ r.err \in {"EINVAL", "EIO"} BY Zenon, <1>1 DEF __connman_rfkill_block
  <2>2. QED BY <2>1, SameShapeSelf
<1>2. CASE t = RfkillType /\ o.ok
  <2>1. r = [w |-> KernelBlock(x, block), err |-> "0"] BY Zenon, <1>2 DEF __connman_rfkill_block
  <2>2. SameButKernel(x, KernelBlock(x, block)) BY KernelBlockIs DEF Works, Powers
  <2>3. Works(KernelBlock(x, block)) /\ SameShape(x, KernelBlock(x, block))
    BY <2>2, SameButKernelKeeps
  <2>4. QED BY <2>1, <2>3
<1>3. QED BY <1>1, <1>2

-----------------------------------------------------------------------------
\* P2P is switched alone.
LEMMA P2pKeeps ==
    ASSUME NEW x, Works(x), Driven(x), NEW y, NEW on, Switched(x, y, "p2p", on)
    PROVE  Works(y)
<1>1. \A t \in Types \ {"p2p"} : y.tech[t] = x.tech[t] BY DEF Switched
<1>2. y.dev = x.dev BY DEF Switched
<1>3. Blank(y) /\ Timed(y) BY <1>2 DEF Works, Powers, Blank, Timed
<1>4. ByDevices(y) BY <1>1, <1>2 DEF Works, Powers, ByDevices
<1>5. BySwitch(y)
  <2>1. \A t \in Types : y.tech[t].rfkill_driven => t # "p2p"
    BY DEF Switched, SameShape, SameTech, Driven, RfkillType
  <2>2. QED BY <1>1, <2>1 DEF Works, Powers, BySwitch
<1>6. QED BY <1>3, <1>4, <1>5 DEF Switched, Works, Powers

\* enable_persistent of a technology that is there.
LEMMA PersistKeeps ==
    ASSUME NEW x, Works(x), NEW t \in Types, x.tech[t].refcount > 0, NEW on \in BOOLEAN
    PROVE  LET y == [x EXCEPT !.tech[t].enable_persistent = on]
           IN  /\ Works(y)
               /\ SameShape(x, y)
               /\ \A u \in Types \ {t} : y.tech[u] = x.tech[u]
               /\ y.tech[t].enabled <=> x.tech[t].enabled
<1> DEFINE c == x.tech[t]
           a == [c EXCEPT !.enable_persistent = on]
           y == PutTech(x, t, a)
<1>0. x \in Worlds /\ c \in TechRecords BY DEF Works, Powers, Worlds
<1>1. [x EXCEPT !.tech[t].enable_persistent = on] = y BY <1>0 DEF Worlds, PutTech
<1>2. /\ a \in TechRecords /\ SameTech(c, a) /\ (a.enabled <=> c.enabled) /\ a.callers = c.callers
      /\ (a.pending_reply <=> c.pending_reply)
  BY <1>0 DEF TechRecords, SameTech
<1> HIDE DEF a
<1>3. IsPutTech(x, y, t, a) BY <1>0, <1>2, PutTechIs
<1> HIDE DEF y
<1>4. SameShape(x, y)
  <2>1. \A u \in Types : SameTech(x.tech[u], y.tech[u]) BY <1>2, <1>3 DEF SameTech, IsPutTech
  <2>2. QED BY <2>1, <1>3 DEF SameShape, IsPutTech
<1>5. \A u \in Types : (y.tech[u].enabled <=> x.tech[u].enabled)
                      /\ y.tech[u].callers = x.tech[u].callers
                      /\ (y.tech[u].pending_reply <=> x.tech[u].pending_reply)
  BY <1>2, <1>3 DEF IsPutTech
<1>6. CallersOk(y) BY <1>5 DEF Works, Powers, CallersOk
<1>7. Bare(y) BY <1>2, <1>3 DEF Works, Powers, Bare, IsPutTech, SameTech
<1>8. Blank(y) /\ Timed(y) BY <1>3 DEF Works, Powers, Blank, Timed, IsPutTech
<1>9. ByDevices(y) BY <1>3, <1>4, <1>5 DEF Works, Powers, ByDevices, IsPutTech, SameShape, SameTech
<1>10. BySwitch(y) BY <1>4, <1>5 DEF Works, Powers, BySwitch, SameShape, SameTech
<1>11. y \in Worlds BY <1>3 DEF IsPutTech
<1>12. \A u \in Types \ {t} : y.tech[u] = x.tech[u] BY <1>3 DEF IsPutTech
<1>13. QED BY <1>1, <1>4, <1>5, <1>6, <1>7, <1>8, <1>9, <1>10, <1>11, <1>12 DEF Works, Powers

-----------------------------------------------------------------------------
\* What technology_enable() and technology_disable() promise: a caller that is to
\* wait takes nobody's place.
Served(x, r, t) ==
    /\ Works(r.w)
    /\ SameShape(x, r.w)
    /\ r.err = "EINPROGRESS" => ~r.w.tech[t].pending_reply

\* technology_enable(): the switch, and the devices when there is none.
LEMMA EnableKeeps ==
    ASSUME Basics, NEW x, Works(x), NEW H, Shape(x, H, {}), NEW t \in Types, x.tech[t].refcount > 0,
           NEW o \in Outs(H)
    PROVE  Served(x, technology_enable(x, t, o), t)
<1> DEFINE r == technology_enable(x, t, o)
<1>0. x \in Worlds /\ CallersOk(x) /\ Bare(x) BY DEF Works, Powers
<1>1. CASE t = "p2p"
  <2>1. CASE technology_find(x, "wifi") /\ x.tech["wifi"].enabled
    <3>1. r.w = technology_enabled(x, t) /\ r.err \in {"EALREADY", "0"}
      BY Zenon, <1>1, <2>1 DEF technology_enable
    <3>2. Switched(x, technology_enabled(x, t), "p2p", TRUE) BY Zenon, <1>0, <1>1, EnabledSwitches
    <3>3. Works(technology_enabled(x, t)) BY Zenon, <3>2, P2pKeeps DEF Shape
    <3>4. SameShape(x, technology_enabled(x, t)) BY Zenon, <3>2 DEF Switched
    <3>5. QED BY <3>1, <3>3, <3>4 DEF Served
  <2>2. CASE ~(technology_find(x, "wifi") /\ x.tech["wifi"].enabled)
    <3>1. r.w = x /\ r.err = "0" BY Zenon, <1>1, <2>2 DEF technology_enable
    <3>2. QED BY <3>1, SameShapeSelf DEF Served
  <2>3. QED BY <2>1, <2>2
<1>2. CASE t # "p2p" /\ (x.tech[t].enabled \/ x.tech[t].pending_reply)
  <2>1. r.w = x /\ r.err \in {"EALREADY", "EBUSY"} BY Zenon, <1>2 DEF technology_enable
  <2>2. QED BY <2>1, SameShapeSelf DEF Served
<1>3. CASE t # "p2p" /\ ~x.tech[t].enabled /\ ~x.tech[t].pending_reply /\ ~x.tech[t].rfkill_driven
  <2>1. r = technology_affect_devices(x, t, TRUE, o) BY Zenon, <1>3 DEF technology_enable
  <2> HIDE DEF r
  <2>2. Works(r.w) /\ SameShape(x, r.w) BY Zenon, <1>3, <2>1, AffectKeeps
  <2>3. ~r.w.tech[t].pending_reply BY <1>3, <2>2 DEF SameShape, SameTech
  <2>4. QED BY <2>2, <2>3 DEF Served, r
<1>4. CASE t # "p2p" /\ ~x.tech[t].enabled /\ ~x.tech[t].pending_reply /\ x.tech[t].rfkill_driven
  <2> DEFINE s == __connman_rfkill_block(x, t, FALSE, o)
             y == technology_affect_devices(s.w, t, TRUE, o).w
  <2>1. r = [w |-> y, err |-> s.err] BY Zenon, <1>4 DEF technology_enable
  <2>2. Works(s.w) /\ SameShape(x, s.w) /\ s.err # "EINPROGRESS" BY Zenon, RfkillBlockKeeps
  <2> HIDE DEF s
  <2>3. Shape(s.w, H, {}) BY <1>0, <2>2, SameShapeKeeps DEF Works, Powers
  <2>4. Works(y) /\ SameShape(s.w, y) BY Zenon, <1>4, <2>2, <2>3, AffectKeeps
  <2> HIDE DEF y
  <2>5. SameShape(x, y) BY <2>2, <2>4, SameShapeTrans
  <2>6. QED BY <2>1, <2>2, <2>4, <2>5 DEF Served
<1>5. QED BY <1>1, <1>2, <1>3, <1>4

\* technology_disable() of a technology other than P2P.
LEMMA DisableTechnologyKeeps ==
    ASSUME Basics, NEW x, Works(x), NEW H, Shape(x, H, {}), NEW t \in Types \ {"p2p"},
           NEW o \in Outs(H)
    PROVE  Served(x, DisableTechnology(x, t, o), t)
<1> DEFINE r == DisableTechnology(x, t, o)
           v == technology_affect_devices(x, t, FALSE, o)
<1>1. CASE ~x.tech[t].enabled \/ x.tech[t].pending_reply
  <2>1. r.w = x /\ r.err \in {"EALREADY", "EBUSY"} BY Zenon, <1>1 DEF DisableTechnology
  <2>2. QED BY <2>1, SameShapeSelf DEF Served
<1>2. CASE x.tech[t].enabled /\ ~x.tech[t].pending_reply
  <2>1. Works(v.w) /\ SameShape(x, v.w) BY Zenon, AffectKeeps
  <2>2. r = IF x.tech[t].rfkill_driven THEN __connman_rfkill_block(v.w, t, TRUE, o) ELSE v
    BY Zenon, <1>2 DEF DisableTechnology
  <2> HIDE DEF v, r
  <2>3. CASE x.tech[t].rfkill_driven
    <3>1. r = __connman_rfkill_block(v.w, t, TRUE, o) BY <2>2, <2>3
    <3>2. Works(r.w) /\ SameShape(v.w, r.w) /\ r.err # "EINPROGRESS"
      BY Zenon, <2>1, <3>1, RfkillBlockKeeps
    <3>3. SameShape(x, r.w) BY <2>1, <3>2, SameShapeTrans
    <3>4. QED BY <3>2, <3>3 DEF Served, r
  <2>4. CASE ~x.tech[t].rfkill_driven
    <3>1. r = v BY <2>2, <2>4
    <3>2. QED BY <1>2, <2>1, <3>1 DEF Served, SameShape, SameTech, r
  <2>5. QED BY <2>3, <2>4
<1>3. QED BY <1>1, <1>2

\* technology_disable(), which also disables the P2P technology of WiFi.
LEMMA DisableKeeps ==
    ASSUME Basics, NEW x, Works(x), NEW H, Shape(x, H, {}), NEW t \in Types, x.tech[t].refcount > 0,
           NEW o \in Outs(H)
    PROVE  Served(x, technology_disable(x, t, o), t)
<1> DEFINE r == technology_disable(x, t, o)
           p == technology_find(x, "p2p") /\ x.tech["p2p"].enabled
<1>0. x \in Worlds BY DEF Works, Powers
\* P2P is disabled, and is to come back with WiFi or not.
<1>1. ASSUME NEW on \in BOOLEAN, "p2p" \in Types, x.tech["p2p"].refcount > 0,
             NEW y, y = technology_disabled([x EXCEPT !.tech["p2p"].enable_persistent = on], "p2p")
      PROVE  Works(y) /\ SameShape(x, y)
  <2> DEFINE v == [x EXCEPT !.tech["p2p"].enable_persistent = on]
  <2>1. Works(v) /\ SameShape(x, v) BY <1>1, PersistKeeps
  <2> HIDE DEF v
  <2>2. v \in Worlds /\ CallersOk(v) /\ Bare(v) BY <2>1 DEF Works, Powers
  <2>3. v.tech["p2p"].refcount > 0 BY <1>1, <2>1 DEF SameShape, SameTech
  <2>4. Driven(v) BY <1>0, <2>1, <2>2, SameShapeKeeps DEF Shape
  <2>5. Switched(v, technology_disabled(v, "p2p"), "p2p", FALSE)
    BY Zenon, <1>1, <2>2, <2>3, DisabledSwitches
  <2>6. y = technology_disabled(v, "p2p") BY <1>1 DEF v
  <2>7. Works(y) BY Zenon, <2>1, <2>4, <2>5, <2>6, P2pKeeps
  <2>8. SameShape(v, y) BY Zenon, <2>5, <2>6 DEF Switched
  <2>9. QED BY <2>1, <2>7, <2>8, SameShapeTrans
<1>2. CASE t = "p2p"
  <2> DEFINE y == technology_disabled([x EXCEPT !.tech["p2p"].enable_persistent = FALSE], "p2p")
  <2>1. r.w = y /\ r.err \in {"0", "EALREADY"} BY Zenon, <1>2 DEF technology_disable
  <2>2. Works(y) /\ SameShape(x, y) BY Zenon, <1>1, <1>2
  <2> HIDE DEF y
  <2>3. QED BY <2>1, <2>2 DEF Served
<1>3. CASE t # "p2p"
  <2> DEFINE v == IF t = "wifi" /\ technology_find(x, "p2p") /\ x.tech["p2p"].enabled
                  THEN technology_disabled([x EXCEPT !.tech["p2p"].enable_persistent = TRUE], "p2p")
                  ELSE x
  <2>1. Works(v) /\ SameShape(x, v)
    <3>1. CASE t = "wifi" /\ technology_find(x, "p2p") /\ x.tech["p2p"].enabled
      BY Zenon, <1>1, <3>1 DEF technology_find
    <3>2. CASE ~(t = "wifi" /\ technology_find(x, "p2p") /\ x.tech["p2p"].enabled)
      BY <3>2, SameShapeSelf
    <3>3. QED BY <3>1, <3>2
  <2>2. r = DisableTechnology(v, t, o) BY Zenon, <1>3 DEF technology_disable
  <2> HIDE DEF v
  <2>3. Shape(v, H, {}) BY <1>0, <2>1, SameShapeKeeps DEF Works, Powers
  <2>4. Served(v, r, t) BY <1>3, <2>1, <2>2, <2>3, DisableTechnologyKeeps
  <2> HIDE DEF r
  <2>5. SameShape(x, r.w) BY <2>1, <2>4, SameShapeTrans DEF Served
  <2>6. QED BY <2>4, <2>5 DEF Served, r
<1>4. QED BY <1>2, <1>3

-----------------------------------------------------------------------------
\* The record of a technology that is there changes in a call that waits, in the
\* stored setting or in its place on D-Bus.
LEMMA RecordKeeps ==
    ASSUME NEW x, Works(x), NEW t \in Types, x.tech[t].refcount > 0, NEW a \in TechRecords,
           a.refcount = x.tech[t].refcount, a.enabled <=> x.tech[t].enabled,
           a.rfkill_driven <=> x.tech[t].rfkill_driven, a.softblocked <=> x.tech[t].softblocked,
           a.hardblocked <=> x.tech[t].hardblocked, a.device_list = x.tech[t].device_list,
           a.callers = IF a.pending_reply THEN 1 ELSE 0,
           NEW y, y = PutTech(x, t, a)
    PROVE  Works(y) /\ SameUse(x, y)
<1>0. x \in Worlds BY DEF Works, Powers
<1>1. IsPutTech(x, y, t, a) BY <1>0, PutTechIs
<1>2. \A u \in Types :
         /\ y.tech[u].enabled <=> x.tech[u].enabled
         /\ y.tech[u].refcount = x.tech[u].refcount
         /\ y.tech[u].rfkill_driven <=> x.tech[u].rfkill_driven
         /\ y.tech[u].softblocked <=> x.tech[u].softblocked
         /\ y.tech[u].hardblocked <=> x.tech[u].hardblocked
         /\ y.tech[u].device_list = x.tech[u].device_list
  BY <1>1 DEF IsPutTech
<1>3. CallersOk(y) BY <1>1 DEF Works, Powers, CallersOk, IsPutTech
<1>4. Bare(y) BY <1>1 DEF Works, Powers, Bare, IsPutTech
<1>5. Blank(y) /\ Timed(y) BY <1>1 DEF Works, Powers, Blank, Timed, IsPutTech
<1>6. ByDevices(y) BY <1>1, <1>2 DEF Works, Powers, ByDevices, IsPutTech
<1>7. BySwitch(y) BY <1>2 DEF Works, Powers, BySwitch
<1>8. Works(y) BY <1>1, <1>3, <1>4, <1>5, <1>6, <1>7 DEF Works, Powers, IsPutTech
<1>9. SameUse(x, y) BY <1>1, <1>2 DEF SameUse, IsPutTech
<1>10. QED BY <1>8, <1>9

\* The caller of a technology is to wait.
LEMMA WaitKeeps ==
    ASSUME NEW x, Works(x), NEW t \in Types, x.tech[t].refcount > 0, NEW err,
           err = "EINPROGRESS" => ~x.tech[t].pending_reply
    PROVE  Works(WaitOrAnswer(x, t, err)) /\ SameUse(x, WaitOrAnswer(x, t, err))
<1> DEFINE c == x.tech[t]
           a == CallWaits(c)
<1>0. x \in Worlds /\ c \in TechRecords BY DEF Works, Powers, Worlds
<1>1. CASE err = "EINPROGRESS"
  <2>1. WaitOrAnswer(x, t, err) = PutTech(x, t, a) BY Zenon, <1>1 DEF WaitOrAnswer, PutTech
  <2>2. c.callers = 0 /\ c.callers + 1 = 1 BY <1>1 DEF Works, Powers, CallersOk
  <2>3. a = [c EXCEPT !.pending_reply = TRUE, !.callers = 1] BY <1>0, <2>2 DEF CallWaits, TechRecords
  <2> HIDE DEF a
  <2>4. a \in TechRecords
    <3>1. 1 \in Int OBVIOUS
    <3>2. QED BY Zenon, <1>0, <2>3, <3>1 DEF TechRecords
  <2>5. /\ a.callers = 1 /\ a.pending_reply /\ a.refcount = c.refcount /\ (a.enabled <=> c.enabled)
        /\ (a.rfkill_driven <=> c.rfkill_driven) /\ (a.softblocked <=> c.softblocked)
        /\ (a.hardblocked <=> c.hardblocked) /\ a.device_list = c.device_list
    BY <1>0, <2>3 DEF TechRecords
  <2>6. a.callers = IF a.pending_reply THEN 1 ELSE 0 BY <2>5
  <2>7. QED BY Zenon, <2>1, <2>4, <2>5, <2>6, RecordKeeps
<1>2. CASE err # "EINPROGRESS" BY <1>2 DEF WaitOrAnswer, SameUse
<1>3. QED BY <1>1, <1>2

\* powered_changed() and technology_pending_reply() answer the caller.
LEMMA AnswerKeeps ==
    ASSUME NEW x, Works(x), NEW t \in Types, x.tech[t].pending_reply
    PROVE  Works(AnswerCaller(x, t)) /\ SameShape(x, AnswerCaller(x, t))
<1> DEFINE c == x.tech[t]
           a == Answered(c)
           y == PutTech(x, t, a)
<1>0. x \in Worlds /\ c \in TechRecords BY DEF Works, Powers, Worlds
<1>1. AnswerCaller(x, t) = y BY <1>0, AnswerCallerIs
<1>2. c.refcount > 0
  <2>1. c.refcount # 0 BY DEF Works, Powers, Bare, NoTechnology
  <2>2. QED BY <1>0, <2>1 DEF TechRecords
<1>3. /\ a \in TechRecords /\ SameTech(c, a) /\ ~a.pending_reply /\ (a.enabled <=> c.enabled)
      /\ a.callers = 0
  BY <1>0, AnsweredIs DEF Works, Powers, CallersOk
<1> HIDE DEF a
<1>4. IsPutTech(x, y, t, a) BY <1>0, <1>3, PutTechIs
<1> HIDE DEF y
<1>5. \A u \in Types : SameTech(x.tech[u], y.tech[u]) /\ (y.tech[u].enabled <=> x.tech[u].enabled)
  BY <1>3, <1>4 DEF SameTech, IsPutTech
<1>6. SameShape(x, y) BY <1>4, <1>5 DEF SameShape, IsPutTech
<1>7. CallersOk(y) BY <1>3, <1>4 DEF Works, Powers, CallersOk, IsPutTech
<1>8. Bare(y) BY <1>2, <1>3, <1>4 DEF Works, Powers, Bare, IsPutTech, SameTech
<1>9. Blank(y) /\ Timed(y) BY <1>4 DEF Works, Powers, Blank, Timed, IsPutTech
<1>10. ByDevices(y) BY <1>4, <1>5 DEF Works, Powers, ByDevices, IsPutTech, SameTech
<1>11. BySwitch(y) BY <1>5 DEF Works, Powers, BySwitch, SameTech
<1>12. Works(y) BY <1>4, <1>7, <1>8, <1>9, <1>10, <1>11 DEF Works, Powers, IsPutTech
<1>13. QED BY <1>1, <1>6, <1>12

\* technology_save().
LEMMA SaveKeeps ==
    ASSUME NEW x, Works(x), NEW t \in Types, x.tech[t].refcount > 0, NEW on \in BOOLEAN
    PROVE  Works(SavePowered(x, t, on)) /\ SameShape(x, SavePowered(x, t, on))
<1> DEFINE v == [x EXCEPT !.tech[t].enable_persistent = on]
           y == [v EXCEPT !.saved[t] = on]
<1>1. Works(v) /\ SameShape(x, v) BY PersistKeeps
<1>2. SavePowered(x, t, on) = y BY DEF SavePowered
<1> HIDE DEF v
<1>3. v \in Worlds BY <1>1 DEF Works, Powers
<1>4. /\ y \in Worlds /\ y.tech = v.tech /\ y.dev = v.dev /\ y.technology_list = v.technology_list
      /\ y.rfkill = v.rfkill /\ y.offline = v.offline
  BY Zenon, <1>3 DEF Worlds
<1> HIDE DEF y
<1>5. SameShape(v, y) BY <1>4 DEF SameShape, SameTech
<1>6. CallersOk(y) /\ Bare(y) /\ Blank(y) BY <1>1, <1>4 DEF Works, Powers, CallersOk, Bare, Blank
<1>7. ByDevices(y) /\ BySwitch(y) BY <1>1, <1>4 DEF Works, Powers, ByDevices, BySwitch
<1>8. Timed(y) BY <1>1, <1>4 DEF Works, Timed
<1>9. Works(y) BY <1>4, <1>6, <1>7, <1>8 DEF Works, Powers
<1>10. QED BY <1>1, <1>2, <1>5, <1>9, SameShapeTrans

\* SetProperty of Powered.
LEMMA SetPoweredCallKeeps ==
    ASSUME Basics, NEW x, Works(x), NEW H, Shape(x, H, {}), NEW t \in Types, x.tech[t].refcount > 0,
           NEW on \in BOOLEAN, NEW o \in Outs(H)
    PROVE  Works(set_powered(x, t, on, o)) /\ Shape(set_powered(x, t, on, o), H, {})
<1> DEFINE r == IF on THEN technology_enable(x, t, o) ELSE technology_disable(x, t, o)
           v == IF r.err = "EBUSY" THEN r.w ELSE SavePowered(r.w, t, on)
           y == WaitOrAnswer(v, t, r.err)
<1>1. CASE x.tech[t].rfkill_driven /\ x.tech[t].hardblocked BY <1>1 DEF set_powered
<1>2. CASE ~(x.tech[t].rfkill_driven /\ x.tech[t].hardblocked)
  <2>1. set_powered(x, t, on, o) = y BY Zenon, <1>2 DEF set_powered, PoweredResult
  <2>2. Served(x, r, t) BY EnableKeeps, DisableKeeps
  <2> HIDE DEF r
  <2>3. r.w.tech[t].refcount > 0 BY <2>2 DEF Served, SameShape, SameTech
  <2>4. Works(v) /\ SameShape(r.w, v)
    <3>1. CASE r.err = "EBUSY" BY <3>1, <2>2, SameShapeSelf DEF Served
    <3>2. CASE r.err # "EBUSY" BY <3>2, <2>2, <2>3, SaveKeeps DEF Served
    <3>3. QED BY <3>1, <3>2
  <2> HIDE DEF v
  <2>5. v.tech[t].refcount > 0 /\ (r.err = "EINPROGRESS" => ~v.tech[t].pending_reply)
    BY <2>2, <2>3, <2>4 DEF Served, SameShape, SameTech
  <2>6. Works(y) /\ SameUse(v, y) BY <2>4, <2>5, WaitKeeps
  <2> HIDE DEF y
  <2>7. SameShape(x, v) BY <2>2, <2>4, SameShapeTrans DEF Served
  <2>8. x \in Worlds /\ v \in Worlds /\ y \in Worlds BY <2>4, <2>6 DEF Works, Powers
  <2>9. Shape(v, H, {}) BY <2>7, <2>8, SameShapeKeeps
  <2>10. Shape(y, H, {}) BY <2>6, <2>8, <2>9, SameUseKeeps
  <2>11. QED BY <2>1, <2>6, <2>10
<1>3. QED BY <1>1, <1>2

-----------------------------------------------------------------------------
\* Only the stored or the current mode differs.
LEMMA ModeKeeps ==
    ASSUME NEW x, Works(x), NEW y \in Worlds, y.tech = x.tech, y.dev = x.dev,
           y.technology_list = x.technology_list, y.rfkill = x.rfkill
    PROVE  Works(y) /\ SameShape(x, y)
<1>1. SameShape(x, y) BY DEF SameShape, SameTech
<1>2. CallersOk(y) /\ Bare(y) /\ Blank(y) BY DEF Works, Powers, CallersOk, Bare, Blank
<1>3. ByDevices(y) /\ BySwitch(y) BY DEF Works, Powers, ByDevices, BySwitch
<1>4. Timed(y) BY DEF Works, Timed
<1>5. QED BY <1>1, <1>2, <1>3, <1>4 DEF Works, Powers

\* The walk of __connman_technology_set_offlinemode() along the technologies.
IsOfflineWalk(r, b, q, on, o) ==
    r = [i \in 0..Len(q) |-> IF i = 0 THEN b ELSE OfflineStep(r[i - 1], q[i], on, o)]

\* There is such a walk: by induction on the number of steps.
LEMMA OfflineWalkExists ==
    ASSUME Basics, NEW b, NEW q \in Seq(Types), NEW on, NEW o
    PROVE  \E r : IsOfflineWalk(r, b, q, on, o)
<1> DEFINE P(n) == \E r : r = [i \in 0..n |-> IF i = 0 THEN b
                                              ELSE OfflineStep(r[i - 1], q[i], on, o)]
           T == {n \in 0..Len(q) : ~P(n)}
<1>1. Len(q) \in Nat OBVIOUS
<1>2. SUFFICES ASSUME T # {} PROVE FALSE BY <1>1 DEF IsOfflineWalk
<1>3. PICK n \in T : \A m \in T : n <= m
  <2>1. T \in SUBSET Nat BY <1>1
  <2> HIDE DEF T
  <2>2. QED BY <1>2, <2>1 DEF Basics, Induction
<1>4. P(0)
  <2> DEFINE r == [i \in 0..0 |-> b]
  <2>1. r = [i \in 0..0 |-> IF i = 0 THEN b ELSE OfflineStep(r[i - 1], q[i], on, o)] OBVIOUS
  <2>2. QED BY Zenon, <2>1
<1>5. n > 0 /\ n - 1 \in 0..Len(q) /\ P(n - 1)
  <2> HIDE DEF P
  <2>1. QED BY <1>1, <1>3, <1>4
<1>6. PICK g : g = [i \in 0..(n - 1) |-> IF i = 0 THEN b ELSE OfflineStep(g[i - 1], q[i], on, o)]
  BY <1>5
<1> DEFINE h == [i \in 0..n |-> IF i = 0 THEN b ELSE OfflineStep(g[i - 1], q[i], on, o)]
<1>7. \A i \in 0..(n - 1) : h[i] = g[i]
  <2>1. \A i \in 0..(n - 1) : g[i] = IF i = 0 THEN b ELSE OfflineStep(g[i - 1], q[i], on, o)
    BY <1>6
  <2>2. QED BY <2>1, <1>5
<1>8. h = [i \in 0..n |-> IF i = 0 THEN b ELSE OfflineStep(h[i - 1], q[i], on, o)]
  <2>1. \A i \in 0..n : i # 0 => i - 1 \in 0..(n - 1) BY <1>5
  <2>2. \A i \in 0..n : i # 0 => h[i - 1] = g[i - 1]
    <3> HIDE DEF h
    <3> QED BY <1>7, <2>1
  <2>3. QED BY Zenon, <2>2
<1>9. P(n) BY Zenon, <1>8
<1>10. QED BY Zenon, <1>3, <1>9

\* __connman_technology_set_offlinemode() ends where that walk ends.
LEMMA OfflineWalk ==
    ASSUME Basics, NEW x, NEW on, NEW o, x.technology_list \in Seq(Types), x.offline # on
    PROVE  LET q == x.technology_list
           IN  \E r : /\ r[0] = [w |-> [x EXCEPT !.offline = on], err |-> "EINVAL", enabled |-> 0]
                      /\ \A i \in 1..Len(q) : r[i] = OfflineStep(r[i - 1], q[i], on, o)
                      /\ OfflineResult(r[Len(q)]) = __connman_technology_set_offlinemode(x, on, o)
<1> DEFINE q == x.technology_list
           b == [w |-> [x EXCEPT !.offline = on], err |-> "EINVAL", enabled |-> 0]
           r == CHOOSE r : r = [i \in 0..Len(q) |-> IF i = 0 THEN b
                                   ELSE OfflineStep(r[i - 1], q[i], on, o)]
<1>1. r = [i \in 0..Len(q) |-> IF i = 0 THEN b ELSE OfflineStep(r[i - 1], q[i], on, o)]
  <2> HIDE DEF q, b
  <2>1. q \in Seq(Types) BY DEF q
  <2>2. \E f : IsOfflineWalk(f, b, q, on, o) BY Zenon, <2>1, OfflineWalkExists
  <2>3. QED BY Zenon, <2>2 DEF IsOfflineWalk
<1>2. __connman_technology_set_offlinemode(x, on, o) = OfflineResult(r[Len(q)])
  BY DEF __connman_technology_set_offlinemode
<1> HIDE DEF r, b
<1>3. Len(q) \in Nat OBVIOUS
<1>4. r[0] = b BY <1>1, <1>3
<1>5. \A i \in 1..Len(q) : r[i] = OfflineStep(r[i - 1], q[i], on, o)
  <2>1. \A i \in 1..Len(q) : i \in 0..Len(q) /\ i # 0 BY <1>3
  <2>2. QED BY <1>1, <2>1
<1>6. QED BY <1>2, <1>4, <1>5 DEF b

\* SetProperty of OfflineMode.
LEMMA SetOfflineKeeps ==
    ASSUME Basics, NEW x, Works(x), NEW H, Shape(x, H, {}), NEW on \in BOOLEAN, NEW o \in Outs(H)
    PROVE  LET y == __connman_technology_set_offlinemode(x, on, o) IN Works(y) /\ SameShape(x, y)
<1>1. CASE x.offline = on BY <1>1, SameShapeSelf DEF __connman_technology_set_offlinemode
<1>2. CASE x.offline # on
  <2> DEFINE q == x.technology_list
  <2>0. x \in Worlds BY DEF Works, Powers
  <2>1. q \in Seq(Types) /\ Len(q) \in Nat /\ \A i \in 1..Len(q) : q[i] \in Types
    BY <2>0 DEF Worlds
  <2>2. PICK r : /\ r[0] = [w |-> [x EXCEPT !.offline = on], err |-> "EINVAL", enabled |-> 0]
                 /\ \A i \in 1..Len(q) : r[i] = OfflineStep(r[i - 1], q[i], on, o)
                 /\ OfflineResult(r[Len(q)]) = __connman_technology_set_offlinemode(x, on, o)
    BY Zenon, <1>2, <2>1, OfflineWalk
  <2>3. \A i \in 1..Len(q) : x.tech[q[i]].refcount > 0 BY DEF Shape, InUse
  <2> HIDE DEF q
  <2> DEFINE P(i) == Works(r[i].w) /\ SameShape(x, r[i].w)
             T == {i \in 0..Len(q) : ~P(i)}
  <2>4. P(0)
    <3> DEFINE y == [x EXCEPT !.offline = on]
    <3>1. /\ y \in Worlds /\ y.tech = x.tech /\ y.dev = x.dev
          /\ y.technology_list = x.technology_list /\ y.rfkill = x.rfkill
      BY Zenon, <2>0 DEF Worlds
    <3>2. r[0].w = y BY <2>2
    <3> HIDE DEF y
    <3>3. QED BY <3>1, <3>2, ModeKeeps
  <2>5. ASSUME NEW i \in 1..Len(q), P(i - 1) PROVE P(i)
    <3> DEFINE a == r[i - 1]
               v == a.w
               s == IF on THEN technology_disable(v, q[i], o) ELSE technology_enable(v, q[i], o)
    <3>1. Works(v) /\ SameShape(x, v) BY <2>5
    <3>2. r[i] = IF ~on /\ (v.tech[q[i]].hardblocked \/ ~v.tech[q[i]].enable_persistent) THEN a
                 ELSE [w |-> s.w, err |-> s.err, enabled |-> IF on THEN 0 ELSE a.enabled + 1]
      BY Zenon, <2>2 DEF OfflineStep
    <3> HIDE DEF a
    <3> HIDE DEF v
    <3>3. Shape(v, H, {}) BY <2>0, <3>1, SameShapeKeeps DEF Works, Powers
    <3>4. q[i] \in Types /\ v.tech[q[i]].refcount > 0
      BY <2>1, <2>3, <3>1 DEF SameShape, SameTech
    <3>5. Served(v, s, q[i]) BY Zenon, <3>1, <3>3, <3>4, EnableKeeps, DisableKeeps
    <3> HIDE DEF s
    <3>6. r[i].w \in {a.w, s.w} BY <3>2
    <3>7. a.w = v BY DEF v
    <3>8. SameShape(x, s.w) /\ Works(s.w) BY <3>1, <3>5, SameShapeTrans DEF Served
    <3>9. QED BY <3>1, <3>6, <3>7, <3>8
  <2>6. T = {}
    <3>1. SUFFICES ASSUME T # {} PROVE FALSE OBVIOUS
    <3>2. T \in SUBSET Nat BY <2>1
    <3>3. PICK n \in T : \A m \in T : n <= m
      <4> HIDE DEF T
      <4>1. QED BY <3>1, <3>2 DEF Basics, Induction
    <3> HIDE DEF P
    <3>4. n # 0 /\ n \in 1..Len(q) BY <2>1, <2>4, <3>3
    <3>5. P(n - 1) BY <2>1, <3>3, <3>4
    <3>6. QED BY <2>5, <3>3, <3>4, <3>5
  <2>7. P(Len(q))
    <3> HIDE DEF P
    <3>1. QED BY <2>1, <2>6
  <2> DEFINE v == r[Len(q)].w
             y == OfflineResult(r[Len(q)])
  <2>8. Works(v) /\ SameShape(x, v) /\ v \in Worlds BY <2>7 DEF Works, Powers
  <2>9. \/ y = [v EXCEPT !.saved_offline = v.offline] \/ y = [v EXCEPT !.offline = v.saved_offline]
    BY DEF OfflineResult
  <2> HIDE DEF v, y
  <2>10. /\ y \in Worlds /\ y.tech = v.tech /\ y.dev = v.dev
         /\ y.technology_list = v.technology_list /\ y.rfkill = v.rfkill
    BY <2>8, <2>9 DEF Worlds
  <2>11. Works(y) /\ SameShape(v, y) BY <2>8, <2>10, ModeKeeps
  <2>12. SameShape(x, y) BY <2>8, <2>11, SameShapeTrans
  <2>13. QED BY <2>2, <2>11, <2>12 DEF y
<1>3. QED BY <1>1, <1>2

-----------------------------------------------------------------------------
\* The lists of technologies and of devices: g_slist_prepend(), g_slist_remove().
LEMMA Prepended ==
    ASSUME NEW S, NEW q \in Seq(S), NEW d \in S, ~Holds(q, d), Once(q)
    PROVE  /\ <<d>> \o q \in Seq(S)
           /\ Once(<<d>> \o q)
           /\ \A e : Holds(<<d>> \o q, e) <=> Holds(q, e) \/ e = d
<1> DEFINE z == <<d>> \o q
<1>1. z \in Seq(S) /\ Len(z) = Len(q) + 1 /\ Len(q) \in Nat OBVIOUS
<1>2. z[1] = d /\ \A i \in 1..Len(q) : z[i + 1] = q[i] OBVIOUS
<1> HIDE DEF z
<1>3. \A i \in 1..Len(z) : i # 1 => i - 1 \in 1..Len(q) /\ z[i] = q[i - 1]
  <2> SUFFICES ASSUME NEW i \in 1..Len(z), i # 1 PROVE i - 1 \in 1..Len(q) /\ z[i] = q[i - 1]
    OBVIOUS
  <2>1. i - 1 \in 1..Len(q) /\ (i - 1) + 1 = i BY <1>1
  <2>2. QED BY <1>2, <2>1
<1>4. Once(z)
  <2> SUFFICES ASSUME NEW i \in 1..Len(z), NEW j \in 1..Len(z), z[i] = z[j] PROVE i = j
    BY DEF Once
  <2>1. \A k \in 1..Len(q) : q[k] # d BY DEF Holds
  <2>2. CASE i = 1 \/ j = 1 BY <1>2, <1>3, <2>1, <2>2
  <2>3. CASE i # 1 /\ j # 1
    <3>1. i - 1 \in 1..Len(q) /\ j - 1 \in 1..Len(q) /\ q[i - 1] = q[j - 1] BY <1>3, <2>3
    <3>2. i - 1 = j - 1 BY <3>1 DEF Once
    <3>3. QED BY <3>2
  <2>4. QED BY <2>2, <2>3
<1>5. ASSUME NEW e PROVE Holds(z, e) <=> Holds(q, e) \/ e = d
  <2>1. ASSUME Holds(z, e) PROVE Holds(q, e) \/ e = d BY <2>1, <1>2, <1>3 DEF Holds
  <2>2. ASSUME Holds(q, e) PROVE Holds(z, e)
    <3>1. PICK i \in 1..Len(q) : q[i] = e BY <2>2 DEF Holds
    <3>2. i + 1 \in 1..Len(z) /\ z[i + 1] = e BY <1>1, <1>2, <3>1
    <3>3. QED BY <3>2 DEF Holds
  <2>3. ASSUME e = d PROVE Holds(z, e)
    <3>1. 1 \in 1..Len(z) BY <1>1
    <3>2. QED BY <1>2, <2>3, <3>1 DEF Holds
  <2>4. QED BY <2>1, <2>2, <2>3
<1>6. QED BY <1>1, <1>4, <1>5 DEF z

\* g_slist_remove() of a list without duplicates.
LEMMA Removed ==
    ASSUME NEW S, NEW q \in Seq(S), NEW d, Once(q)
    PROVE  /\ Unlisted(q, d) \in Seq(S)
           /\ Once(Unlisted(q, d))
           /\ \A e : Holds(Unlisted(q, d), e) <=> Holds(q, e) /\ e # d
<1> DEFINE z == Unlisted(q, d)
<1>1. CASE ~Holds(q, d)
  <2>1. z = q BY <1>1 DEF Holds, Unlisted
  <2>2. QED BY <1>1, <2>1 DEF Holds
<1>2. CASE Holds(q, d)
  <2> DEFINE k == CHOOSE i \in 1..Len(q) : q[i] = d /\ \A j \in 1..(i - 1) : q[j] # d
  <2>1. \E i \in 1..Len(q) : q[i] = d /\ \A j \in 1..(i - 1) : q[j] # d
    <3>1. PICK i \in 1..Len(q) : q[i] = d BY <1>2 DEF Holds
    <3>2. \A j \in 1..(i - 1) : j \in 1..Len(q) /\ j # i OBVIOUS
    <3>3. QED BY <3>1, <3>2 DEF Once
  <2>2. k \in 1..Len(q) /\ q[k] = d BY <2>1
  <2> DEFINE a == SubSeq(q, 1, k - 1)
             b == SubSeq(q, k + 1, Len(q))
  <2>3. z = a \o b
    BY Zenon, <1>2 DEF Unlisted, Holds
  <2> HIDE DEF k, z
  <2>4. Len(q) \in Nat /\ k - 1 \in 0..Len(q) /\ k + 1 \in 1..(Len(q) + 1) BY <2>2
  <2>5. a \in Seq(S) /\ Len(a) = k - 1 /\ \A i \in 1..(k - 1) : a[i] = q[i]
    BY <2>2, <2>4
  <2>6. b \in Seq(S) /\ Len(b) = Len(q) - k /\ \A i \in 1..(Len(q) - k) : b[i] = q[k + i]
    BY <2>2, <2>4
  <2> HIDE DEF a, b
  <2>7. z \in Seq(S) /\ Len(z) = Len(q) - 1
    <3>0. a \in Seq(S) /\ b \in Seq(S) BY <2>5, <2>6
    <3>1. z \in Seq(S) /\ Len(z) = Len(a) + Len(b) BY <2>3, <3>0
    <3>2. (k - 1) + (Len(q) - k) = Len(q) - 1 BY <2>2, <2>4
    <3>3. QED BY <2>5, <2>6, <3>1, <3>2
  <2>8. \A i \in 1..Len(z) : z[i] = IF i < k THEN q[i] ELSE q[i + 1]
    <3> SUFFICES ASSUME NEW i \in 1..Len(z) PROVE z[i] = IF i < k THEN q[i] ELSE q[i + 1]
      OBVIOUS
    <3>1. CASE i < k BY <3>1, <2>2, <2>3, <2>4, <2>5, <2>6, <2>7
    <3>2. CASE ~(i < k)
      <4>1. z[i] = b[i - (k - 1)]
        BY <3>2, <2>2, <2>3, <2>4, <2>5, <2>6, <2>7
      <4>2. i - (k - 1) \in 1..(Len(q) - k) /\ k + (i - (k - 1)) = i + 1
        BY <3>2, <2>2, <2>4, <2>7
      <4>3. QED BY <3>2, <4>1, <4>2, <2>6
    <3>3. QED BY <3>1, <3>2
  <2>9. Once(z) BY <2>2, <2>4, <2>7, <2>8 DEF Once
  <2>10. ASSUME NEW e PROVE Holds(z, e) <=> Holds(q, e) /\ e # d
    <3>1. ASSUME Holds(z, e) PROVE Holds(q, e) /\ e # d
      <4>1. PICK i \in 1..Len(z) : z[i] = e BY <3>1 DEF Holds
      <4> DEFINE j == IF i < k THEN i ELSE i + 1
      <4>2. j \in 1..Len(q) /\ q[j] = e /\ j # k BY <4>1, <2>2, <2>4, <2>7, <2>8
      <4> HIDE DEF j
      <4>3. QED BY <4>2, <2>2 DEF Once, Holds
    <3>2. ASSUME Holds(q, e), e # d PROVE Holds(z, e)
      <4>1. PICK j \in 1..Len(q) : q[j] = e BY <3>2 DEF Holds
      <4>2. j # k BY <4>1, <3>2, <2>2
      <4> DEFINE i == IF j < k THEN j ELSE j - 1
      <4>3. i \in 1..Len(z) /\ (IF i < k THEN i ELSE i + 1) = j BY <4>1, <4>2, <2>2, <2>4, <2>7
      <4> HIDE DEF i
      <4>4. z[i] = e BY <4>1, <4>3, <2>8
      <4>5. QED BY <4>3, <4>4 DEF Holds
    <3>3. QED BY <3>1, <3>2
  <2>11. QED BY <2>7, <2>9, <2>10 DEF z
<1>3. QED BY <1>1, <1>2

-----------------------------------------------------------------------------
\* Counting the users of a technology.
LEMMA UsersFinite ==
    ASSUME Basics, NEW x, NEW t, NEW X
    PROVE  /\ DevUsers(x, t, X) \in SUBSET Devices /\ SwUsers(x, t) \in SUBSET Switches
           /\ Cardinality(DevUsers(x, t, X)) \in Nat /\ Cardinality(SwUsers(x, t)) \in Nat
           /\ Cardinality(DevUsers(x, t, X)) = 0 <=> DevUsers(x, t, X) = {}
           /\ Cardinality(SwUsers(x, t)) = 0 <=> SwUsers(x, t) = {}
<1>1. DevUsers(x, t, X) \in SUBSET Devices /\ SwUsers(x, t) \in SUBSET Switches
  BY DEF DevUsers, SwUsers
<1>2. QED BY <1>1 DEF Basics, Countable

\* One device more is one user more.
LEMMA DeviceCounts ==
    ASSUME Basics, NEW D \in SUBSET Devices, NEW d \in Devices, d \notin D
    PROVE  Cardinality(D \union {d}) = Cardinality(D) + 1
  BY DEF Basics, Countable

\* One switch more is one user more, and there are no others.
LEMMA SwitchCounts ==
    ASSUME Basics, NEW D \in SUBSET Switches, NEW i \in Switches
    PROVE  /\ i \notin D => Cardinality(D \union {i}) = Cardinality(D) + 1
           /\ \A R \in SUBSET (D \union {i}) : Cardinality(R) <= Cardinality(D) + 1
<1>1. Cardinality(D) \in Nat BY DEF Basics, Countable
<1>2. CASE i \in D
  <2>1. D \union {i} = D BY <1>2
  <2>2. \A R \in SUBSET D : Cardinality(R) \in Nat /\ Cardinality(R) <= Cardinality(D)
    BY DEF Basics, Countable
  <2>3. QED BY <1>1, <1>2, <2>1, <2>2
<1>3. CASE i \notin D
  <2>1. Cardinality(D \union {i}) = Cardinality(D) + 1 BY <1>3 DEF Basics, Countable
  <2>2. D \union {i} \in SUBSET Switches OBVIOUS
  <2>3. \A R \in SUBSET (D \union {i}) : Cardinality(R) <= Cardinality(D \union {i})
    BY <2>2 DEF Basics, Countable
  <2>4. QED BY <2>1, <2>3
<1>4. QED BY <1>2, <1>3

\* A technology nobody holds has no user: no device of it with a driver but those of X.
LEMMA NoUser ==
    ASSUME Basics, NEW x, Works(x), NEW H, NEW X, Shape(x, H, X), NEW t \in Types \ {"p2p"},
           x.tech[t].refcount = 0
    PROVE  DevUsers(x, t, X) = {} /\ SwUsers(x, t) = {}
<1>1. Cardinality(DevUsers(x, t, X)) + Cardinality(SwUsers(x, t)) <= 0 BY DEF Shape, Held
<1>2. Cardinality(DevUsers(x, t, X)) = 0 /\ Cardinality(SwUsers(x, t)) = 0
  BY <1>1, UsersFinite
<1>3. QED BY <1>2, UsersFinite

\* technology_get() makes the technology.
LEMMA NewTechnologyKeeps ==
    ASSUME Basics, NEW x, Works(x), NEW H, NEW X, Shape(x, H, X), NEW t \in Types,
           x.tech[t].refcount = 0,
           \A d \in Devices : d \in X => ~x.dev[d].powered
    PROVE  LET y == NewTechnology(x, t)
           IN  /\ Works(y) /\ Shape(y, H, X)
               /\ y.tech[t].refcount = 1 /\ y.dev = x.dev /\ y.rfkill = x.rfkill
               /\ y.technology_list = <<t>> \o x.technology_list
               /\ \A u \in Types \ {t} : y.tech[u] = x.tech[u]
               /\ ~y.tech[t].rfkill_driven /\ ~y.tech[t].enabled
<1> DEFINE n == [NoTechnology EXCEPT !.refcount = 1, !.enable_persistent = x.saved[t],
                                     !.dbus_registered = TRUE]
           y == [x EXCEPT !.tech[t] = n, !.technology_list = <<t>> \o @]
<1>0. x \in Worlds /\ x.saved[t] \in BOOLEAN /\ x.technology_list \in Seq(Types)
  BY DEF Works, Powers, Worlds
<1>1. NewTechnology(x, t) = y BY Zenon DEF NewTechnology
<1>2. /\ n.refcount = 1 /\ ~n.enabled /\ ~n.pending_reply /\ n.callers = 0 /\ ~n.rfkill_driven
      /\ n.device_list = <<>>
  BY DEF NoTechnology
<1>3. n \in TechRecords
  <2>1. 1 \in Nat /\ 0 \in Nat /\ 0 \in Int /\ <<>> \in Seq(Devices) OBVIOUS
  <2>2. NoTechnology \in TechRecords BY Zenon, <2>1 DEF NoTechnology, TechRecords
  <2>3. QED BY Zenon, <1>0, <2>1, <2>2 DEF TechRecords
<1> HIDE DEF n
<1>4. ~Holds(x.technology_list, t) BY DEF Shape, InUse, Holds
<1>5. /\ <<t>> \o x.technology_list \in Seq(Types)
      /\ Once(<<t>> \o x.technology_list)
      /\ \A e : Holds(<<t>> \o x.technology_list, e) <=> Holds(x.technology_list, e) \/ e = t
  BY <1>0, <1>4, Prepended DEF Shape, InUse
<1>6. /\ y \in Worlds /\ y.tech[t] = n /\ y.dev = x.dev /\ y.rfkill = x.rfkill
      /\ \A u \in Types \ {t} : y.tech[u] = x.tech[u]
      /\ y.technology_list = <<t>> \o x.technology_list
  BY Zenon, <1>0, <1>3, <1>5 DEF Worlds
<1> HIDE DEF y
<1>7. x.tech[t] = NoTechnology BY DEF Works, Powers, Bare
<1>8. CallersOk(y) /\ Bare(y) BY <1>2, <1>6 DEF Works, Powers, CallersOk, Bare
<1>9. Blank(y) /\ Timed(y) BY <1>6 DEF Works, Powers, Blank, Timed
<1>10. ASSUME t # "p2p", NEW d \in Devices, TypeOf[d] = t PROVE ~x.dev[d].powered
  <2>1. DevUsers(x, t, X) = {} BY <1>10, NoUser
  <2>2. ~x.dev[d].driver \/ d \in X BY <2>1, <1>10 DEF DevUsers
  <2>3. CASE ~x.dev[d].driver BY <2>3 DEF Works, Powers, Blank, NewDevice
  <2>4. QED BY <2>2, <2>3
<1>11. ByDevices(y)
  <2> SUFFICES ASSUME NEW u \in Types \ {"p2p"}, y.tech[u].refcount > 0, ~y.tech[u].rfkill_driven
               PROVE  y.tech[u].enabled <=> \E d \in Devices : TypeOf[d] = u /\ y.dev[d].powered
    BY DEF ByDevices
  <2>1. CASE u = t BY <2>1, <1>2, <1>6, <1>10
  <2>2. CASE u # t BY <2>2, <1>6 DEF Works, Powers, ByDevices
  <2>3. QED BY <2>1, <2>2
<1>12. BySwitch(y) BY <1>2, <1>6 DEF Works, Powers, BySwitch
<1>13. Works(y) BY <1>6, <1>8, <1>9, <1>11, <1>12 DEF Works, Powers
<1>14. Driven(y) BY <1>2, <1>6 DEF Shape, Driven
<1>15. InUse(y)
  <2>1. \A i \in 1..Len(y.technology_list) :
           y.technology_list[i] = t \/ Holds(x.technology_list, y.technology_list[i])
    BY <1>5, <1>6 DEF Holds
  <2>2. \A e : Holds(x.technology_list, e) => e \in Types /\ x.tech[e].refcount > 0
    BY <1>0 DEF Holds, Shape, InUse
  <2>3. \A i \in 1..Len(y.technology_list) : y.tech[y.technology_list[i]].refcount > 0
    <3> SUFFICES ASSUME NEW i \in 1..Len(y.technology_list)
                 PROVE  y.tech[y.technology_list[i]].refcount > 0
      OBVIOUS
    <3>1. CASE y.technology_list[i] = t
      <4>1. 1 > 0 OBVIOUS
      <4>2. QED BY Zenon, <3>1, <4>1, <1>2, <1>6
    <3>2. CASE y.technology_list[i] # t
      <4>1. y.technology_list[i] \in Types \ {t} /\ x.tech[y.technology_list[i]].refcount > 0
        BY <2>1, <2>2, <3>2
      <4>2. QED BY Zenon, <4>1, <1>6
    <3>3. QED BY <3>1, <3>2
  <2>4. QED BY Zenon, <1>5, <1>6, <2>3 DEF InUse
<1>16. Lists(y, X)
  <2>1. \A u \in Types : y.tech[u].device_list = x.tech[u].device_list
    BY <1>2, <1>6, <1>7 DEF NoTechnology
  <2>2. QED BY <1>6, <2>1 DEF Shape, Lists
<1>17. Present(y)
  <2>1. ~NoTechnology.rfkill_driven BY DEF NoTechnology
  <2>2. t = RfkillType => ~x.tech[RfkillType].rfkill_driven BY Zenon, <1>7, <2>1
  <2>3. QED BY <2>2, <1>6, PowerAssumption DEF Shape, Present
<1>18. Owned(y, H) BY <1>6 DEF Shape, Owned
<1>19. Held(y, X)
  <2> SUFFICES ASSUME NEW u \in Types \ {"p2p"}
      PROVE  Cardinality(DevUsers(y, u, X)) + Cardinality(SwUsers(y, u)) <= y.tech[u].refcount
    BY DEF Held
  <2>1. DevUsers(y, u, X) = DevUsers(x, u, X) /\ SwUsers(y, u) = SwUsers(x, u)
    BY <1>6 DEF DevUsers, SwUsers
  <2>2. Cardinality(DevUsers(x, u, X)) + Cardinality(SwUsers(x, u)) <= x.tech[u].refcount
    BY DEF Shape, Held
  <2>3. CASE u = t BY <2>1, <2>2, <2>3, <1>2, <1>6, UsersFinite
  <2>4. CASE u # t BY <2>1, <2>2, <2>4, <1>6
  <2>5. QED BY <2>3, <2>4
<1>20. QED BY <1>1, <1>2, <1>6, <1>13, <1>14, <1>15, <1>16, <1>17, <1>18, <1>19 DEF Shape

\* Another count that covers the users.
Counted(x, y, t, n, H, X) ==
    /\ Works(y) /\ Shape(y, H, X)
    /\ y.tech[t].refcount = n
    /\ \A u \in Types \ {t} : y.tech[u] = x.tech[u]
    /\ y.dev = x.dev /\ y.rfkill = x.rfkill
    /\ y.tech[t].rfkill_driven <=> x.tech[t].rfkill_driven

\* A reference is taken or given back, and enough of them remain for the users.
LEMMA CountKeeps ==
    ASSUME NEW x, Works(x), NEW H, NEW X, Shape(x, H, X), NEW t \in Types,
           x.tech[t].refcount > 0, NEW n \in Nat, n > 0,
           t # "p2p" => Cardinality(DevUsers(x, t, X)) + Cardinality(SwUsers(x, t)) <= n,
           NEW y, y = PutTech(x, t, [x.tech[t] EXCEPT !.refcount = n])
    PROVE  Counted(x, y, t, n, H, X)
<1> DEFINE c == x.tech[t]
           a == [c EXCEPT !.refcount = n]
<1>0. x \in Worlds /\ c \in TechRecords BY DEF Works, Powers, Worlds
<1>2. /\ a \in TechRecords /\ a.refcount = n /\ (a.enabled <=> c.enabled)
      /\ (a.rfkill_driven <=> c.rfkill_driven) /\ (a.softblocked <=> c.softblocked)
      /\ (a.hardblocked <=> c.hardblocked) /\ a.device_list = c.device_list
      /\ a.callers = c.callers /\ (a.pending_reply <=> c.pending_reply)
  BY <1>0 DEF TechRecords
<1>3. IsPutTech(x, y, t, a)
  <2> HIDE DEF a
  <2>1. QED BY <1>0, <1>2, PutTechIs DEF a
<1> HIDE DEF a
<1>4. \A u \in Types :
       /\ y.tech[u].enabled <=> x.tech[u].enabled
       /\ y.tech[u].refcount > 0 <=> x.tech[u].refcount > 0
       /\ y.tech[u].rfkill_driven <=> x.tech[u].rfkill_driven
       /\ y.tech[u].softblocked <=> x.tech[u].softblocked
       /\ y.tech[u].hardblocked <=> x.tech[u].hardblocked
       /\ y.tech[u].device_list = x.tech[u].device_list
       /\ y.tech[u].callers = x.tech[u].callers
       /\ y.tech[u].pending_reply <=> x.tech[u].pending_reply
  BY <1>0, <1>2, <1>3 DEF IsPutTech
<1>5. CallersOk(y) BY <1>4 DEF Works, Powers, CallersOk
<1>6. Bare(y) BY <1>0, <1>2, <1>3 DEF Works, Powers, Bare, IsPutTech
<1>7. Blank(y) /\ Timed(y) BY <1>3 DEF Works, Powers, Blank, Timed, IsPutTech
<1>8. ByDevices(y) BY <1>3, <1>4 DEF Works, Powers, ByDevices, IsPutTech
<1>9. BySwitch(y) BY <1>4 DEF Works, Powers, BySwitch
<1>10. Works(y) BY <1>3, <1>5, <1>6, <1>7, <1>8, <1>9 DEF Works, Powers, IsPutTech
<1>11. Driven(y) BY <1>4 DEF Shape, Driven
<1>12. InUse(y)
  <2>1. \A i \in 1..Len(x.technology_list) : x.technology_list[i] \in Types BY <1>0 DEF Worlds
  <2>2. y.technology_list = x.technology_list BY <1>3 DEF IsPutTech
  <2>3. QED BY <1>4, <2>1, <2>2 DEF Shape, InUse
<1>13. Lists(y, X) BY <1>3, <1>4 DEF Shape, Lists, IsPutTech
<1>14. Present(y) /\ Owned(y, H)
  BY <1>3, <1>4, PowerAssumption DEF Shape, Present, Owned, IsPutTech
<1>15. Held(y, X)
  <2> SUFFICES ASSUME NEW u \in Types \ {"p2p"}
      PROVE  Cardinality(DevUsers(y, u, X)) + Cardinality(SwUsers(y, u)) <= y.tech[u].refcount
    BY DEF Held
  <2>1. DevUsers(y, u, X) = DevUsers(x, u, X) /\ SwUsers(y, u) = SwUsers(x, u)
    BY <1>3 DEF DevUsers, SwUsers, IsPutTech
  <2>2. Cardinality(DevUsers(x, u, X)) + Cardinality(SwUsers(x, u)) <= x.tech[u].refcount
    BY DEF Shape, Held
  <2>3. CASE u = t BY <2>1, <2>3, <1>2, <1>3 DEF IsPutTech
  <2>4. CASE u # t BY <2>1, <2>2, <2>4, <1>3 DEF IsPutTech
  <2>5. QED BY <2>3, <2>4
<1>16. Shape(y, H, X) BY <1>11, <1>12, <1>13, <1>14, <1>15 DEF Shape
<1>17. QED BY <1>2, <1>3, <1>10, <1>16 DEF IsPutTech, Counted

\* technology_get() of a technology with devices.
Got(x, y, t, H, X) ==
    /\ Works(y) /\ Shape(y, H, X)
    /\ y.tech[t].refcount = x.tech[t].refcount + 1
    /\ \A u \in Types \ {t} : y.tech[u].refcount = x.tech[u].refcount
    /\ y.dev = x.dev /\ y.rfkill = x.rfkill
    /\ y.tech[t].rfkill_driven <=> x.tech[t].rfkill_driven

\* technology_get(): the technology is created or counted once more.
LEMMA GetKeeps ==
    ASSUME Basics, NEW x, Works(x), NEW H, NEW X, Shape(x, H, X), NEW t \in Types \ {"p2p"}, NEW o,
           \A d \in Devices : d \in X => ~x.dev[d].powered
    PROVE  Got(x, technology_get(x, t, o), t, H, X)
<1> DEFINE c == x.tech[t]
<1>0. x \in Worlds /\ c \in TechRecords /\ c.refcount \in Nat
  BY DEF Works, Powers, Worlds, TechRecords
<1>1. CASE c.refcount > 0
  <2> DEFINE n == c.refcount + 1
             y == PutTech(x, t, [c EXCEPT !.refcount = n])
  <2>1. technology_get(x, t, o) = y
    <3>1. technology_get(x, t, o) = [x EXCEPT !.tech[t].refcount = @ + 1]
      BY <1>1 DEF technology_get, technology_find
    <3>2. QED BY <3>1, <1>0 DEF PutTech, Worlds
  <2>2. n \in Nat /\ n > 0 /\ n = c.refcount + 1 BY <1>0
  <2>3. Cardinality(DevUsers(x, t, X)) + Cardinality(SwUsers(x, t)) <= n
    <3>1. Cardinality(DevUsers(x, t, X)) + Cardinality(SwUsers(x, t)) <= c.refcount
      BY DEF Shape, Held
    <3>2. QED BY <1>0, <3>1, UsersFinite
  <2> HIDE DEF n
  <2>4. Counted(x, y, t, n, H, X) BY <1>1, <2>2, <2>3, CountKeeps
  <2> HIDE DEF y
  <2>5. Got(x, y, t, H, X) BY <2>2, <2>4 DEF Got, Counted
  <2>6. QED BY <2>1, <2>5
<1>2. CASE ~(c.refcount > 0)
  <2> DEFINE y == NewTechnology(x, t)
  <2>1. technology_get(x, t, o) = y BY <1>2 DEF technology_get, technology_find
  <2>2. c.refcount = 0 BY <1>0, <1>2
  <2>3. /\ Works(y) /\ Shape(y, H, X)
        /\ y.tech[t].refcount = 1 /\ y.dev = x.dev /\ y.rfkill = x.rfkill
        /\ \A u \in Types \ {t} : y.tech[u] = x.tech[u]
        /\ ~y.tech[t].rfkill_driven
    BY Zenon, <2>2, NewTechnologyKeeps
  <2> HIDE DEF y
  <2>4. ~c.rfkill_driven BY <2>2 DEF Works, Powers, Bare, NoTechnology
  <2>5. Got(x, y, t, H, X) BY <2>2, <2>3, <2>4 DEF Got
  <2>6. QED BY <2>1, <2>5
<1>3. QED BY <1>1, <1>2

\* technology_put() by a user that is not counted any more.
LEMMA PutKeeps ==
    ASSUME Basics, NEW x, Works(x), NEW H, NEW X, Shape(x, H, X), NEW t \in Types,
           x.tech[t].refcount > 0,
           t # "p2p" =>
               Cardinality(DevUsers(x, t, X)) + Cardinality(SwUsers(x, t)) < x.tech[t].refcount
    PROVE  LET y == technology_put(x, t)
           IN  Works(y) /\ Shape(y, H, X) /\ y.dev = x.dev /\ y.rfkill = x.rfkill
<1> DEFINE c == x.tech[t]
<1>0. x \in Worlds /\ c \in TechRecords /\ c.refcount \in Nat
  BY DEF Works, Powers, Worlds, TechRecords
<1>1. CASE c.refcount > 1
  <2> DEFINE n == c.refcount - 1
             y == PutTech(x, t, [c EXCEPT !.refcount = n])
  <2>1. technology_put(x, t) = y
    <3>1. technology_put(x, t) = [x EXCEPT !.tech[t].refcount = @ - 1]
      BY <1>1 DEF technology_put
    <3>2. QED BY <3>1, <1>0 DEF PutTech, Worlds
  <2>2. n \in Nat /\ n > 0 /\ n = c.refcount - 1 BY <1>0, <1>1
  <2>3. t # "p2p" => Cardinality(DevUsers(x, t, X)) + Cardinality(SwUsers(x, t)) <= n
    BY <1>0, UsersFinite
  <2> HIDE DEF n
  <2>4. Counted(x, y, t, n, H, X) BY <2>2, <2>3, CountKeeps
  <2>5. QED BY Zenon, <2>1, <2>4 DEF Counted
<1>2. CASE ~(c.refcount > 1)
  <2> DEFINE q == Unlisted(x.technology_list, t)
             y == [x EXCEPT !.tech[t] = NoTechnology, !.technology_list = q]
  <2>1. technology_put(x, t) = y BY Zenon, <1>2 DEF technology_put
  <2>2. x.technology_list \in Seq(Types) /\ Once(x.technology_list)
    BY <1>0 DEF Worlds, Shape, InUse
  <2>3. q \in Seq(Types) /\ Once(q) /\ \A e : Holds(q, e) <=> Holds(x.technology_list, e) /\ e # t
    BY <2>2, Removed
  <2> HIDE DEF q
  <2>4. NoTechnology \in TechRecords
    <3>1. 0 \in Nat /\ 0 \in Int /\ <<>> \in Seq(Devices) OBVIOUS
    <3>2. QED BY Zenon, <3>1 DEF NoTechnology, TechRecords
  <2>5. /\ y \in Worlds /\ y.tech[t] = NoTechnology /\ y.dev = x.dev /\ y.rfkill = x.rfkill
        /\ \A u \in Types \ {t} : y.tech[u] = x.tech[u]
        /\ y.technology_list = q
    BY Zenon, <1>0, <2>3, <2>4 DEF Worlds
  <2> HIDE DEF y
  <2>6. /\ NoTechnology.refcount = 0 /\ ~NoTechnology.enabled /\ ~NoTechnology.pending_reply
        /\ NoTechnology.callers = 0 /\ ~NoTechnology.rfkill_driven
        /\ NoTechnology.device_list = <<>>
    BY DEF NoTechnology
  <2>7. t # "p2p" => DevUsers(x, t, X) = {} /\ SwUsers(x, t) = {}
    <3>1. SUFFICES ASSUME t # "p2p" PROVE DevUsers(x, t, X) = {} /\ SwUsers(x, t) = {} OBVIOUS
    <3>2. Cardinality(DevUsers(x, t, X)) = 0 /\ Cardinality(SwUsers(x, t)) = 0
      BY <1>0, <1>2, <3>1, UsersFinite
    <3>3. QED BY <3>2, UsersFinite
  <2>8. CallersOk(y) /\ Bare(y) BY <2>5, <2>6 DEF Works, Powers, CallersOk, Bare
  <2>9. Blank(y) /\ Timed(y) BY <2>5 DEF Works, Powers, Blank, Timed
  <2>10. ByDevices(y) BY <2>5, <2>6 DEF Works, Powers, ByDevices
  <2>11. BySwitch(y) BY <2>5, <2>6 DEF Works, Powers, BySwitch
  <2>12. Works(y) BY <2>5, <2>8, <2>9, <2>10, <2>11 DEF Works, Powers
  <2>13. Driven(y) BY <2>5, <2>6 DEF Shape, Driven
  <2>14. InUse(y)
    <3>1. \A i \in 1..Len(q) : q[i] # t /\ Holds(x.technology_list, q[i]) BY Zenon, <2>3 DEF Holds
    <3>2. \A e : Holds(x.technology_list, e) => e \in Types /\ x.tech[e].refcount > 0
      <4>1. \A i \in 1..Len(x.technology_list) : x.technology_list[i] \in Types BY <2>2
      <4>2. \A i \in 1..Len(x.technology_list) : x.tech[x.technology_list[i]].refcount > 0
        BY DEF Shape, InUse
      <4>3. QED BY Zenon, <4>1, <4>2 DEF Holds
    <3>3. \A i \in 1..Len(q) : y.tech[q[i]].refcount > 0 BY <2>5, <3>1, <3>2
    <3>4. QED BY <2>3, <2>5, <3>3 DEF InUse
  <2>15. Lists(y, X)
    <3> SUFFICES ASSUME NEW u \in Types \ {"p2p"}
                 PROVE  /\ Once(y.tech[u].device_list)
                        /\ \A d \in Devices : Holds(y.tech[u].device_list, d)
                               <=> (y.dev[d].driver /\ TypeOf[d] = u /\ d \notin X)
      BY DEF Lists
    <3>1. CASE u = t
      <4>1. \A d \in Devices : ~(x.dev[d].driver /\ TypeOf[d] = u /\ d \notin X)
        BY <2>7, <3>1 DEF DevUsers
      <4>2. Once(<<>>) /\ \A d : ~Holds(<<>>, d) BY DEF Once, Holds
      <4>3. QED BY <2>5, <2>6, <3>1, <4>1, <4>2
    <3>2. CASE u # t BY <2>5, <3>2 DEF Shape, Lists
    <3>3. QED BY <3>1, <3>2
  <2>16. Present(y)
    <3>1. t = RfkillType => \A i \in Switches : ~x.rfkill[i].present
      BY <2>7 DEF SwUsers, RfkillType
    <3>2. QED BY <2>5, <3>1, PowerAssumption DEF Shape, Present
  <2>17. Owned(y, H) BY <2>5 DEF Shape, Owned
  <2>18. Held(y, X)
    <3> SUFFICES ASSUME NEW u \in Types \ {"p2p"}
        PROVE  Cardinality(DevUsers(y, u, X)) + Cardinality(SwUsers(y, u)) <= y.tech[u].refcount
      BY DEF Held
    <3>1. DevUsers(y, u, X) = DevUsers(x, u, X) /\ SwUsers(y, u) = SwUsers(x, u)
      BY <2>5 DEF DevUsers, SwUsers
    <3>2. CASE u = t
      <4>1. Cardinality(DevUsers(y, u, X)) = 0 /\ Cardinality(SwUsers(y, u)) = 0
        BY <2>7, <3>1, <3>2, UsersFinite
      <4>2. QED BY <2>5, <2>6, <3>2, <4>1
    <3>3. CASE u # t BY <2>5, <3>1, <3>3 DEF Shape, Held
    <3>4. QED BY <3>2, <3>3
  <2>19. Shape(y, H, X) BY <2>13, <2>14, <2>15, <2>16, <2>17, <2>18 DEF Shape
  <2>20. QED BY <2>1, <2>5, <2>12, <2>19
<1>3. QED BY <1>1, <1>2

-----------------------------------------------------------------------------
\* A new device is switched as its technology asks for, before it is listed.
LEMMA PowerNewKeeps ==
    ASSUME NEW x, Works(x), NEW H, NEW d \in Devices, Shape(x, H, {d}), x.dev[d].driver,
           NEW o \in Outs(H), NEW t, t = TypeOf[d]
    PROVE  LET y == PowerNewDevice(x, t, d, o) IN Works(y) /\ SameShape(x, y)
<1> DEFINE r == __connman_device_enable(x, d, o)
           s == __connman_device_disable(x, d, o)
           y == PowerNewDevice(x, t, d, o)
<1>0. t \in Types \ {"p2p"} /\ {d} \in SUBSET {d} BY PowerAssumption
<1>1. Works(r.w) /\ SameShape(x, r.w) /\ (r.err = "EALREADY" => r.w.dev[d].powered)
  BY Zenon, <1>0, DeviceEnableKeeps
<1>2. Works(s.w) /\ SameShape(x, s.w) BY Zenon, <1>0, DeviceDisableKeeps
<1>3. \/ y \in {x, r.w, s.w}
      \/ r.err = "EALREADY" /\ y = __connman_technology_enabled(r.w, t)
  BY DEF PowerNewDevice
<1> HIDE DEF r, s, y
<1>4. ASSUME r.err = "EALREADY" PROVE __connman_technology_enabled(r.w, t) = r.w
  <2>1. technology_find(r.w, t) /\ ~r.w.tech[t].rfkill_driven => r.w.tech[t].enabled
    BY <1>0, <1>1, <1>4 DEF Works, Powers, ByDevices, technology_find
  <2>2. QED BY Zenon, <2>1 DEF __connman_technology_enabled, technology_enabled
<1>5. y \in {x, r.w, s.w} BY <1>3, <1>4
<1>6. QED BY <1>1, <1>2, <1>5, SameShapeSelf DEF y

\* Another list for a technology: it leaves out the devices of Y instead of those of X.
Relisted(x, y, t, q, H, Y) ==
    /\ Works(y) /\ Shape(y, H, Y)
    /\ y.dev = x.dev /\ y.rfkill = x.rfkill
    /\ y.tech[t].refcount = x.tech[t].refcount

\* X and Y differ in devices of t only.
SameElsewhere(X, Y, t) == \A e \in Devices : TypeOf[e] # t => (e \in X <=> e \in Y)

\* A technology gets a new list of devices.
LEMMA ListKeeps ==
    ASSUME NEW x, Works(x), NEW H, NEW X, Shape(x, H, X), NEW t \in Types \ {"p2p"},
           x.tech[t].refcount > 0, NEW q \in Seq(Devices), Once(q), NEW Y,
           \A e \in Devices : Holds(q, e) <=> (x.dev[e].driver /\ TypeOf[e] = t /\ e \notin Y),
           SameElsewhere(X, Y, t), Held(x, Y), NEW y, y = [x EXCEPT !.tech[t].device_list = q]
    PROVE  Relisted(x, y, t, q, H, Y)
<1> DEFINE c == x.tech[t]
           a == [c EXCEPT !.device_list = q]
<1>0. x \in Worlds /\ c \in TechRecords BY DEF Works, Powers, Worlds
<1>1. y = PutTech(x, t, a) BY <1>0 DEF PutTech, Worlds
<1>4. /\ a \in TechRecords /\ a.refcount = c.refcount /\ (a.enabled <=> c.enabled)
      /\ (a.rfkill_driven <=> c.rfkill_driven) /\ (a.softblocked <=> c.softblocked)
      /\ (a.hardblocked <=> c.hardblocked) /\ a.device_list = q
      /\ a.callers = c.callers /\ (a.pending_reply <=> c.pending_reply)
  BY Zenon, <1>0 DEF TechRecords
<1> HIDE DEF a
<1>5. IsPutTech(x, y, t, a) BY <1>0, <1>1, <1>4, PutTechIs
<1>6. \A u \in Types :
       /\ y.tech[u].enabled <=> x.tech[u].enabled
       /\ y.tech[u].refcount = x.tech[u].refcount
       /\ y.tech[u].rfkill_driven <=> x.tech[u].rfkill_driven
       /\ y.tech[u].softblocked <=> x.tech[u].softblocked
       /\ y.tech[u].hardblocked <=> x.tech[u].hardblocked
       /\ y.tech[u].callers = x.tech[u].callers
       /\ y.tech[u].pending_reply <=> x.tech[u].pending_reply
  BY <1>4, <1>5 DEF IsPutTech
<1>7. CallersOk(y) BY <1>6 DEF Works, Powers, CallersOk
<1>8. Bare(y) BY <1>4, <1>5 DEF Works, Powers, Bare, IsPutTech
<1>9. Blank(y) /\ Timed(y) BY <1>5 DEF Works, Powers, Blank, Timed, IsPutTech
<1>10. ByDevices(y) BY <1>5, <1>6 DEF Works, Powers, ByDevices, IsPutTech
<1>11. BySwitch(y) BY <1>6 DEF Works, Powers, BySwitch
<1>12. Works(y) BY <1>5, <1>7, <1>8, <1>9, <1>10, <1>11 DEF Works, Powers, IsPutTech
<1>13. Driven(y) BY <1>6 DEF Shape, Driven
<1>14. InUse(y)
  <2>1. \A i \in 1..Len(x.technology_list) : x.technology_list[i] \in Types BY <1>0 DEF Worlds
  <2>2. y.technology_list = x.technology_list BY <1>5 DEF IsPutTech
  <2>3. QED BY <1>6, <2>1, <2>2 DEF Shape, InUse
<1>15. Lists(y, Y)
  <2> SUFFICES ASSUME NEW u \in Types \ {"p2p"}
               PROVE  /\ Once(y.tech[u].device_list)
                      /\ \A e \in Devices : Holds(y.tech[u].device_list, e)
                             <=> (y.dev[e].driver /\ TypeOf[e] = u /\ e \notin Y)
    BY DEF Lists
  <2>0. y.dev = x.dev BY <1>5 DEF IsPutTech
  <2>1. CASE u = t BY <1>4, <1>5, <2>0, <2>1 DEF IsPutTech
  <2>2. CASE u # t
    <3>1. y.tech[u] = x.tech[u] BY <1>5, <2>2 DEF IsPutTech
    <3>2. /\ Once(x.tech[u].device_list)
          /\ \A e \in Devices : Holds(x.tech[u].device_list, e)
                 <=> (x.dev[e].driver /\ TypeOf[e] = u /\ e \notin X)
      BY DEF Shape, Lists
    <3>3. QED BY <2>0, <2>2, <3>1, <3>2 DEF SameElsewhere
  <2>3. QED BY <2>1, <2>2
<1>16. Present(y) /\ Owned(y, H)
  BY <1>5, <1>6, PowerAssumption DEF Shape, Present, Owned, IsPutTech
<1>17. Held(y, Y)
  <2> SUFFICES ASSUME NEW u \in Types \ {"p2p"}
      PROVE  Cardinality(DevUsers(y, u, Y)) + Cardinality(SwUsers(y, u)) <= y.tech[u].refcount
    BY DEF Held
  <2>1. DevUsers(y, u, Y) = DevUsers(x, u, Y) /\ SwUsers(y, u) = SwUsers(x, u)
    BY <1>5 DEF DevUsers, SwUsers, IsPutTech
  <2>2. QED BY <1>6, <2>1 DEF Held
<1>18. QED BY <1>5, <1>6, <1>12, <1>13, <1>14, <1>15, <1>16, <1>17 DEF Shape, Relisted, IsPutTech

\* The device enters the list of its technology.
LEMMA AddListedKeeps ==
    ASSUME NEW x, Works(x), NEW H, NEW d \in Devices, Shape(x, H, {d}), x.dev[d].driver,
           Held(x, {}), NEW t, t = TypeOf[d], x.tech[t].refcount > 0
    PROVE  Works(AddListed(x, t, d)) /\ Shape(AddListed(x, t, d), H, {})
<1> DEFINE l == x.tech[t].device_list
           q == <<d>> \o l
<1>0. t \in Types \ {"p2p"} /\ l \in Seq(Devices)
  BY PowerAssumption DEF Works, Powers, Worlds, TechRecords
<1>1. AddListed(x, t, d) = [x EXCEPT !.tech[t].device_list = q] BY DEF AddListed
<1>2. /\ Once(l)
      /\ \A e \in Devices : Holds(l, e) <=> (x.dev[e].driver /\ TypeOf[e] = t /\ e \notin {d})
  BY <1>0 DEF Shape, Lists
<1> HIDE DEF l
<1>3. q \in Seq(Devices) /\ Once(q) /\ \A e : Holds(q, e) <=> Holds(l, e) \/ e = d
  BY <1>0, <1>2, Prepended
<1> HIDE DEF q
<1>4. /\ \A e \in Devices : Holds(q, e) <=> (x.dev[e].driver /\ TypeOf[e] = t /\ e \notin {})
      /\ SameElsewhere({d}, {}, t)
  BY <1>2, <1>3 DEF SameElsewhere
<1>5. Relisted(x, AddListed(x, t, d), t, q, H, {}) BY Zenon, <1>0, <1>1, <1>3, <1>4, ListKeeps
<1>6. QED BY <1>5 DEF Relisted

\* g_slist_remove() of a device: its reference is left.
Released(x, y, t, d, H) ==
    /\ Works(y) /\ Shape(y, H, {d}) /\ y.dev = x.dev
    /\ y.tech[t].refcount > 0
    /\ Cardinality(DevUsers(y, t, {d})) + Cardinality(SwUsers(y, t)) < y.tech[t].refcount

\* The list loses a device, whose reference is then one too many.
LEMMA UnlistKeeps ==
    ASSUME Basics, NEW x, Works(x), NEW H, NEW d \in Devices, Shape(x, H, {}), x.dev[d].driver,
           NEW t, t = TypeOf[d], NEW y, y = [x EXCEPT !.tech[t].device_list = Unlisted(@, d)]
    PROVE  Released(x, y, t, d, H)
<1> DEFINE l == x.tech[t].device_list
           q == Unlisted(l, d)
<1>0. t \in Types \ {"p2p"} /\ l \in Seq(Devices) /\ \A s \in Types : x.tech[s].refcount \in Nat
  BY PowerAssumption DEF Works, Powers, Worlds, TechRecords
<1>1. y = [x EXCEPT !.tech[t].device_list = q] OBVIOUS
<1>2. /\ Once(l)
      /\ \A e \in Devices : Holds(l, e) <=> (x.dev[e].driver /\ TypeOf[e] = t /\ e \notin {})
  BY <1>0 DEF Shape, Lists
<1> HIDE DEF l
<1>3. q \in Seq(Devices) /\ Once(q) /\ \A e : Holds(q, e) <=> Holds(l, e) /\ e # d
  BY <1>0, <1>2, Removed
<1> HIDE DEF q
<1>4. /\ \A e \in Devices : Holds(q, e) <=> (x.dev[e].driver /\ TypeOf[e] = t /\ e \notin {d})
      /\ SameElsewhere({}, {d}, t)
  BY <1>2, <1>3 DEF SameElsewhere
<1>5. Cardinality(DevUsers(x, t, {})) = Cardinality(DevUsers(x, t, {d})) + 1
  <2>1. DevUsers(x, t, {}) = DevUsers(x, t, {d}) \union {d} BY DEF DevUsers
  <2>2. d \notin DevUsers(x, t, {d}) BY DEF DevUsers
  <2>3. DevUsers(x, t, {d}) \in SUBSET Devices BY UsersFinite
  <2>4. QED BY Zenon, <2>1, <2>2, <2>3, DeviceCounts
<1>6. Cardinality(DevUsers(x, t, {d})) + Cardinality(SwUsers(x, t)) < x.tech[t].refcount
  BY <1>0, <1>5, UsersFinite DEF Shape, Held
<1>7. Held(x, {d})
  <2> SUFFICES ASSUME NEW s \in Types \ {"p2p"}
      PROVE  Cardinality(DevUsers(x, s, {d})) + Cardinality(SwUsers(x, s)) <= x.tech[s].refcount
    BY Zenon DEF Held
  <2>1. CASE s = t BY <1>0, <1>6, <2>1, UsersFinite
  <2>2. CASE s # t
    <3>1. DevUsers(x, s, {d}) = DevUsers(x, s, {}) BY <2>2 DEF DevUsers
    <3>2. QED BY <3>1 DEF Shape, Held
  <2>3. QED BY <2>1, <2>2
<1>8. x.tech[t].refcount > 0 BY <1>0, <1>6, UsersFinite
<1>9. Relisted(x, y, t, q, H, {d}) BY Zenon, <1>0, <1>1, <1>3, <1>4, <1>7, <1>8, ListKeeps
<1>10. DevUsers(y, t, {d}) = DevUsers(x, t, {d}) /\ SwUsers(y, t) = SwUsers(x, t)
  BY <1>9 DEF DevUsers, SwUsers, Relisted
<1>11. QED BY <1>6, <1>8, <1>9, <1>10 DEF Relisted, Released

=============================================================================

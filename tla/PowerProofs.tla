----------------------------- MODULE PowerProofs ----------------------------
(***************************************************************************)
(* What holds of the power of technologies and devices (module Power) in   *)
(* every behaviour: the steps of a device, of an rfkill switch and of a    *)
(* user keep the invariant, and what the run of the module checks follows. *)
(* The facts about numbers and finite sets that PowerDeviceProofs takes as *)
(* hypotheses (Basics) are proved at the end.                              *)
(***************************************************************************)
EXTENDS PowerDeviceProofs, FiniteSetTheorems, WellFoundedInduction

\* The record of a device that no technology lists, before its driver comes and
\* after it went.
LEMMA PlugKeeps ==
    ASSUME NEW x, Works(x), NEW H, NEW d \in Devices, NEW X \in SUBSET {d}, Shape(x, H, X),
           d \in H, d \in X \/ ~x.dev[d].driver, ~x.dev[d].powered,
           NEW a \in DeviceRecords, ~a.powered, a.powered_pending = "NONE", ~a.pending_timeout,
           a.driver \/ a = NewDevice, NEW Y \in SUBSET {d}, d \in Y \/ ~a.driver,
           NEW y, IsPutDev(x, y, d, a)
    PROVE  Works(y) /\ Shape(y, H, Y)
<1>1. /\ y \in Worlds /\ y.tech = x.tech /\ y.technology_list = x.technology_list
      /\ y.rfkill = x.rfkill /\ y.dev[d] = a /\ \A e \in Devices \ {d} : y.dev[e] = x.dev[e]
  BY DEF IsPutDev
<1>2. CallersOk(y) /\ Bare(y) /\ BySwitch(y) BY <1>1 DEF Works, Powers, CallersOk, Bare, BySwitch
<1>3. Blank(y) BY <1>1 DEF Works, Powers, Blank
<1>4. Timed(y) BY <1>1 DEF Works, Timed
<1>5. \A e \in Devices : y.dev[e].powered <=> x.dev[e].powered BY <1>1
<1>6. ByDevices(y) BY <1>1, <1>5 DEF Works, Powers, ByDevices
<1>7. Works(y) BY <1>1, <1>2, <1>3, <1>4, <1>6 DEF Works, Powers
<1>8. Driven(y) /\ InUse(y) /\ Present(y) BY <1>1 DEF Shape, Driven, InUse, Present
<1>9. Owned(y, H) BY <1>1 DEF Shape, Owned
<1>10. \A e \in Devices : (y.dev[e].driver /\ e \notin Y) <=> (x.dev[e].driver /\ e \notin X)
  BY <1>1
<1>11. Lists(y, Y) BY <1>1, <1>10 DEF Shape, Lists
<1>12. Held(y, Y)
  <2> SUFFICES ASSUME NEW u \in Types \ {"p2p"}
      PROVE  Cardinality(DevUsers(y, u, Y)) + Cardinality(SwUsers(y, u)) <= y.tech[u].refcount
    BY DEF Held
  <2>1. DevUsers(y, u, Y) = DevUsers(x, u, X) BY <1>10 DEF DevUsers
  <2>2. SwUsers(y, u) = SwUsers(x, u) BY <1>1 DEF SwUsers
  <2>3. QED BY <1>1, <2>1, <2>2 DEF Shape, Held
<1>13. QED BY <1>7, <1>8, <1>9, <1>11, <1>12 DEF Shape

\* connman_device_register().
LEMMA RegisterKeeps ==
    ASSUME Basics, NEW x, Works(x), NEW H, Shape(x, H, {}), NEW d \in Devices, d \in H,
           ~x.dev[d].driver, NEW o \in Outs(H)
    PROVE  LET y == connman_device_register(x, d, o) IN Works(y) /\ Shape(y, H, {})
<1> DEFINE t == TypeOf[d]
           a == [NewDevice EXCEPT !.driver = TRUE]
           u == PutDev(x, d, a)
           v == technology_get(u, t, o)
           z == PowerNewDevice(v, t, d, o)
<1>0. x \in Worlds /\ t \in Types \ {"p2p"} BY PowerAssumption DEF Works, Powers
<1>1. /\ a \in DeviceRecords /\ ~a.powered /\ a.powered_pending = "NONE" /\ ~a.pending_timeout
      /\ a.driver
  BY Zenon DEF DeviceRecords, NewDevice, PendingTypes
<1>2. x.dev[d] = NewDevice BY DEF Works, Powers, Blank
<1>3. connman_device_register(x, d, o) = AddListed(z, t, d)
  <2>1. [x EXCEPT !.dev[d].driver = TRUE] = u BY Zenon, <1>0, <1>2 DEF PutDev, Worlds
  <2>2. QED BY Zenon, <2>1 DEF connman_device_register, __connman_technology_add_device
<1> HIDE DEF t, a
<1>4. IsPutDev(x, u, d, a) BY <1>0, <1>1, PutDevIs
<1> HIDE DEF u
<1>5. Works(u) /\ Shape(u, H, {d})
  <2>1. ~x.dev[d].powered BY <1>2 DEF NewDevice
  <2>2. {} \in SUBSET {d} /\ {d} \in SUBSET {d} /\ d \in {d} OBVIOUS
  <2>3. QED BY Zenon, <1>1, <1>4, <2>1, <2>2, PlugKeeps
<1>6. u.dev[d] = a BY <1>4 DEF IsPutDev
<1>7. \A e \in Devices : e \in {d} => ~u.dev[e].powered BY <1>1, <1>6
<1>8. Got(u, v, t, H, {d}) BY <1>0, <1>5, <1>7, GetKeeps
<1> HIDE DEF v
<1>9. Works(v) /\ Shape(v, H, {d}) /\ v.dev = u.dev /\ v.rfkill = u.rfkill BY <1>8 DEF Got
<1>10. v.dev[d].driver BY <1>1, <1>6, <1>9
<1>11. Held(v, {})
  <2> SUFFICES ASSUME NEW s \in Types \ {"p2p"}
      PROVE  Cardinality(DevUsers(v, s, {})) + Cardinality(SwUsers(v, s)) <= v.tech[s].refcount
    BY DEF Held
  <2>1. Cardinality(DevUsers(u, s, {d})) + Cardinality(SwUsers(u, s)) <= u.tech[s].refcount
    BY Zenon, <1>5 DEF Shape, Held
  <2>2. SwUsers(v, s) = SwUsers(u, s) BY <1>9 DEF SwUsers
  <2>3. u.tech[s].refcount \in Nat BY <1>5 DEF Works, Powers, Worlds, TechRecords
  <2>4. CASE s = t
    <3>1. DevUsers(v, s, {}) = DevUsers(u, s, {d}) \union {d}
      BY <1>9, <1>10, <2>4 DEF DevUsers, t
    <3>2. d \notin DevUsers(u, s, {d}) BY DEF DevUsers
    <3>3. DevUsers(u, s, {d}) \in SUBSET Devices BY UsersFinite
    <3>4. Cardinality(DevUsers(v, s, {})) = Cardinality(DevUsers(u, s, {d})) + 1
      BY Zenon, <3>1, <3>2, <3>3, DeviceCounts
    <3>5. v.tech[s].refcount = u.tech[s].refcount + 1 BY <1>8, <2>4 DEF Got
    <3>6. QED BY <2>1, <2>2, <2>3, <3>4, <3>5, UsersFinite
  <2>5. CASE s # t
    <3>1. DevUsers(v, s, {}) = DevUsers(u, s, {d}) BY <1>9, <2>5 DEF DevUsers, t
    <3>2. v.tech[s].refcount = u.tech[s].refcount BY <1>8, <2>5 DEF Got
    <3>3. QED BY <2>1, <2>2, <3>1, <3>2
  <2>6. QED BY <2>4, <2>5
<1>12. v.tech[t].refcount > 0
  <2>1. u.tech[t].refcount \in Nat BY <1>0, <1>5 DEF Works, Powers, Worlds, TechRecords
  <2>2. QED BY <2>1, <1>8 DEF Got
<1>13. Works(z) /\ SameShape(v, z)
  <2>1. t = TypeOf[d] BY DEF t
  <2>2. QED BY Zenon, <1>9, <1>10, <2>1, PowerNewKeeps
<1> HIDE DEF z
<1>14. Shape(z, H, {d}) BY <1>9, <1>13, SameShapeKeeps DEF Works, Powers
<1>15. Held(z, {}) BY <1>11, <1>13, SameShapeUse, SameUseHeld
<1>16. z.dev[d].driver /\ z.tech[t].refcount > 0
  BY <1>0, <1>10, <1>12, <1>13 DEF SameShape, SameTech
<1>17. t = TypeOf[d] BY DEF t
<1>18. Works(AddListed(z, t, d)) /\ Shape(AddListed(z, t, d), H, {})
  BY Zenon, <1>13, <1>14, <1>15, <1>16, <1>17, AddListedKeeps
<1>19. QED BY Zenon, <1>3, <1>18

\* The driver reports the power of its device.
LEMMA ReportKeeps ==
    ASSUME NEW x, Works(x), NEW H, NEW d \in Devices, NEW X \in SUBSET {d}, Shape(x, H, X),
           x.dev[d].driver, NEW on \in BOOLEAN,
           NEW y, y = connman_device_set_powered(x, d, on)
    PROVE  Works(y) /\ Shape(y, H, X) /\ (y.dev[d].powered <=> on)
<1>0. x \in Worlds /\ x.dev[d] \in DeviceRecords /\ Powers(x) BY DEF Works, Powers, Worlds
<1>1. Reported(x, y, d, on) BY Zenon, <1>0, SetPoweredKeeps
<1>2. Shape(y, H, X) BY <1>0, <1>1, SameShapeKeeps DEF Reported, Powers
<1>3. CASE x.dev[d].powered = on
  <2>1. y.dev[d] = x.dev[d] BY <1>1, <1>3 DEF Reported
  <2>2. Timed(y) BY <1>1, <2>1 DEF Works, Timed, Reported
  <2>3. QED BY <1>1, <1>2, <1>3, <2>1, <2>2 DEF Works, Reported
<1>4. CASE x.dev[d].powered # on
  <2>1. y.dev[d] = Settled(x.dev[d], on) BY <1>1, <1>4 DEF Reported
  <2>2. /\ y.dev[d].powered <=> on
        /\ y.dev[d].powered_pending = "NONE" /\ ~y.dev[d].pending_timeout
    BY <1>0, <2>1, SettledIs
  <2>3. Timed(y) BY <1>1, <2>2 DEF Works, Timed, Reported
  <2>4. QED BY <1>1, <1>2, <2>2, <2>3 DEF Works, Reported
<1>5. QED BY <1>3, <1>4

\* The four seconds of a request are over.
LEMMA ResetKeeps ==
    ASSUME NEW x, Works(x), NEW H, NEW d \in Devices, Shape(x, H, {}), x.dev[d].pending_timeout
    PROVE  Works(device_pending_reset(x, d)) /\ Shape(device_pending_reset(x, d), H, {})
<1> DEFINE c == x.dev[d]
           a == [c EXCEPT !.pending_timeout = FALSE, !.powered_pending = "NONE"]
           y == PutDev(x, d, a)
<1>0. x \in Worlds /\ c \in DeviceRecords BY DEF Works, Powers, Worlds
<1>1. device_pending_reset(x, d) = y BY Zenon, <1>0 DEF device_pending_reset, PutDev, Worlds
<1>2. x.dev[d].driver BY DEF Works, Powers, Blank, NewDevice
<1>3. /\ a \in DeviceRecords /\ a.driver /\ (a.powered <=> c.powered)
      /\ a.powered_pending = "NONE" /\ ~a.pending_timeout
  BY Zenon, <1>0, <1>2 DEF DeviceRecords, PendingTypes
<1> HIDE DEF a
<1>4. IsPutDev(x, y, d, a) BY <1>0, <1>3, PutDevIs
<1> HIDE DEF y
<1>5. Powers(y) /\ SameShape(x, y) BY <1>2, <1>3, <1>4, RequestKeeps DEF Works
<1>6. Timed(y) BY <1>3, <1>4 DEF Works, Timed, IsPutDev
<1>7. Shape(y, H, {}) BY <1>0, <1>5, SameShapeKeeps DEF Powers
<1>8. QED BY <1>1, <1>5, <1>6, <1>7 DEF Works

\* connman_device_unregister().
LEMMA RemoveKeeps ==
    ASSUME Basics, AllReport, NEW x, Works(x), NEW H, Shape(x, H, {}), NEW d \in Devices,
           x.dev[d].driver, NEW o \in Outs(H)
    PROVE  Works(remove_device(x, d, o)) /\ Shape(remove_device(x, d, o), H, {})
<1> DEFINE t == TypeOf[d]
           u == __connman_device_disable(x, d, o).w
           v == [u EXCEPT !.tech[t].device_list = Unlisted(@, d)]
           p == technology_put(v, t)
           s == connman_device_set_powered(p, d, FALSE)
           y == PutDev(s, d, NewDevice)
<1>0. x \in Worlds /\ t \in Types \ {"p2p"} BY PowerAssumption DEF Works, Powers
<1>1. remove_device(x, d, o) = y
  BY Zenon DEF remove_device, RemoveDriver, AllReport, __connman_technology_remove_device, PutDev
<1>2. {} \in SUBSET {d} /\ {d} \in SUBSET {d} /\ d \in {d} /\ FALSE \in BOOLEAN OBVIOUS
<1>3. Works(u) /\ SameShape(x, u) BY Zenon, <1>2, DeviceDisableKeeps
<1> HIDE DEF u
<1>4. Shape(u, H, {}) /\ u.dev[d].driver
  BY <1>0, <1>3, SameShapeKeeps DEF Works, Powers, SameShape
<1>5. Released(u, v, t, d, H) BY Zenon, <1>3, <1>4, UnlistKeeps
<1> HIDE DEF v, t
<1>6. Works(p) /\ Shape(p, H, {d}) /\ p.dev = v.dev BY Zenon, <1>0, <1>5, PutKeeps DEF Released
<1> HIDE DEF p
<1>7. p.dev[d].driver BY <1>4, <1>5, <1>6 DEF Released
<1>8. Works(s) /\ Shape(s, H, {d}) /\ (s.dev[d].powered <=> FALSE)
  BY Zenon, <1>2, <1>6, <1>7, ReportKeeps
<1> HIDE DEF s
<1>9. /\ NewDevice \in DeviceRecords /\ ~NewDevice.powered /\ NewDevice.powered_pending = "NONE"
      /\ ~NewDevice.pending_timeout /\ ~NewDevice.driver
  BY DEF DeviceRecords, NewDevice, PendingTypes
<1>10. IsPutDev(s, y, d, NewDevice) BY <1>8, <1>9, PutDevIs DEF Works, Powers
<1> HIDE DEF y
<1>11. d \in H /\ ~s.dev[d].powered BY <1>8 DEF Shape, Owned
<1>12. Works(y) /\ Shape(y, H, {}) BY Zenon, <1>2, <1>8, <1>9, <1>10, <1>11, PlugKeeps
<1>13. QED BY <1>1, <1>12

\* The supplicant has an interface for P2P.
LEMMA P2pFoundKeeps ==
    ASSUME Basics, NEW x, Works(x), NEW H, Shape(x, H, {}), "p2p" \in Types,
           ~technology_find(x, "p2p"), NEW o
    PROVE  LET y == technology_get(x, "p2p", o) IN Works(y) /\ Shape(y, H, {})
<1> DEFINE v == NewTechnology(x, "p2p")
           y == technology_get(x, "p2p", o)
<1>0. x \in Worlds /\ x.tech["p2p"].refcount \in Nat BY DEF Works, Powers, Worlds, TechRecords
<1>1. x.tech["p2p"].refcount = 0 BY <1>0 DEF technology_find
<1>2. Works(v) /\ Shape(v, H, {}) /\ v.tech["p2p"].refcount = 1
  <2> DEFINE X == {}
  <2>1. Shape(x, H, X) /\ \A d \in Devices : d \in X => ~x.dev[d].powered OBVIOUS
  <2> HIDE DEF X
  <2>2. Works(v) /\ Shape(v, H, X) /\ v.tech["p2p"].refcount = 1
    BY Zenon, <1>1, <2>1, NewTechnologyKeeps
  <2>3. QED BY <2>2 DEF X
<1>3. y \in {v, technology_enabled(v, "p2p"), technology_disabled(v, "p2p")}
  BY Zenon DEF technology_get, technology_affect_devices, __connman_technology_enabled,
     __connman_technology_disabled
<1> HIDE DEF v, y
<1>4. v \in Worlds /\ CallersOk(v) /\ Bare(v) /\ v.tech["p2p"].refcount > 0 /\ Driven(v)
  BY <1>2 DEF Works, Powers, Shape
<1>5. Switched(v, technology_enabled(v, "p2p"), "p2p", TRUE) BY Zenon, <1>4, EnabledSwitches
<1>6. Switched(v, technology_disabled(v, "p2p"), "p2p", FALSE) BY Zenon, <1>4, DisabledSwitches
<1>7. y = v \/ \E on : Switched(v, y, "p2p", on) BY Zenon, <1>3, <1>5, <1>6
<1>8. CASE y = v BY <1>2, <1>8 DEF y
<1>9. CASE \E on : Switched(v, y, "p2p", on)
  <2>1. PICK on : Switched(v, y, "p2p", on) BY <1>9
  <2>2. Works(y) BY <1>2, <1>4, <2>1, P2pKeeps
  <2>3. SameShape(v, y) BY <2>1 DEF Switched
  <2>4. Shape(y, H, {}) BY <1>2, <2>2, <2>3, SameShapeKeeps DEF Works, Powers
  <2>5. QED BY <2>2, <2>4 DEF y
<1>10. QED BY <1>7, <1>8, <1>9

-----------------------------------------------------------------------------
\* Works but for the switch: the technology is about to follow it.
Almost(x) ==
    x \in Worlds /\ CallersOk(x) /\ Bare(x) /\ Blank(x) /\ ByDevices(x) /\ Timed(x)

-----------------------------------------------------------------------------
\* A technology with a switch was turned as the switch says.
LEMMA FollowedWorks ==
    ASSUME NEW x, Almost(x), Driven(x), x.tech[RfkillType].rfkill_driven,
           NEW on \in BOOLEAN, NEW y, Switched(x, y, RfkillType, on),
           on <=> ~x.tech[RfkillType].softblocked /\ ~x.tech[RfkillType].hardblocked
    PROVE  Works(y) /\ SameShape(x, y)
<1>0. RfkillType \in Types BY PowerAssumption
<1>1. y.dev = x.dev /\ \A u \in Types \ {RfkillType, "p2p"} : y.tech[u] = x.tech[u]
  BY DEF Switched
<1>2. SameShape(x, y) BY DEF Switched
<1>3. Blank(y) /\ Timed(y) BY <1>1 DEF Almost, Blank, Timed
<1>4. ByDevices(y)
  <2> SUFFICES ASSUME NEW u \in Types \ {"p2p"}, y.tech[u].refcount > 0, ~y.tech[u].rfkill_driven
               PROVE  y.tech[u].enabled <=> \E d \in Devices : TypeOf[d] = u /\ y.dev[d].powered
    BY DEF ByDevices
  <2>1. ~x.tech[u].rfkill_driven BY <1>2 DEF SameShape, SameTech
  <2>2. u # RfkillType BY <2>1
  <2>3. y.tech[u] = x.tech[u] BY <1>1, <2>2
  <2>4. QED BY <1>1, <2>3 DEF Almost, ByDevices
<1>5. BySwitch(y)
  <2> SUFFICES ASSUME NEW u \in Types, y.tech[u].rfkill_driven
               PROVE  y.tech[u].enabled <=> ~y.tech[u].softblocked /\ ~y.tech[u].hardblocked
    BY DEF BySwitch
  <2>1. u = RfkillType BY <1>2 DEF SameShape, SameTech, Driven
  <2>2. /\ y.tech[u].softblocked <=> x.tech[u].softblocked
        /\ y.tech[u].hardblocked <=> x.tech[u].hardblocked
    BY <1>2 DEF SameShape, SameTech
  <2>3. y.tech[u].enabled <=> on BY <2>1 DEF Switched
  <2>4. QED BY <2>1, <2>2, <2>3
<1>6. QED BY <1>2, <1>3, <1>4, <1>5 DEF Switched, Works, Powers

\* Technology and devices follow the blocks.
LEMMA FollowKeeps ==
    ASSUME Basics, NEW x, Almost(x), NEW H, Shape(x, H, {}), x.tech[RfkillType].rfkill_driven,
           NEW o \in Outs(H)
    PROVE  LET y == FollowBlocks(x, RfkillType, o) IN Works(y) /\ SameShape(x, y)
<1> DEFINE t == RfkillType
           off == technology_disabled(x, t)
           on == technology_enabled(x, t)
           y == FollowBlocks(x, t, o)
           b == x.tech[t].hardblocked \/ x.tech[t].softblocked
<1>0. t \in Types /\ t \in Types \ {"p2p"} BY PowerAssumption DEF RfkillType
<1>1. x \in Worlds /\ CallersOk(x) /\ Bare(x) /\ x.tech[t] \in TechRecords
  BY <1>0 DEF Almost, Worlds
<1>2. x.tech[t].refcount > 0
  <2>1. x.tech[t].refcount # 0 BY <1>0 DEF Almost, Bare, NoTechnology
  <2>2. QED BY <1>1, <2>1 DEF TechRecords
<1>3. Driven(x) BY DEF Shape
<1>4. CASE (b /\ ~x.tech[t].enabled) \/ (~b /\ x.tech[t].enabled)
  <2>1. y = x BY Zenon, <1>4 DEF FollowBlocks
  <2>2. BySwitch(x) BY <1>3, <1>4 DEF Driven, BySwitch
  <2>3. QED BY <2>1, <2>2, SameShapeSelf DEF Almost, Works, Powers
<1>5. CASE b /\ x.tech[t].enabled
  <2>1. y = technology_affect_devices(off, t, FALSE, o).w BY Zenon, <1>5 DEF FollowBlocks
  <2>2. Switched(x, off, t, FALSE) BY Zenon, <1>0, <1>1, <1>2, DisabledSwitches
  <2> HIDE DEF off, y
  <2>3. Works(off) /\ SameShape(x, off) BY Zenon, <1>3, <1>5, <2>2, FollowedWorks
  <2>4. Shape(off, H, {}) BY <1>1, <2>3, SameShapeKeeps DEF Works, Powers
  <2>5. Works(y) /\ SameShape(off, y) BY Zenon, <1>0, <2>1, <2>3, <2>4, AffectKeeps
  <2>6. SameShape(x, y) BY <2>3, <2>5, SameShapeTrans
  <2>7. QED BY <2>5, <2>6 DEF y
<1>6. CASE ~b /\ ~x.tech[t].enabled
  <2>1. y = technology_affect_devices(on, t, TRUE, o).w BY Zenon, <1>6 DEF FollowBlocks
  <2>2. Switched(x, on, t, TRUE) BY Zenon, <1>0, <1>1, <1>2, EnabledSwitches
  <2> HIDE DEF on, y
  <2>3. Works(on) /\ SameShape(x, on) BY Zenon, <1>3, <1>6, <2>2, FollowedWorks
  <2>4. Shape(on, H, {}) BY <1>1, <2>3, SameShapeKeeps DEF Works, Powers
  <2>5. Works(y) /\ SameShape(on, y) BY Zenon, <1>0, <2>1, <2>3, <2>4, AffectKeeps
  <2>6. SameShape(x, y) BY <2>3, <2>5, SameShapeTrans
  <2>7. QED BY <2>5, <2>6 DEF y
<1>7. QED BY <1>4, <1>5, <1>6

\* The blocks of a technology with a switch.
LEMMA BlocksKeep ==
    ASSUME NEW x, Almost(x), x.tech[RfkillType].rfkill_driven,
           NEW soft \in BOOLEAN, NEW hard \in BOOLEAN
    PROVE  LET y == SetBlocks(x, RfkillType, soft, hard)
           IN  Almost(y) /\ SameUse(x, y)
<1> DEFINE t == RfkillType
           c == x.tech[t]
           a == [c EXCEPT !.softblocked = soft, !.hardblocked = hard]
           y == PutTech(x, t, a)
<1>0. t \in Types /\ x \in Worlds /\ c \in TechRecords BY PowerAssumption DEF Almost, Worlds
<1>1. SetBlocks(x, t, soft, hard) = y BY Zenon, <1>0 DEF SetBlocks, PutTech, Worlds
<1>2. /\ a \in TechRecords /\ a.refcount = c.refcount /\ (a.enabled <=> c.enabled)
      /\ (a.rfkill_driven <=> c.rfkill_driven) /\ a.device_list = c.device_list
      /\ a.callers = c.callers /\ (a.pending_reply <=> c.pending_reply)
  BY Zenon, <1>0 DEF TechRecords
<1> HIDE DEF a, t
<1>3. IsPutTech(x, y, t, a) BY <1>0, <1>2, PutTechIs
<1> HIDE DEF y
<1>4. \A u \in Types :
         /\ y.tech[u].enabled <=> x.tech[u].enabled
         /\ y.tech[u].refcount = x.tech[u].refcount
         /\ y.tech[u].rfkill_driven <=> x.tech[u].rfkill_driven
         /\ y.tech[u].device_list = x.tech[u].device_list
         /\ y.tech[u].callers = x.tech[u].callers
         /\ y.tech[u].pending_reply <=> x.tech[u].pending_reply
  BY <1>2, <1>3 DEF IsPutTech
<1>5. CallersOk(y) BY <1>4 DEF Almost, CallersOk
<1>6. Bare(y)
  <2>1. c.refcount # 0 BY <1>0 DEF Almost, Bare, NoTechnology, t
  <2>2. QED BY <1>2, <1>3, <2>1 DEF Almost, Bare, IsPutTech
<1>7. Blank(y) /\ Timed(y) BY <1>3 DEF Almost, Blank, Timed, IsPutTech
<1>8. ByDevices(y) BY <1>3, <1>4 DEF Almost, ByDevices, IsPutTech
<1>9. SameUse(x, y) BY <1>3, <1>4 DEF SameUse, IsPutTech
<1>10. Almost(y) BY <1>3, <1>5, <1>6, <1>7, <1>8 DEF Almost, IsPutTech
<1>11. QED BY <1>1, <1>9, <1>10 DEF t

\* SameUse holds along a sequence of calls.
LEMMA SameUseTrans ==
    ASSUME NEW x, NEW y, NEW z, SameUse(x, y), SameUse(y, z)
    PROVE  SameUse(x, z)
  BY DEF SameUse

\* The technology leaves or enters D-Bus.
LEMMA DbusKeeps ==
    ASSUME NEW x, Works(x), x.tech[RfkillType].rfkill_driven, NEW b \in BOOLEAN
    PROVE  LET y == [x EXCEPT !.tech[RfkillType].dbus_registered = b]
           IN  Works(y) /\ SameUse(x, y)
<1> DEFINE t == RfkillType
           c == x.tech[t]
           a == [c EXCEPT !.dbus_registered = b]
           y == PutTech(x, t, a)
<1>0. t \in Types /\ x \in Worlds /\ c \in TechRecords BY PowerAssumption DEF Works, Powers, Worlds
<1>1. [x EXCEPT !.tech[t].dbus_registered = b] = y BY Zenon, <1>0 DEF PutTech, Worlds
<1>2. c.refcount > 0
  <2>1. ~NoTechnology.rfkill_driven BY DEF NoTechnology
  <2>2. c.refcount # 0 BY Zenon, <1>0, <2>1 DEF Works, Powers, Bare
  <2>3. QED BY <1>0, <2>2 DEF TechRecords
<1>3. /\ a \in TechRecords /\ a.refcount = c.refcount /\ (a.enabled <=> c.enabled)
      /\ (a.rfkill_driven <=> c.rfkill_driven) /\ (a.softblocked <=> c.softblocked)
      /\ (a.hardblocked <=> c.hardblocked) /\ a.device_list = c.device_list
      /\ a.callers = c.callers /\ (a.pending_reply <=> c.pending_reply)
  BY Zenon, <1>0 DEF TechRecords
<1> HIDE DEF a
<1>4. a.callers = IF a.pending_reply THEN 1 ELSE 0
  BY <1>0, <1>3 DEF Works, Powers, CallersOk
<1>5. Works(y) /\ SameUse(x, y) BY Zenon, <1>0, <1>2, <1>3, <1>4, RecordKeeps
<1>6. QED BY <1>1, <1>5

\* A hard block came or went.
LEMMA ShowKeeps ==
    ASSUME Basics, NEW x, Works(x), x.tech[RfkillType].rfkill_driven, NEW o
    PROVE  LET y == ShowTechnology(x, RfkillType, o) IN Works(y) /\ SameUse(x, y)
<1> DEFINE t == RfkillType
           off == [x EXCEPT !.tech[t].dbus_registered = FALSE]
           on == technology_dbus_register(x, t)
           z == __connman_rfkill_block(on, t, TRUE, o).w
           y == ShowTechnology(x, t, o)
<1>0. SameUse(x, x) BY DEF SameUse
<1>1. Works(off) /\ SameUse(x, off) BY Zenon, DbusKeeps
<1>2. Works(on) /\ SameUse(x, on)
  <2>1. \/ on = x \/ on = [x EXCEPT !.tech[t].dbus_registered = TRUE]
    BY Zenon DEF technology_dbus_register
  <2>2. QED BY Zenon, <1>0, <2>1, DbusKeeps
<1>3. y \in {off, on, z}
  BY Zenon DEF ShowTechnology, technology_dbus_unregister
<1>4. Works(z) /\ SameShape(on, z) BY Zenon, <1>2, RfkillBlockKeeps
<1> HIDE DEF off, on, z, y
<1>5. SameUse(x, z) BY <1>2, <1>4, SameShapeUse, SameUseTrans
<1>6. Works(y) /\ SameUse(x, y) BY <1>1, <1>2, <1>3, <1>4, <1>5
<1>7. QED BY <1>6 DEF y

\* technology_apply_rfkill_change(), of a technology that already follows its
\* switches or whose switches all say the same.
LEMMA ApplyKeeps ==
    ASSUME Basics, NEW x, Almost(x), NEW H, Shape(x, H, {}), x.tech[RfkillType].rfkill_driven,
           NEW soft \in BOOLEAN, NEW hard \in BOOLEAN, NEW new, NEW o \in Outs(H),
           BySwitch(x) \/ \A i \in Switches : x.rfkill[i].present => x.rfkill[i].hard = hard
    PROVE  LET y == technology_apply_rfkill_change(x, RfkillType, soft, hard, new, o)
           IN  Works(y) /\ SameUse(x, y)
<1> DEFINE t == RfkillType
           h == x.tech[t].hardblocked
           a == SetBlocks(x, t, soft, hard)
           b == SetBlocks(x, t, soft, h)
           u == FollowBlocks(a, t, o)
           v == FollowBlocks(b, t, o)
           z == ShowTechnology(u, t, o)
           y == technology_apply_rfkill_change(x, t, soft, hard, new, o)
<1>0. t \in Types /\ x \in Worlds /\ h \in BOOLEAN /\ x.tech[t].softblocked \in BOOLEAN
  BY PowerAssumption DEF Almost, Worlds, TechRecords
<1>1. ASSUME NEW k \in BOOLEAN
      PROVE  LET c == SetBlocks(x, t, soft, k)
                 f == FollowBlocks(c, t, o)
             IN  Works(f) /\ SameUse(x, f) /\ f.tech[t].rfkill_driven
  <2> DEFINE c == SetBlocks(x, t, soft, k)
             f == FollowBlocks(c, t, o)
  <2>1. Almost(c) /\ SameUse(x, c) BY BlocksKeep
  <2> HIDE DEF c
  <2>2. Shape(c, H, {}) BY <1>0, <2>1, SameUseKeeps DEF Almost
  <2>3. c.tech[t].rfkill_driven BY <1>0, <2>1 DEF SameUse
  <2>4. Works(f) /\ SameShape(c, f) BY <2>1, <2>2, <2>3, FollowKeeps
  <2> HIDE DEF f
  <2>5. SameUse(x, f) BY <2>1, <2>4, SameShapeUse, SameUseTrans
  <2>6. QED BY <1>0, <2>4, <2>5 DEF SameUse, c, f
<1>2. Works(u) /\ SameUse(x, u) /\ u.tech[t].rfkill_driven BY <1>1
<1>3. Works(v) /\ SameUse(x, v) BY <1>0, <1>1
<1>4. CASE HardblockApplies(x, t, hard, new)
  <2>1. y = z BY Zenon, <1>4 DEF technology_apply_rfkill_change
  <2> HIDE DEF u
  <2>2. Works(z) /\ SameUse(u, z) BY <1>2, ShowKeeps
  <2> HIDE DEF z, y
  <2>3. QED BY <1>2, <2>1, <2>2, SameUseTrans DEF y
<1>5. CASE ~HardblockApplies(x, t, hard, new) /\ (h = hard \/ x.tech[t].softblocked # soft)
  <2>1. y = v BY Zenon, <1>5 DEF technology_apply_rfkill_change
  <2>2. QED BY <1>3, <2>1
<1>6. CASE ~HardblockApplies(x, t, hard, new) /\ ~(h = hard \/ x.tech[t].softblocked # soft)
  <2>1. y = x BY Zenon, <1>6 DEF technology_apply_rfkill_change
  <2>2. BySwitch(x) BY <1>6 DEF HardblockApplies
  <2>3. QED BY <2>1, <2>2 DEF Almost, Works, Powers, SameUse
<1>7. QED BY <1>4, <1>5, <1>6

\* The switch is set as the stored setting asks for.
LEMMA AsSavedKeeps ==
    ASSUME Basics, NEW x, Works(x), NEW o
    PROVE  LET y == SetAsSaved(x, RfkillType, o) IN Works(y) /\ SameShape(x, y)
<1> DEFINE t == RfkillType
           k == ~x.tech[t].softblocked
           z == __connman_rfkill_block(x, t, k, o).w
           y == SetAsSaved(x, t, o)
<1>0. t \in Types /\ x \in Worlds BY PowerAssumption DEF Works, Powers
<1>1. k \in BOOLEAN OBVIOUS
<1>2. y \in {x, z} BY Zenon DEF SetAsSaved
<1> HIDE DEF k
<1>3. Works(z) /\ SameShape(x, z) BY Zenon, <1>1, RfkillBlockKeeps
<1> HIDE DEF z, y
<1>4. QED BY <1>2, <1>3, SameShapeSelf DEF y

-----------------------------------------------------------------------------

\* An assignment to one switch.
PutSwitch(x, i, s) == [x EXCEPT !.rfkill[i] = s]

\* y is x with the record s for the switch i of rfkill_list.
IsPutSwitch(x, y, i, s) ==
    /\ y \in Worlds
    /\ y.rfkill[i] = s
    /\ \A j \in Switches \ {i} : y.rfkill[j] = x.rfkill[j]
    /\ y.tech = x.tech /\ y.dev = x.dev /\ y.technology_list = x.technology_list
    /\ y.saved = x.saved

\* What is known of a world whose switch i became s.
LEMMA PutSwitchIs ==
    ASSUME NEW x \in Worlds, NEW i \in Switches, NEW s \in SwitchRecords
    PROVE  IsPutSwitch(x, PutSwitch(x, i, s), i, s)
  BY Zenon DEF Worlds, PutSwitch, IsPutSwitch

\* rfkill_list plays no part in the power of technologies and devices.
LEMMA SwitchWorks ==
    ASSUME NEW x, Works(x), NEW i, NEW s, NEW y, IsPutSwitch(x, y, i, s)
    PROVE  Works(y)
<1>1. y \in Worlds /\ y.tech = x.tech /\ y.dev = x.dev BY DEF IsPutSwitch
<1>2. CallersOk(y) /\ Bare(y) /\ Blank(y) BY <1>1 DEF Works, Powers, CallersOk, Bare, Blank
<1>3. ByDevices(y) /\ BySwitch(y) BY <1>1 DEF Works, Powers, ByDevices, BySwitch
<1>4. Timed(y) BY <1>1 DEF Works, Timed
<1>5. QED BY <1>1, <1>2, <1>3, <1>4 DEF Works, Powers

\* A switch that is there changes, or goes.
LEMMA SwitchKeeps ==
    ASSUME Basics, NEW x, Works(x), NEW H, Shape(x, H, {}), NEW i \in Switches, NEW s \in SwitchRecords,
           x.rfkill[i].present, NEW y, IsPutSwitch(x, y, i, s)
    PROVE  /\ Works(y) /\ Shape(y, H, {})
           /\ ~s.present => Cardinality(DevUsers(y, RfkillType, {}))
                             + Cardinality(SwUsers(y, RfkillType)) < y.tech[RfkillType].refcount
<1>1. Works(y) BY SwitchWorks
<1>2. /\ y.tech = x.tech /\ y.dev = x.dev /\ y.technology_list = x.technology_list
      /\ y.rfkill[i] = s /\ \A j \in Switches \ {i} : y.rfkill[j] = x.rfkill[j]
  BY DEF IsPutSwitch
<1>3. Driven(y) /\ InUse(y) /\ Lists(y, {}) BY <1>2 DEF Shape, Driven, InUse, Lists
<1>4. Present(y) /\ Owned(y, H) BY <1>2 DEF Shape, Present, Owned
<1>5. \A t, X : DevUsers(y, t, X) = DevUsers(x, t, X) BY <1>2 DEF DevUsers
<1>6. \A t \in Types : x.tech[t].refcount \in Nat BY DEF Works, Powers, Worlds, TechRecords
<1>7. \A t : SwUsers(y, t) \in SUBSET SwUsers(x, t) BY <1>2 DEF SwUsers
<1>8. \A t : Cardinality(SwUsers(y, t)) <= Cardinality(SwUsers(x, t))
  <2>1. \A t : SwUsers(x, t) \in SUBSET Switches BY UsersFinite
  <2>2. QED BY <1>7, <2>1 DEF Basics, Countable
<1>9. Held(y, {})
  <2> SUFFICES ASSUME NEW t \in Types \ {"p2p"}
      PROVE  Cardinality(DevUsers(y, t, {})) + Cardinality(SwUsers(y, t)) <= y.tech[t].refcount
    BY DEF Held
  <2>1. Cardinality(DevUsers(x, t, {})) + Cardinality(SwUsers(x, t)) <= x.tech[t].refcount
    BY DEF Shape, Held
  <2>2. Cardinality(SwUsers(y, t)) <= Cardinality(SwUsers(x, t)) BY <1>8
  <2>3. /\ Cardinality(SwUsers(x, t)) \in Nat /\ Cardinality(SwUsers(y, t)) \in Nat
        /\ Cardinality(DevUsers(x, t, {})) \in Nat
    BY UsersFinite
  <2>4. DevUsers(y, t, {}) = DevUsers(x, t, {}) /\ y.tech[t] = x.tech[t] BY <1>2, <1>5
  <2>5. QED BY <1>6, <2>1, <2>2, <2>3, <2>4
<1>10. ASSUME ~s.present
       PROVE  Cardinality(DevUsers(y, RfkillType, {})) + Cardinality(SwUsers(y, RfkillType))
                  < y.tech[RfkillType].refcount
  <2> DEFINE t == RfkillType
  <2>0. t \in Types \ {"p2p"} BY PowerAssumption DEF RfkillType
  <2>1. SwUsers(x, t) = SwUsers(y, t) \union {i} /\ i \notin SwUsers(y, t)
    BY <1>2, <1>10 DEF SwUsers
  <2>2. SwUsers(y, t) \in SUBSET Switches BY Zenon, UsersFinite
  <2>3. Cardinality(SwUsers(x, t)) = Cardinality(SwUsers(y, t)) + 1
    BY Zenon, <2>1, <2>2, SwitchCounts
  <2>4. Cardinality(DevUsers(x, t, {})) + Cardinality(SwUsers(x, t)) <= x.tech[t].refcount
    BY <2>0 DEF Shape, Held
  <2> HIDE DEF t
  <2>5. Cardinality(DevUsers(y, t, {})) + Cardinality(SwUsers(y, t)) < y.tech[t].refcount
    <3>1. /\ Cardinality(SwUsers(x, t)) \in Nat /\ Cardinality(SwUsers(y, t)) \in Nat
          /\ Cardinality(DevUsers(x, t, {})) \in Nat
      BY UsersFinite
    <3>2. DevUsers(y, t, {}) = DevUsers(x, t, {}) /\ y.tech[t] = x.tech[t] BY <1>2, <1>5
    <3>3. x.tech[t].refcount \in Nat BY <1>6, <2>0
    <3>4. QED BY <2>3, <2>4, <3>1, <3>2, <3>3
  <2>6. QED BY <2>5 DEF t
<1>11. QED BY <1>1, <1>3, <1>4, <1>9, <1>10 DEF Shape

\* __connman_technology_update_rfkill().
LEMMA UpdateKeeps ==
    ASSUME Basics, NEW x, Works(x), NEW H, Shape(x, H, {}), NEW i \in Switches,
           NEW soft \in BOOLEAN, NEW hard \in BOOLEAN, NEW o \in Outs(H)
    PROVE  LET y == __connman_technology_update_rfkill(x, i, RfkillType, soft, hard, o)
           IN  Works(y) /\ Shape(y, H, {})
<1> DEFINE t == RfkillType
           c == x.rfkill[i]
           s == [c EXCEPT !.soft = soft, !.hard = hard]
           k == PutSwitch(x, i, s)
           z == technology_apply_rfkill_change(k, t, soft, hard, FALSE, o)
           y == __connman_technology_update_rfkill(x, i, t, soft, hard, o)
<1>0. t \in Types /\ x \in Worlds /\ c \in SwitchRecords
  BY PowerAssumption DEF Works, Powers, Worlds
<1>1. s \in SwitchRecords BY Zenon, <1>0 DEF SwitchRecords
<1>2. [x EXCEPT !.rfkill[i].soft = soft, !.rfkill[i].hard = hard] = k
  BY Zenon, <1>0 DEF PutSwitch, Worlds
<1>3. y \in {x} \/ (c.present /\ y \in {k, z})
  BY Zenon, <1>2 DEF __connman_technology_update_rfkill
<1> HIDE DEF s
<1>4. IsPutSwitch(x, k, i, s) BY <1>0, <1>1, PutSwitchIs
<1> HIDE DEF k
<1>5. ASSUME c.present PROVE Works(k) /\ Shape(k, H, {}) /\ Works(z) /\ Shape(z, H, {})
  <2>1. Works(k) /\ Shape(k, H, {}) BY <1>1, <1>4, <1>5, SwitchKeeps
  <2>2. k.tech[t].rfkill_driven BY <1>4, <1>5 DEF Shape, Present, IsPutSwitch
  <2>3. Almost(k) /\ BySwitch(k) BY <2>1 DEF Works, Powers, Almost
  <2>4. Works(z) /\ SameUse(k, z) BY Zenon, <2>1, <2>2, <2>3, ApplyKeeps
  <2> HIDE DEF z
  <2>5. Shape(z, H, {}) BY <2>1, <2>4, SameUseKeeps DEF Works, Powers
  <2>6. QED BY <2>1, <2>4, <2>5
<1> HIDE DEF z, y
<1>6. QED BY <1>3, <1>5 DEF y

\* __connman_technology_remove_rfkill().
LEMMA RemoveSwitchKeeps ==
    ASSUME Basics, NEW x, Works(x), NEW H, Shape(x, H, {}), NEW i \in Switches, NEW o \in Outs(H)
    PROVE  LET y == __connman_technology_remove_rfkill(x, i, RfkillType, o)
           IN  Works(y) /\ Shape(y, H, {})
<1> DEFINE t == RfkillType
           k == PutSwitch(x, i, NoSwitch)
           soft == x.tech[t].softblocked
           hard == ~x.tech[t].hardblocked
           z == technology_apply_rfkill_change(k, t, soft, hard, FALSE, o)
           p == technology_put(z, t)
           y == __connman_technology_remove_rfkill(x, i, t, o)
<1>0. t \in Types /\ x \in Worlds /\ x.tech[t] \in TechRecords
  BY PowerAssumption DEF Works, Powers, Worlds
<1>1. NoSwitch \in SwitchRecords /\ ~NoSwitch.present BY DEF SwitchRecords, NoSwitch
<1>2. y = x \/ (x.rfkill[i].present /\ (y = k \/ (technology_find(x, t) /\ y = p)))
  BY Zenon DEF __connman_technology_remove_rfkill, PutSwitch
<1>3. IsPutSwitch(x, k, i, NoSwitch) BY <1>0, <1>1, PutSwitchIs
<1>4. soft \in BOOLEAN /\ hard \in BOOLEAN BY <1>0 DEF TechRecords
<1> HIDE DEF k, soft, hard
<1>5. ASSUME x.rfkill[i].present PROVE Works(k) /\ Shape(k, H, {}) BY <1>1, <1>3, <1>5, SwitchKeeps
<1>6. ASSUME x.rfkill[i].present PROVE Works(p) /\ Shape(p, H, {})
  <2>1. k.tech[t].rfkill_driven BY <1>3, <1>6 DEF Shape, Present, IsPutSwitch
  <2>2. Works(k) /\ Shape(k, H, {}) BY <1>5, <1>6
  <2>3. Almost(k) /\ BySwitch(k) BY <2>2 DEF Works, Powers, Almost
  <2>4. Works(z) /\ SameUse(k, z) BY Zenon, <1>4, <2>1, <2>2, <2>3, ApplyKeeps
  <2> HIDE DEF z
  <2>5. Shape(z, H, {}) BY <2>2, <2>4, SameUseKeeps DEF Works, Powers
  <2>6. Cardinality(DevUsers(k, t, {})) + Cardinality(SwUsers(k, t)) < k.tech[t].refcount
    BY <1>1, <1>3, <1>6, SwitchKeeps
  <2>7. DevUsers(z, t, {}) = DevUsers(k, t, {}) /\ SwUsers(z, t) = SwUsers(k, t)
        /\ z.tech[t].refcount = k.tech[t].refcount
    BY <1>0, <2>4 DEF SameUse, DevUsers, SwUsers
  <2>8. z.tech[t].refcount \in Nat BY <1>0, <2>4 DEF Works, Powers, Worlds, TechRecords
  <2>9. /\ Cardinality(DevUsers(z, t, {})) + Cardinality(SwUsers(z, t)) < z.tech[t].refcount
        /\ z.tech[t].refcount > 0
    BY <2>6, <2>7, <2>8, UsersFinite
  <2>10. QED BY Zenon, <1>0, <2>4, <2>5, <2>9, PutKeeps
<1> HIDE DEF p, y
<1>7. QED BY <1>2, <1>5, <1>6 DEF y

\* technology_get() does not look at rfkill_list.
LEMMA GetBesideSwitch ==
    ASSUME NEW x \in Worlds, NEW i \in Switches, NEW s \in SwitchRecords, NEW o
    PROVE  technology_get(PutSwitch(x, i, s), RfkillType, o)
               = PutSwitch(technology_get(x, RfkillType, o), i, s)
<1> DEFINE t == RfkillType
           k == PutSwitch(x, i, s)
<1>0. t \in Types /\ t # "p2p" BY PowerAssumption DEF RfkillType
<1>1. IsPutSwitch(x, k, i, s) BY PutSwitchIs
<1>2. k.tech = x.tech /\ k.saved = x.saved /\ k.technology_list = x.technology_list
  BY <1>1 DEF IsPutSwitch
<1>3. technology_find(k, t) <=> technology_find(x, t) BY <1>2 DEF technology_find
<1>4. CASE technology_find(x, t)
  <2>1. technology_get(x, t, o) = [x EXCEPT !.tech[t].refcount = @ + 1]
    BY Zenon, <1>0, <1>4 DEF technology_get
  <2>2. technology_get(k, t, o) = [k EXCEPT !.tech[t].refcount = @ + 1]
    BY Zenon, <1>0, <1>3, <1>4 DEF technology_get
  <2> HIDE DEF t
  <2>3. QED BY Zenon, <2>1, <2>2 DEF Worlds, PutSwitch, t
<1>5. CASE ~technology_find(x, t)
  <2> DEFINE n == [NoTechnology EXCEPT !.refcount = 1, !.enable_persistent = x.saved[t],
                                       !.dbus_registered = TRUE]
             q == <<t>> \o x.technology_list
  <2>1. technology_get(x, t, o) = [x EXCEPT !.tech[t] = n, !.technology_list = q]
    BY Zenon, <1>0, <1>5 DEF technology_get, NewTechnology
  <2>2. technology_get(k, t, o) = [k EXCEPT !.tech[t] = n, !.technology_list = q]
    BY Zenon, <1>0, <1>2, <1>3, <1>5 DEF technology_get, NewTechnology
  <2> HIDE DEF t, n, q
  <2>3. QED BY Zenon, <2>1, <2>2 DEF Worlds, PutSwitch, t
<1>6. QED BY <1>4, <1>5

\* A switch and its reference, of a technology that is driven by it from now on.
Drives(x, y, k, H) ==
    /\ Almost(y) /\ Shape(y, H, {}) /\ y.tech[RfkillType].rfkill_driven
    /\ x.tech[RfkillType].rfkill_driven => BySwitch(y)
    /\ y.rfkill = k.rfkill

\* The first switch of a technology: from now on it decides.
LEMMA DriveKeeps ==
    ASSUME Basics, NEW x, Works(x), NEW H, Shape(x, H, {}), NEW i \in Switches, NEW s \in SwitchRecords,
           NEW g, Got(x, g, RfkillType, H, {}), NEW k, IsPutSwitch(g, k, i, s),
           NEW y, y = [k EXCEPT !.tech[RfkillType].rfkill_driven = TRUE]
    PROVE  Drives(x, y, k, H)
<1> DEFINE t == RfkillType
           c == k.tech[t]
           a == [c EXCEPT !.rfkill_driven = TRUE]
<1>0. Works(g) /\ Shape(g, H, {}) BY DEF Got
<1>1. Works(k) BY <1>0, SwitchWorks
<1>2. t \in Types /\ t \in Types \ {"p2p"} /\ k \in Worlds /\ c \in TechRecords
  BY <1>1, PowerAssumption DEF Works, Powers, Worlds, RfkillType
<1>3. y = PutTech(k, t, a) BY Zenon, <1>2 DEF PutTech, Worlds
<1>4. /\ a \in TechRecords /\ a.refcount = c.refcount /\ (a.enabled <=> c.enabled)
      /\ a.rfkill_driven /\ a.device_list = c.device_list
      /\ (a.softblocked <=> c.softblocked) /\ (a.hardblocked <=> c.hardblocked)
      /\ a.callers = c.callers /\ (a.pending_reply <=> c.pending_reply)
  BY Zenon, <1>2 DEF TechRecords
<1> HIDE DEF a
<1>5. IsPutTech(k, y, t, a) BY Zenon, <1>2, <1>3, <1>4, PutTechIs
<1>6. k.tech = g.tech /\ k.dev = g.dev /\ k.technology_list = g.technology_list
  BY DEF IsPutSwitch
<1>7. /\ y \in Worlds /\ y.dev = g.dev /\ y.technology_list = g.technology_list
      /\ y.rfkill = k.rfkill /\ y.tech[t].rfkill_driven
      /\ \A u \in Types \ {t} : y.tech[u] = g.tech[u]
  BY <1>4, <1>5, <1>6 DEF IsPutTech
<1>8. \A u \in Types :
         /\ y.tech[u].enabled <=> g.tech[u].enabled
         /\ y.tech[u].refcount = g.tech[u].refcount
         /\ y.tech[u].device_list = g.tech[u].device_list
         /\ y.tech[u].softblocked <=> g.tech[u].softblocked
         /\ y.tech[u].hardblocked <=> g.tech[u].hardblocked
         /\ y.tech[u].callers = g.tech[u].callers
         /\ y.tech[u].pending_reply <=> g.tech[u].pending_reply
  BY <1>4, <1>5, <1>6 DEF IsPutTech
<1>9. \A u \in Types : x.tech[u].refcount \in Nat BY DEF Works, Powers, Worlds, TechRecords
<1>10. g.tech[t].refcount > 0 BY <1>2, <1>9 DEF Got
<1>11. CallersOk(y) BY <1>0, <1>8 DEF Works, Powers, CallersOk
<1>12. Bare(y)
  <2> SUFFICES ASSUME NEW u \in Types, y.tech[u].refcount = 0 PROVE y.tech[u] = NoTechnology
    BY DEF Bare
  <2>1. u # t BY <1>8, <1>10
  <2>2. QED BY <1>0, <1>7, <2>1 DEF Works, Powers, Bare
<1>13. Blank(y) /\ Timed(y) BY <1>0, <1>7 DEF Works, Powers, Blank, Timed
<1>14. ByDevices(y)
  <2> SUFFICES ASSUME NEW u \in Types \ {"p2p"}, y.tech[u].refcount > 0, ~y.tech[u].rfkill_driven
               PROVE  y.tech[u].enabled <=> \E d \in Devices : TypeOf[d] = u /\ y.dev[d].powered
    BY DEF ByDevices
  <2>1. u # t BY <1>7
  <2>2. QED BY <1>0, <1>7, <2>1 DEF Works, Powers, ByDevices
<1>15. Almost(y) BY <1>7, <1>11, <1>12, <1>13, <1>14 DEF Almost
<1>16. ASSUME x.tech[t].rfkill_driven PROVE BySwitch(y)
  <2>1. \A u \in Types : y.tech[u].rfkill_driven <=> g.tech[u].rfkill_driven
    BY <1>7, <1>16 DEF Got
  <2>2. QED BY <1>0, <1>8, <2>1 DEF Works, Powers, BySwitch
<1>17. Driven(y) BY <1>0, <1>7 DEF Shape, Driven
<1>18. InUse(y)
  <2>1. \A n \in 1..Len(g.technology_list) : g.technology_list[n] \in Types
    BY <1>0 DEF Works, Powers, Worlds
  <2>2. QED BY <1>0, <1>7, <1>8, <2>1 DEF Shape, InUse
<1>19. Lists(y, {}) BY <1>0, <1>7, <1>8 DEF Shape, Lists
<1>20. Present(y) /\ Owned(y, H) BY <1>0, <1>7 DEF Shape, Present, Owned
<1>21. Held(y, {})
  <2> SUFFICES ASSUME NEW u \in Types \ {"p2p"}
      PROVE  Cardinality(DevUsers(y, u, {})) + Cardinality(SwUsers(y, u)) <= y.tech[u].refcount
    BY Zenon DEF Held
  <2>1. DevUsers(y, u, {}) = DevUsers(x, u, {}) BY <1>7 DEF DevUsers, Got
  <2>2. Cardinality(DevUsers(x, u, {})) + Cardinality(SwUsers(x, u)) <= x.tech[u].refcount
    BY DEF Shape, Held
  <2>3. \A j \in Switches \ {i} : y.rfkill[j] = x.rfkill[j] BY <1>7 DEF IsPutSwitch, Got
  <2>4. CASE u = t
    <3>1. SwUsers(y, u) \in SUBSET (SwUsers(x, u) \union {i}) BY <2>3 DEF SwUsers
    <3>2. SwUsers(x, u) \in SUBSET Switches BY Zenon, UsersFinite
    <3>5. Cardinality(SwUsers(y, u)) <= Cardinality(SwUsers(x, u)) + 1
      BY Zenon, <3>1, <3>2, SwitchCounts
    <3>6. y.tech[u].refcount = x.tech[u].refcount + 1 BY <1>8, <2>4 DEF Got
    <3>7. QED BY <1>9, <2>1, <2>2, <3>5, <3>6, UsersFinite
  <2>5. CASE u # t
    <3>1. SwUsers(y, u) = SwUsers(x, u) BY <2>5 DEF SwUsers
    <3>2. y.tech[u].refcount = x.tech[u].refcount BY <1>8, <2>5 DEF Got
    <3>3. QED BY <2>1, <2>2, <3>1, <3>2
  <2>6. QED BY <2>4, <2>5
<1>22. QED BY <1>7, <1>15, <1>16, <1>17, <1>18, <1>19, <1>20, <1>21 DEF Shape, Drives

\* __connman_technology_add_rfkill().
LEMMA AddSwitchKeeps ==
    ASSUME Basics, NEW x, Works(x), NEW H, Shape(x, H, {}), NEW i \in Switches,
           NEW soft \in BOOLEAN, NEW hard \in BOOLEAN, NEW o \in Outs(H)
    PROVE  LET y == __connman_technology_add_rfkill(x, i, RfkillType, soft, hard, o)
           IN  Works(y) /\ Shape(y, H, {})
<1> DEFINE t == RfkillType
           n == [present |-> TRUE, soft |-> soft, hard |-> hard]
           s == IF x.rfkill[i].present THEN x.rfkill[i] ELSE n
           g == technology_get(x, t, o)
           k == PutSwitch(g, i, s)
           z == [k EXCEPT !.tech[t].rfkill_driven = TRUE]
           a == technology_apply_rfkill_change(z, t, soft, hard, TRUE, o)
           y == SetAsSaved(a, t, o)
<1>0. t \in Types \ {"p2p"} /\ x \in Worlds /\ x.rfkill[i] \in SwitchRecords
  BY PowerAssumption DEF Works, Powers, Worlds, RfkillType
<1>1. s \in SwitchRecords /\ (~x.rfkill[i].present => s.hard = hard)
  BY <1>0 DEF SwitchRecords
<1>2. (IF x.rfkill[i].present THEN x ELSE [x EXCEPT !.rfkill[i] = n]) = PutSwitch(x, i, s)
  <2>1. CASE x.rfkill[i].present
    <3>1. [x EXCEPT !.rfkill[i] = x.rfkill[i]] = x BY <1>0 DEF Worlds
    <3>2. QED BY Zenon, <2>1, <3>1 DEF PutSwitch
  <2>2. CASE ~x.rfkill[i].present BY Zenon, <2>2 DEF PutSwitch
  <2>3. QED BY <2>1, <2>2
<1>3. __connman_technology_add_rfkill(x, i, t, soft, hard, o) = y
  <2>1. technology_get(PutSwitch(x, i, s), t, o) = k
    <3> HIDE DEF s
    <3>1. QED BY <1>0, <1>1, GetBesideSwitch
  <2>2. QED BY Zenon, <1>2, <2>1 DEF __connman_technology_add_rfkill
<1> HIDE DEF s
<1>4. Got(x, g, t, H, {})
  <2> DEFINE X == {}
  <2>1. Shape(x, H, X) /\ \A d \in Devices : d \in X => ~x.dev[d].powered OBVIOUS
  <2> HIDE DEF X
  <2>2. Got(x, g, t, H, X) BY <1>0, <2>1, GetKeeps
  <2>3. QED BY <2>2 DEF X
<1> HIDE DEF g
<1>5. IsPutSwitch(g, k, i, s) BY <1>1, <1>4, PutSwitchIs DEF Got, Works, Powers
<1> HIDE DEF k
<1>6. /\ Almost(z) /\ Shape(z, H, {}) /\ z.tech[t].rfkill_driven
      /\ x.tech[t].rfkill_driven => BySwitch(z)
      /\ z.rfkill = k.rfkill
  <2>1. Drives(x, z, k, H) BY Zenon, <1>1, <1>4, <1>5, DriveKeeps
  <2>2. QED BY <2>1 DEF Drives
<1> HIDE DEF z
<1>7. BySwitch(z) \/ \A j \in Switches : z.rfkill[j].present => z.rfkill[j].hard = hard
  <2>1. CASE x.tech[t].rfkill_driven BY <1>6, <2>1
  <2>2. CASE ~x.tech[t].rfkill_driven
    <3>1. \A j \in Switches : ~x.rfkill[j].present BY <2>2 DEF Shape, Present
    <3>2. z.rfkill[i].hard = hard BY <1>1, <1>5, <1>6, <3>1 DEF IsPutSwitch
    <3>3. \A j \in Switches \ {i} : z.rfkill[j] = x.rfkill[j] BY <1>4, <1>5, <1>6 DEF IsPutSwitch, Got
    <3>4. QED BY <3>1, <3>2, <3>3
  <2>3. QED BY <2>1, <2>2
<1>8. Works(a) /\ SameUse(z, a) BY Zenon, <1>6, <1>7, ApplyKeeps
<1> HIDE DEF a
<1>9. Shape(a, H, {}) BY <1>6, <1>8, SameUseKeeps DEF Works, Powers, Almost
<1>10. Works(y) /\ SameShape(a, y) BY <1>8, AsSavedKeeps
<1> HIDE DEF y
<1>11. Shape(y, H, {}) BY <1>8, <1>9, <1>10, SameShapeKeeps DEF Works, Powers
<1>12. QED BY <1>3, <1>10, <1>11

\* rfkill_process().
LEMMA ProcessKeeps ==
    ASSUME Basics, NEW x, Works(x), NEW H, Shape(x, H, {}), NEW e \in EventRecords, NEW o \in Outs(H)
    PROVE  Works(rfkill_process(x, e, o)) /\ Shape(rfkill_process(x, e, o), H, {})
<1> DEFINE y == rfkill_process(x, e, o)
<1>0. e.index \in Switches /\ e.soft \in BOOLEAN /\ e.hard \in BOOLEAN
      /\ e.op \in {"ADD", "DEL", "CHANGE"}
  BY DEF EventRecords
<1>1. CASE e.op = "ADD"
  <2>1. y = __connman_technology_add_rfkill(x, e.index, RfkillType, e.soft, e.hard, o)
    BY <1>1 DEF rfkill_process
  <2>2. QED BY Zenon, <1>0, <2>1, AddSwitchKeeps
<1>2. CASE e.op = "DEL"
  <2>1. y = __connman_technology_remove_rfkill(x, e.index, RfkillType, o)
    BY <1>2 DEF rfkill_process
  <2>2. QED BY Zenon, <1>0, <2>1, RemoveSwitchKeeps
<1>3. CASE e.op = "CHANGE"
  <2>1. y = __connman_technology_update_rfkill(x, e.index, RfkillType, e.soft, e.hard, o)
    BY <1>3 DEF rfkill_process
  <2>2. QED BY Zenon, <1>0, <2>1, UpdateKeeps
<1>4. QED BY <1>0, <1>1, <1>2, <1>3

-----------------------------------------------------------------------------
\* The inductive invariant: power follows devices and switches, callers and
\* requests are accounted for, and the lists and counts agree with the users.
PowerInv == host \in Hosts /\ Works(w) /\ Shape(w, host.devices, {})

\* connmand starts without technologies, devices and switches.
LEMMA InitHolds == ASSUME Basics PROVE Init => PowerInv
<1> SUFFICES ASSUME Init PROVE PowerInv OBVIOUS
<1>1. PICK saved \in [Types -> BOOLEAN], offline \in BOOLEAN :
         w = [tech |-> [t \in Types |-> NoTechnology], technology_list |-> <<>>,
              dev |-> [d \in Devices |-> NewDevice],
              rfkill |-> [i \in Switches |-> NoSwitch],
              kernel |-> [i \in Switches |-> NoSwitch], events |-> <<>>,
              saved |-> saved, offline |-> offline, saved_offline |-> offline]
  BY Zenon DEF Init
<1>2. NoTechnology \in TechRecords
  <2>1. 0 \in Nat /\ 0 \in Int /\ <<>> \in Seq(Devices) OBVIOUS
  <2>2. QED BY Zenon, <2>1 DEF NoTechnology, TechRecords
<1>3. NewDevice \in DeviceRecords /\ ~NewDevice.driver /\ ~NewDevice.powered
      /\ NewDevice.powered_pending = "NONE" /\ ~NewDevice.pending_timeout
  BY DEF NewDevice, DeviceRecords, PendingTypes
<1>4. NoSwitch \in SwitchRecords /\ ~NoSwitch.present BY DEF NoSwitch, SwitchRecords
<1>5. w \in Worlds
  <2>1. <<>> \in Seq(Types) /\ <<>> \in Seq(EventRecords) OBVIOUS
  <2>2. [t \in Types |-> NoTechnology] \in [Types -> TechRecords] BY <1>2
  <2>3. [d \in Devices |-> NewDevice] \in [Devices -> DeviceRecords] BY <1>3
  <2>4. [i \in Switches |-> NoSwitch] \in [Switches -> SwitchRecords] BY <1>4
  <2>5. QED BY Zenon, <1>1, <2>1, <2>2, <2>3, <2>4 DEF Worlds
<1>6. /\ \A t \in Types : w.tech[t] = NoTechnology
      /\ \A d \in Devices : w.dev[d] = NewDevice
      /\ \A i \in Switches : w.rfkill[i] = NoSwitch
      /\ w.technology_list = <<>>
  BY <1>1
<1>7. /\ NoTechnology.refcount = 0 /\ ~NoTechnology.enabled /\ ~NoTechnology.pending_reply
      /\ NoTechnology.callers = 0 /\ ~NoTechnology.rfkill_driven /\ NoTechnology.device_list = <<>>
  BY DEF NoTechnology
<1>8. CallersOk(w) /\ Bare(w) /\ Blank(w) BY <1>6, <1>7 DEF CallersOk, Bare, Blank
<1>9. ByDevices(w) /\ BySwitch(w) /\ Timed(w) BY <1>3, <1>6, <1>7 DEF ByDevices, BySwitch, Timed
<1>10. Driven(w) /\ InUse(w) BY <1>6, <1>7 DEF Driven, InUse, Once
<1>11. Lists(w, {})
  <2>1. Once(<<>>) /\ \A d : ~Holds(<<>>, d) BY DEF Once, Holds
  <2>2. QED BY <1>3, <1>6, <1>7, <2>1 DEF Lists
<1>12. Present(w) /\ Owned(w, host.devices) BY <1>3, <1>4, <1>6 DEF Present, Owned
<1>13. Held(w, {})
  <2>1. \A t : DevUsers(w, t, {}) = {} /\ SwUsers(w, t) = {} BY <1>3, <1>4, <1>6 DEF DevUsers, SwUsers
  <2>2. Cardinality({}) = 0 BY DEF Basics, Countable
  <2>3. \A t \in Types : w.tech[t].refcount = 0 BY <1>6, <1>7
  <2> SUFFICES ASSUME NEW t \in Types \ {"p2p"}
      PROVE  Cardinality(DevUsers(w, t, {})) + Cardinality(SwUsers(w, t)) <= w.tech[t].refcount
    BY Zenon DEF Held
  <2>4. Cardinality(DevUsers(w, t, {})) = 0 /\ Cardinality(SwUsers(w, t)) = 0 BY Zenon, <2>1, <2>2
  <2>5. QED BY <2>3, <2>4
<1>14. QED BY <1>5, <1>8, <1>9, <1>10, <1>11, <1>12, <1>13 DEF Init, PowerInv, Works, Powers, Shape

\* Every handler keeps the invariant, with whatever the drivers and the kernel
\* answer, as long as a removed device is reported off.
LEMMA NextHolds == ASSUME Basics, AllReport PROVE PowerInv /\ [Next]_vars => PowerInv'
<1> SUFFICES ASSUME PowerInv, [Next]_vars PROVE PowerInv' OBVIOUS
<1> DEFINE H == host.devices
           Good(x) == Works(x) /\ Shape(x, H, {})
<1>0. Works(w) /\ Shape(w, H, {}) /\ w \in Worlds /\ host \in Hosts
  BY DEF PowerInv, Works, Powers
<1>1. Outcomes = Outs(H) BY DEF Outcomes, Outs
<1>2. \A d \in H : d \in Devices BY <1>0, HostAssumption
<1>3. \A t \in Types : w.tech[t] \in TechRecords BY <1>0 DEF Worlds
<1>4. SUFFICES host' = host /\ Good(w') BY <1>0 DEF PowerInv
<1>5. CASE UNCHANGED vars BY <1>0, <1>5 DEF vars
<1>6. ASSUME NEW y, Works(y), SameShape(w, y) PROVE Good(y)
  BY <1>0, <1>6, SameShapeKeeps DEF Works, Powers
<1>7. ASSUME NEW t \in Types, CallTimeout(t) PROVE host' = host /\ Good(w')
  <2>1. w' = AnswerCaller(w, t) /\ w.tech[t].pending_reply /\ host' = host
    BY <1>7 DEF CallTimeout, technology_pending_reply
  <2>2. Works(w') /\ SameShape(w, w') BY <1>0, <2>1, AnswerKeeps
  <2>3. QED BY <1>6, <2>1, <2>2
<1>8. ASSUME NEW t \in Types, NEW on \in BOOLEAN, SetPowered(t, on) PROVE host' = host /\ Good(w')
  <2>1. PICK o \in Outs(H) : w' = set_powered(w, t, on, o) BY <1>1, <1>8 DEF SetPowered
  <2>2. w.tech[t].refcount > 0
    <3>0. ~NoTechnology.dbus_registered BY DEF NoTechnology
    <3>1. w.tech[t].refcount # 0 BY Zenon, <1>0, <1>8, <3>0 DEF SetPowered, Works, Powers, Bare
    <3>2. QED BY <1>3, <3>1 DEF TechRecords
  <2>3. host' = host BY <1>8 DEF SetPowered
  <2> HIDE DEF H
  <2>4. Good(w') BY Zenon, <1>0, <2>1, <2>2, SetPoweredCallKeeps
  <2>5. QED BY <2>3, <2>4 DEF H
<1>9. ASSUME NEW on \in BOOLEAN, SetOffline(on) PROVE host' = host /\ Good(w')
  <2>1. PICK o \in Outs(H) : w' = __connman_technology_set_offlinemode(w, on, o)
    BY <1>1, <1>9 DEF SetOffline
  <2>2. Works(w') /\ SameShape(w, w') BY Zenon, <1>0, <2>1, SetOfflineKeeps
  <2>3. QED BY <1>6, <1>9, <2>2 DEF SetOffline
<1>10. ASSUME NEW d \in H, DeviceFound(d) PROVE host' = host /\ Good(w')
  <2>1. PICK o \in Outs(H) : w' = connman_device_register(w, d, o) BY <1>1, <1>10 DEF DeviceFound
  <2>2. ~w.dev[d].driver /\ host' = host BY <1>10 DEF DeviceFound
  <2>3. Good(w') BY Zenon, <1>0, <1>2, <2>1, <2>2, RegisterKeeps
  <2>4. QED BY <2>2, <2>3
<1>11. ASSUME NEW d \in H, DeviceLost(d) PROVE host' = host /\ Good(w')
  <2>1. PICK o \in Outs(H) : w' = remove_device(w, d, o) BY <1>1, <1>11 DEF DeviceLost
  <2>2. w.dev[d].driver /\ host' = host BY <1>11 DEF DeviceLost
  <2>3. Good(w') BY Zenon, <1>0, <1>2, <2>1, <2>2, RemoveKeeps
  <2>4. QED BY <2>2, <2>3
<1>12. ASSUME NEW d \in H, DeviceTimeout(d) PROVE host' = host /\ Good(w')
  <2>1. w.dev[d].pending_timeout /\ w' = device_pending_reset(w, d) /\ host' = host
    BY <1>12 DEF DeviceTimeout
  <2>2. Good(w') BY Zenon, <1>0, <1>2, <2>1, ResetKeeps
  <2>3. QED BY <2>1, <2>2
<1>13. ASSUME NEW d \in H, NEW on \in BOOLEAN, DriverReports(d, on) PROVE host' = host /\ Good(w')
  <2>1. w.dev[d].driver /\ w' = connman_device_set_powered(w, d, on) /\ host' = host
    BY <1>13 DEF DriverReports
  <2>2. {} \in SUBSET {d} /\ d \in Devices BY <1>2
  <2>3. Good(w') BY Zenon, <1>0, <2>1, <2>2, ReportKeeps
  <2>4. QED BY <2>1, <2>3
<1>14. ASSUME P2pFound PROVE host' = host /\ Good(w')
  <2>1. PICK o \in Outs(H) : w' = technology_get(w, "p2p", o) BY <1>1, <1>14 DEF P2pFound
  <2>2. ~technology_find(w, "p2p") /\ host' = host /\ host.p2p BY <1>14 DEF P2pFound
  <2>3. "p2p" \in Types BY <1>0, <2>2, HostAssumption
  <2>4. Good(w') BY Zenon, <1>0, <2>1, <2>2, <2>3, P2pFoundKeeps
  <2>5. QED BY <2>2, <2>4
<1>15. ASSUME P2pLost PROVE host' = host /\ Good(w')
  <2>1. w' = technology_put(w, "p2p") /\ host' = host BY <1>15 DEF P2pLost
  <2>2. "p2p" \in Types /\ w.tech["p2p"].refcount > 0 BY <1>15 DEF P2pLost, technology_find
  <2>3. Good(w') BY Zenon, <1>0, <2>1, <2>2, PutKeeps
  <2>4. QED BY <2>1, <2>3
<1>16. ASSUME NEW i \in host.switches, NEW present \in BOOLEAN, NEW soft \in BOOLEAN,
              NEW hard \in BOOLEAN, SwitchTurned(i, present, soft, hard)
       PROVE  host' = host /\ Good(w')
  <2> DEFINE k == [present |-> present, soft |-> soft, hard |-> hard]
             op == IF ~present THEN "DEL" ELSE IF w.kernel[i].present THEN "CHANGE" ELSE "ADD"
             e == [op |-> op, index |-> i, soft |-> soft, hard |-> hard]
             q == Append(w.events, e)
             y == [w EXCEPT !.kernel[i] = k, !.events = q]
  <2>1. w' = y /\ host' = host BY Zenon, <1>16 DEF SwitchTurned
  <2>2. i \in Switches BY <1>0, HostAssumption
  <2>3. k \in SwitchRecords BY DEF SwitchRecords
  <2>4. e \in EventRecords BY <2>2 DEF EventRecords
  <2> HIDE DEF k, e
  <2>5. q \in Seq(EventRecords) BY <1>0, <2>4 DEF Worlds
  <2> HIDE DEF q
  <2>6. /\ y \in Worlds /\ y.tech = w.tech /\ y.dev = w.dev
        /\ y.technology_list = w.technology_list /\ y.rfkill = w.rfkill
    BY Zenon, <1>0, <2>2, <2>3, <2>5 DEF Worlds
  <2> HIDE DEF y
  <2>7. Works(y) /\ SameShape(w, y) BY <1>0, <2>6, ModeKeeps
  <2>8. Good(y) BY <1>6, <2>7
  <2>9. QED BY <2>1, <2>8
<1>17. ASSUME RfkillEvent PROVE host' = host /\ Good(w')
  <2> DEFINE e == Head(w.events)
             q == Tail(w.events)
             y == [w EXCEPT !.events = q]
  <2>1. PICK o \in Outs(H) : w' = rfkill_process(y, e, o) BY <1>1, <1>17 DEF RfkillEvent
  <2>2. w.events # <<>> /\ host' = host BY <1>17 DEF RfkillEvent
  <2>3. w.events \in Seq(EventRecords) BY <1>0 DEF Worlds
  <2>4. e \in EventRecords /\ q \in Seq(EventRecords) BY <2>2, <2>3
  <2> HIDE DEF e, q
  <2>5. /\ y \in Worlds /\ y.tech = w.tech /\ y.dev = w.dev
        /\ y.technology_list = w.technology_list /\ y.rfkill = w.rfkill
    BY Zenon, <1>0, <2>4 DEF Worlds
  <2> HIDE DEF y
  <2>6. Works(y) /\ SameShape(w, y) BY <1>0, <2>5, ModeKeeps
  <2>7. Works(y) /\ Shape(y, H, {}) BY <1>6, <2>6
  <2>8. Good(w') BY Zenon, <2>1, <2>4, <2>7, ProcessKeeps
  <2>9. QED BY <2>2, <2>8
<1> HIDE DEF Good
<1>18. QED BY <1>5, <1>7, <1>8, <1>9, <1>10, <1>11, <1>12, <1>13, <1>14, <1>15, <1>16, <1>17
         DEF Next

-----------------------------------------------------------------------------
\* Every set of natural numbers has a least element: the form in which the
\* proofs below do induction along a list.
LEMMA Least == ASSUME NEW T \in SUBSET Nat, T # {} PROVE \E n \in T : \A m \in T : n <= m
<1>1. OpToRel(<, Nat) = {ss \in Nat \X Nat : ss[1] < ss[2]} BY Zenon DEF OpToRel
<1>2. \E x \in T : \A y \in T : ~(<<y, x>> \in OpToRel(<, Nat)) BY Zenon, NatLessThanWellFounded, WFMin
<1>3. PICK x \in T : \A y \in T : ~(<<y, x>> \in {ss \in Nat \X Nat : ss[1] < ss[2]})
  BY <1>1, <1>2, Zenon
<1>4. \A y \in T : ~(y < x) BY Zenon, <1>3
<1>5. QED BY <1>4

\* A finite set, its subsets and their numbers of elements.
LEMMA FiniteCounts ==
    ASSUME NEW S, IsFiniteSet(S)
    PROVE  Countable(S) /\ Listable(S)
<1>1. ASSUME NEW T \in SUBSET S PROVE IsFiniteSet(T) BY FS_Subset
<1>2. ASSUME NEW T \in SUBSET S
      PROVE  Cardinality(T) \in Nat /\ (Cardinality(T) = 0 <=> T = {})
  BY <1>1, FS_CardinalityType, FS_EmptySet
<1>3. ASSUME NEW T \in SUBSET S, NEW c \in S \ T
      PROVE  Cardinality(T \union {c}) = Cardinality(T) + 1
  BY <1>1, FS_AddElement
<1>4. ASSUME NEW T \in SUBSET S, NEW R \in SUBSET T PROVE Cardinality(R) <= Cardinality(T)
  BY <1>1, FS_Subset
<1>5. ASSUME NEW T \in SUBSET S
      PROVE  \E q \in [1..Cardinality(T) -> T] : \A c \in T : \E i \in DOMAIN q : q[i] = c
  <2>1. ExistsBijection(1..Cardinality(T), T) BY <1>1, FS_CardinalityType
  <2>2. PICK q : q \in Bijection(1..Cardinality(T), T) BY <2>1 DEF ExistsBijection
  <2>3. QED BY Zenon, <2>2 DEF Bijection, Surjection
<1>6. QED BY <1>2, <1>3, <1>4, <1>5 DEF Countable, Listable

\* What the lemmas took as hypotheses.
LEMMA BasicsHold == Basics
<1>1. Induction BY Least DEF Induction
<1>2. QED BY <1>1, FiniteCounts, PowerAssumption DEF Basics

\* The invariant holds of every run of connmand whose drivers report a removed
\* device off.
THEOREM PowerHolds == ASSUME AllReport PROVE Spec => []PowerInv
<1>1. Init => PowerInv BY BasicsHold, InitHolds
<1>2. PowerInv /\ [Next]_vars => PowerInv' BY BasicsHold, NextHolds
<1>3. QED BY <1>1, <1>2, PTL DEF Spec

\* Of a technology without a switch, Powered is true exactly while one of its
\* devices is powered: however connman_device_set_powered(), requests, offline
\* mode and devices that come and go interleave, with any number of devices whose
\* drivers report them off when they are removed.
THEOREM PowerFollowsDevices == ASSUME AllReport PROVE Spec => []PoweredByDevices
<1>1. PowerInv => PoweredByDevices
  <2> SUFFICES ASSUME PowerInv, NEW t \in Types \ {"p2p"}, technology_find(w, t),
                      ~w.tech[t].rfkill_driven
               PROVE  w.tech[t].enabled <=> \E d \in Listed(w, t) : w.dev[d].powered
    BY DEF PoweredByDevices
  <2> DEFINE q == w.tech[t].device_list
  <2>1. w.tech[t].enabled <=> \E d \in Devices : TypeOf[d] = t /\ w.dev[d].powered
    BY DEF PowerInv, Works, Powers, ByDevices, technology_find
  <2>2. q \in Seq(Devices) BY DEF PowerInv, Works, Powers, Worlds, TechRecords
  <2>3. \A d \in Devices : Holds(q, d) <=> (w.dev[d].driver /\ TypeOf[d] = t)
    BY DEF PowerInv, Shape, Lists
  <2>4. \A d \in Devices : w.dev[d].powered => w.dev[d].driver
    BY DEF PowerInv, Works, Powers, Blank, NewDevice
  <2>5. \A d : d \in Listed(w, t) <=> Holds(q, d) BY DEF Listed, Holds
  <2>6. \A d : Holds(q, d) => d \in Devices BY <2>2 DEF Holds
  <2> HIDE DEF q
  <2>7. QED BY <2>1, <2>3, <2>4, <2>5, <2>6
<1>2. QED BY <1>1, PowerHolds, PTL

\* A technology with a switch is on exactly when technology_apply_rfkill_change()
\* last left neither a soft nor a hard block on it: no device, no caller and no
\* offline mode turns it.
THEOREM PowerFollowsSwitch == ASSUME AllReport PROVE Spec => []SwitchDecides
<1>1. PowerInv => SwitchDecides BY DEF PowerInv, Works, Powers, BySwitch, SwitchDecides
<1>2. QED BY <1>1, PowerHolds, PTL

\* While a technology is there, no request for Powered takes the place of one that
\* was not answered: it has at most one caller, the one pending_reply remembers.
THEOREM CallersAreRemembered == ASSUME AllReport PROVE Spec => []CallerRemembered
<1>1. PowerInv => CallerRemembered BY DEF PowerInv, Works, Powers, CallersOk, CallerRemembered
<1>2. QED BY <1>1, PowerHolds, PTL

\* As long as no driver fails a request, powered_pending says that one is under
\* way exactly while the four seconds that reset it are running.
THEOREM PendingRequestsAreTimed == ASSUME AllReport, NoFailure PROVE Spec => []PendingIsTimed
<1>1. PowerInv => PendingIsTimed BY DEF PowerInv, Works, Timed, PendingIsTimed
<1>2. QED BY <1>1, PowerHolds, PTL

\* A technology that has users is there.
UsedIsThere ==
    \A t \in Types \ {"p2p"} : Users(t) # {} => technology_find(w, t)

\* technology_get() and technology_put(): a technology is there as long as a
\* device with a driver or a switch uses it.
THEOREM UsersKeepTechnology == ASSUME AllReport PROVE Spec => []UsedIsThere
<1>1. PowerInv => UsedIsThere
  <2> SUFFICES ASSUME PowerInv, NEW t \in Types \ {"p2p"}, ~technology_find(w, t)
               PROVE  Users(t) = {}
    BY DEF UsedIsThere
  <2>1. w.tech[t].refcount \in Nat BY DEF PowerInv, Works, Powers, Worlds, TechRecords
  <2>2. w.tech[t].refcount = 0 BY <2>1 DEF technology_find
  <2>3. Works(w) /\ Shape(w, host.devices, {}) BY DEF PowerInv
  <2>4. DevUsers(w, t, {}) = {} /\ SwUsers(w, t) = {} BY <2>2, <2>3, BasicsHold, NoUser
  <2>5. QED BY <2>4 DEF Users, DevUsers, SwUsers
<1>2. QED BY <1>1, PowerHolds, PTL

=============================================================================

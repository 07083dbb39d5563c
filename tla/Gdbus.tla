---------------------------- MODULE Gdbus ----------------------------
(* Objects a program puts on the bus with gdbus/object.c: interfaces are      *)
(* registered under paths, changes are collected per object and sent by an    *)
(* idle callback, or at once before any other message, as InterfacesAdded,    *)
(* PropertiesChanged and InterfacesRemoved of the object manager at the root. *)
(*                                                                            *)
(* The operators take the state t of the program: t.data has the generic_data *)
(* of every path, t.pending the list of objects with an idle callback, t.val  *)
(* the property of every interface (Nothing while it does not exist), and     *)
(* t.in the messages on their way to a client.  One property per interface;   *)
(* the interfaces Introspectable and Properties, which every object has and   *)
(* clients pass over, are left out.                                           *)
EXTENDS Integers, Sequences, SequencesExt, FiniteSets, FiniteSetsExt

CONSTANTS
  Paths,    \* of the objects
  Root,     \* where the object manager is
  Dir,      \* path -> the path above it; Root for those at the top
  Ifaces,
  Values    \* of the property

None == "none"
Nothing == 0

Off == [on |-> FALSE, refcount |-> 0, interfaces |-> {}, added |-> {}, removed |-> {},
        props |-> {}, pending_prop |-> FALSE, parent |-> None, objects |-> {}]

\* With g_dbus_attach_object_manager() done.
NoObjects == [p \in Paths \cup {Root} |-> [Off EXCEPT !.on = p = Root, !.refcount = IF p = Root THEN 1 ELSE 0]]

Send(t, message) == [t EXCEPT !.in = Append(@, message)]

-----------------------------------------------------------------------------
(* Sending what changed.                                                      *)

\* append_properties() for each of some interfaces of an object.
append_interfaces(t, p, interfaces) == [i \in interfaces |-> t.val[p][i]]

emit_interfaces_added(t, p) ==
  Send([t EXCEPT !.data[p].added = {}],
       [k |-> "added", path |-> p, vals |-> append_interfaces(t, p, t.data[p].added)])

emit_interfaces_removed(t, p) ==
  Send([t EXCEPT !.data[p].removed = {}],
       [k |-> "removed", path |-> p, interfaces |-> t.data[p].removed])

\* The flag of the object is cleared although only one interface is dealt with.
process_properties_from_interface(t, p, i) ==
  LET u == [t EXCEPT !.data[p].pending_prop = FALSE]
  IN IF i \notin t.data[p].props THEN u
     ELSE Send([u EXCEPT !.data[p].props = @ \ {i}],
               [k |-> "changed", path |-> p, iface |-> i, val |-> t.val[p][i]])

process_property_changes(t, p) ==
  FoldLeft(LAMBDA u, i : process_properties_from_interface(u, p, i), t,
           SetToSeq(t.data[p].interfaces))

add_pending(t, p) ==
  IF Contains(t.pending, p) THEN t ELSE [t EXCEPT !.pending = Append(@, p)]

remove_pending(t, p) == [t EXCEPT !.pending = SelectSeq(@, LAMBDA q : q /= p)]

process_changes(t, p) ==
  LET t1 == remove_pending(t, p)
      t2 == IF t1.data[p].added /= {} THEN emit_interfaces_added(t1, p) ELSE t1
      t3 == IF t2.data[p].pending_prop THEN process_property_changes(t2, p) ELSE t2
  IN IF t3.data[p].removed /= {} THEN emit_interfaces_removed(t3, p) ELSE t3

\* Faulty variant: changes stay for the idle callback.
g_dbus_flush_Later(t) == t

\* Before any other message is sent.
g_dbus_flush(t) == FoldLeft(process_changes, t, t.pending)

g_dbus_send_message(t, message) == Send(g_dbus_flush(t), message)

-----------------------------------------------------------------------------
(* The tree of objects.                                                       *)

\* The paths above one, the nearest first.
Above(p) ==
  LET up[n \in 0..Cardinality(Paths)] ==
        IF n = 0 THEN <<Dir[p]>>
        ELSE IF Last(up[n - 1]) = Root THEN up[n - 1] ELSE Append(up[n - 1], Dir[Last(up[n - 1])])
  IN IF p = Root THEN << >> ELSE up[Cardinality(Paths)]

\* The object whose data is found first on the way up.
NearestAbove(t, p) == LET ons == SelectSeq(Above(p), LAMBDA q : t.data[q].on)
                      IN IF ons = << >> THEN None ELSE Head(ons)

\* On every level from a path up, a registered object becomes a child of the
\* nearest one above it, unless it is one already.
invalidate_parent_data(t, path) ==
  LET moved == {c \in {path} \cup Range(Above(path)) :
                  /\ t.data[c].on /\ NearestAbove(t, c) /= None
                  /\ c \notin t.data[NearestAbove(t, c)].objects}
  IN [t EXCEPT !.data =
        [q \in DOMAIN t.data |->
           [t.data[q] EXCEPT !.parent = IF q \in moved THEN NearestAbove(t, q) ELSE @,
                             !.objects = @ \cup {c \in moved : NearestAbove(t, c) = q}]]]

\* An object that goes sends what is pending; its children get its parent, which
\* does not list them.
generic_unregister(t, p) ==
  LET parent == t.data[p].parent
      t1 == IF parent = None THEN t ELSE [t EXCEPT !.data[parent].objects = @ \ {p}]
      t2 == IF Contains(t1.pending, p) THEN process_changes(t1, p) ELSE t1
  IN [t2 EXCEPT !.data = [q \in DOMAIN t.data |->
        IF q = p THEN Off
        ELSE IF q \in t2.data[p].objects THEN [t2.data[q] EXCEPT !.parent = parent]
        ELSE t2.data[q]]]

add_interface(t, p, i) ==
  LET u == [t EXCEPT !.data[p].interfaces = @ \cup {i}]
  IN IF t.data[p].parent = None THEN u
     ELSE add_pending([u EXCEPT !.data[p].added = @ \cup {i}], p)

\* One that was not announced yet is only forgotten.
remove_interface(t, p, i) ==
  LET u == [process_properties_from_interface(t, p, i) EXCEPT !.data[p].interfaces = @ \ {i}]
  IN IF i \in t.data[p].added THEN [u EXCEPT !.data[p].added = @ \ {i}]
     ELSE IF t.data[p].parent = None THEN u
     ELSE add_pending([u EXCEPT !.data[p].removed = @ \cup {i}], p)

object_path_ref(t, p) ==
  IF t.data[p].on THEN [t EXCEPT !.data[p].refcount = @ + 1]
  ELSE invalidate_parent_data([t EXCEPT !.data[p] = [Off EXCEPT !.on = TRUE, !.refcount = 1]], p)

object_path_unref(t, p) ==
  LET u == [t EXCEPT !.data[p].refcount = @ - 1]
  IN IF u.data[p].refcount > 0 THEN u
     ELSE generic_unregister(invalidate_parent_data(u, p), p)

g_dbus_register_interface(t, p, i) ==
  LET u == object_path_ref(t, p)
  IN IF i \in u.data[p].interfaces THEN object_path_unref(u, p) ELSE add_interface(u, p, i)

g_dbus_unregister_interface(t, p, i) ==
  IF ~t.data[p].on \/ i \notin t.data[p].interfaces THEN t
  ELSE object_path_unref(remove_interface(t, p, i), p)

\* A property of an interface not announced yet will be in its announcement.
g_dbus_emit_property_changed(t, p, i) ==
  IF \/ ~t.data[p].on \/ i \notin t.data[p].interfaces
     \/ i \in t.data[p].added \/ i \in t.data[p].props
  THEN t
  ELSE add_pending([t EXCEPT !.data[p].pending_prop = TRUE, !.data[p].props = @ \cup {i}], p)

\* append_object(), over the whole tree.
RECURSIVE append_object(_, _)
append_object(t, p) ==
  {[path |-> p, vals |-> append_interfaces(t, p, t.data[p].interfaces)]}
    \cup UNION {append_object(t, c) : c \in t.data[p].objects}

\* The reply is put together first; what is pending is sent before it.
get_objects(t) ==
  g_dbus_send_message(t, [k |-> "objects",
                          objects |-> UNION {append_object(t, c) : c \in t.data[Root].objects}])

-----------------------------------------------------------------------------
(* The client side of the bus library, gdbus/client.c: a client mirrors the   *)
(* objects of a service as proxies, one for each interface of each object,    *)
(* from GetManagedObjects and the signals of the service, and tells its user  *)
(* through callbacks of proxies that come and go and of properties that       *)
(* change.  The bluetooth, iwd and other plugins stand on it.  Composed here  *)
(* with a service that uses gdbus/object.c.                                   *)
(*                                                                            *)
(* Messages of one sender arrive in order; `in' holds those to the client     *)
(* with the bus's word on the owner of the name, `out' the calls to the       *)
(* service.  The user is the set of proxies and values the callbacks told of. *)

CONSTANTS
  MaxQueue, \* messages on their way, per direction
  Calm      \* the service does not register again an interface whose removal is
            \* not sent yet, does not remove one while a property of another of the
            \* object is pending, and keeps to the order of the tree;
            \* no watch is added that finds a cached owner who left, the owner does not
            \* change while an idle callback will tell of it, and no message empties two
            \* listeners

VARIABLE s

vars == <<s>>

Proxies == Paths \X Ifaces
NoProxy == [x \in {} |-> Nothing]

NewClient == [alive |-> TRUE, connected |-> FALSE, get_objects_call |-> FALSE, proxy_list |-> NoProxy,
              user |-> NoProxy, calls |-> 0]

Init ==
  s = [up |-> FALSE, data |-> NoObjects, pending |-> << >>,
       val |-> [p \in Paths |-> [i \in Ifaces |-> Nothing]],
       in |-> << >>, out |-> << >>, c |-> NewClient]

Becomes(t) == Len(t.in) <= MaxQueue /\ Len(t.out) <= MaxQueue /\ s' = t

-----------------------------------------------------------------------------
(* Proxies.                                                                   *)

\* add_property(): the callback of the client only when asked for.  What does not
\* exist is not in the message and stays as it was.
add_property(t, x, val, send_changed) ==
  IF val = Nothing THEN t
  ELSE [t EXCEPT !.c.proxy_list[x] = val,
                 !.c.user = IF send_changed /\ x \in DOMAIN @ THEN [@ EXCEPT ![x] = val] ELSE @]

\* proxy_new() with the properties, then the callback proxy_added.
parse_properties(t, x, val) ==
  IF x \in DOMAIN t.c.proxy_list THEN add_property(t, x, val, FALSE)
  ELSE [t EXCEPT !.c.proxy_list = [y \in DOMAIN @ \cup {x} |-> IF y = x THEN val ELSE @[y]],
                 !.c.user = [y \in DOMAIN @ \cup {x} |-> IF y = x THEN val ELSE @[y]]]

parse_interfaces(t, object) ==
  FoldLeft(LAMBDA u, i : parse_properties(u, <<object.path, i>>, object.vals[i]), t,
           SetToSeq(DOMAIN object.vals))

parse_managed_objects(t, objects) == FoldLeft(parse_interfaces, t, SetToSeq(objects))

\* proxy_free() of some proxies, each with the callback proxy_removed.
proxy_free(t, gone) ==
  [t EXCEPT !.c.proxy_list = [x \in DOMAIN @ \ gone |-> @[x]],
            !.c.user = [x \in DOMAIN @ \ gone |-> @[x]]]

proxy_remove(t, x) == IF x \in DOMAIN t.c.proxy_list THEN proxy_free(t, {x}) ELSE t

interfaces_added(t, message) == parse_interfaces(t, message)

interfaces_removed(t, message) ==
  FoldLeft(LAMBDA u, i : proxy_remove(u, <<message.path, i>>), t, SetToSeq(message.interfaces))

\* Each proxy watches the signal; an invalidated property is dropped.
properties_changed(t, message) ==
  LET x == <<message.path, message.iface>>
  IN IF x \notin DOMAIN t.c.proxy_list THEN t
     ELSE IF message.val = Nothing
     THEN [t EXCEPT !.c.proxy_list[x] = Nothing, !.c.user[x] = Nothing]
     ELSE add_property(t, x, message.val, TRUE)

-----------------------------------------------------------------------------
(* The service comes and goes.                                                *)

get_managed_objects(t) ==
  IF ~t.c.connected \/ t.c.get_objects_call THEN t
  ELSE [t EXCEPT !.c.get_objects_call = TRUE, !.out = Append(@, "objects")]

\* Faulty variant: the call is not forgotten when it failed.
get_managed_objects_reply_KeepCall(t, message) ==
  IF message.k = "error" THEN t
  ELSE [parse_managed_objects(t, message.objects) EXCEPT !.c.get_objects_call = FALSE]

get_managed_objects_reply(t, message) ==
  [(IF message.k = "error" THEN t ELSE parse_managed_objects(t, message.objects))
     EXCEPT !.c.get_objects_call = FALSE]

service_connect(t) == get_managed_objects([t EXCEPT !.c.connected = TRUE])

\* Faulty variant: the proxies of the service stay.
service_disconnect_Keep(t) == [t EXCEPT !.c.connected = FALSE]

service_disconnect(t) == [proxy_free(t, DOMAIN t.c.proxy_list) EXCEPT !.c.connected = FALSE]

method_call_reply(t) == [t EXCEPT !.c.calls = @ - 1]

-----------------------------------------------------------------------------
(* Actions of the client.                                                     *)

\* Messages to a client that is gone have no watch; the answer of a method call
\* still finds its callback.
Handle(t, message) ==
  CASE message.k \in {"return", "failed"} -> method_call_reply(t)
    [] ~t.c.alive -> t
    [] message.k = "owner" -> IF message.up THEN service_connect(t) ELSE service_disconnect(t)
    [] message.k = "added" -> interfaces_added(t, message)
    [] message.k = "removed" -> interfaces_removed(t, message)
    [] message.k = "changed" -> properties_changed(t, message)
    [] message.k \in {"objects", "error"} ->
         IF t.c.get_objects_call THEN get_managed_objects_reply(t, message) ELSE t

Receive ==
  /\ s.in /= << >>
  /\ Becomes(Handle([s EXCEPT !.in = Tail(@)], Head(s.in)))

\* g_dbus_client_new(), with the service watch finding whether the name is owned.
\* Nothing of the time before is on its way, so that serials need no modelling.
g_dbus_client_new ==
  /\ ~s.c.alive /\ s.c.calls = 0 /\ s.in = << >> /\ s.out = << >>
  /\ Becomes(LET t == [s EXCEPT !.c = NewClient] IN IF s.up THEN service_connect(t) ELSE t)

\* The last reference: calls are cancelled, proxies removed, watches given up.
g_dbus_client_unref ==
  /\ s.c.alive
  /\ Becomes([proxy_free(s, DOMAIN s.c.proxy_list)
                EXCEPT !.c.alive = FALSE, !.c.connected = FALSE, !.c.get_objects_call = FALSE])

\* On a proxy the user knows of.
g_dbus_proxy_method_call ==
  /\ s.c.alive /\ DOMAIN s.c.user /= {} /\ s.c.calls = 0
  /\ Becomes([s EXCEPT !.c.calls = @ + 1, !.out = Append(@, "call")])

-----------------------------------------------------------------------------
(* Actions of the service.                                                    *)

Below(t, p) == {q \in Paths : t.data[q].on /\ p \in Range(Above(q))}

Register(p, i, val) ==
  /\ s.up /\ i \notin s.data[p].interfaces
  /\ Calm => i \notin s.data[p].removed /\ (s.data[p].on \/ Below(s, p) = {})
  /\ Becomes(g_dbus_register_interface([s EXCEPT !.val[p][i] = val], p, i))

Unregister(p, i) ==
  /\ s.up /\ i \in s.data[p].interfaces
  /\ Calm => s.data[p].props \subseteq {i} /\ Below(s, p) = {}
  /\ Becomes([g_dbus_unregister_interface(s, p, i) EXCEPT !.val[p][i] = Nothing])

SetValue(p, i, val) ==
  /\ s.up /\ i \in s.data[p].interfaces /\ val /= s.val[p][i]
  /\ Becomes(g_dbus_emit_property_changed([s EXCEPT !.val[p][i] = val], p, i))

ProcessChanges(p) ==
  /\ Contains(s.pending, p)
  /\ Becomes(process_changes(s, p))

\* A call reaches the service, or the bus answers that it has no owner.
Answer(t, call) ==
  CASE ~t.up -> Send(t, [k |-> IF call = "objects" THEN "error" ELSE "failed"])
    [] t.up /\ call = "objects" -> get_objects(t)
    [] t.up /\ call = "call" -> g_dbus_send_message(t, [k |-> "return"])

HandleCall ==
  /\ s.out /= << >>
  /\ Becomes(Answer([s EXCEPT !.out = Tail(@)], Head(s.out)))

\* The service ends, in whatever state; calls it did not read fail after that.
ServiceStops ==
  /\ s.up
  /\ Becomes(Send([s EXCEPT !.up = FALSE, !.data = NoObjects, !.pending = << >>,
                            !.val = [p \in Paths |-> [i \in Ifaces |-> Nothing]]],
                  [k |-> "owner", up |-> FALSE]))

ServiceStarts ==
  /\ ~s.up
  /\ s.out = << >>  \* the bus failed the calls to the old owner
  /\ Becomes(Send([s EXCEPT !.up = TRUE], [k |-> "owner", up |-> TRUE]))

Next ==
  \/ Receive \/ g_dbus_client_new \/ g_dbus_client_unref \/ g_dbus_proxy_method_call
  \/ \E p \in Paths, i \in Ifaces :
       \/ \E val \in Values \cup {Nothing} : Register(p, i, val) \/ SetValue(p, i, val)
       \/ Unregister(p, i)
  \/ \E p \in Paths : ProcessChanges(p)
  \/ HandleCall \/ ServiceStops \/ ServiceStarts

Spec == Init /\ [][Next]_vars

-----------------------------------------------------------------------------
(* Properties.                                                                *)

Exported(t) == {<<p, i>> \in Proxies : t.data[p].on /\ i \in t.data[p].interfaces}

\* What the callbacks of a client told its user is at every moment what the proxies
\* of the client are; and when no message is on its way and the service has nothing
\* to send, they are the interfaces and the values the service exports, whatever
\* came and went meanwhile, the service included.
ProxiesMirror ==
  /\ s.c.user = s.c.proxy_list
  /\ (s.in = << >> /\ s.out = << >> /\ s.pending = << >> /\ s.c.alive) =>
       /\ s.c.connected = s.up /\ ~s.c.get_objects_call
       /\ DOMAIN s.c.proxy_list = Exported(s)
       /\ \A x \in DOMAIN s.c.proxy_list : s.c.proxy_list[x] = s.val[x[1]][x[2]]

-----------------------------------------------------------------------------
(* Watches on the bus, gdbus/watch.c: callbacks for signals of a service and  *)
(* for its name getting or losing an owner.  Callbacks that watch the same    *)
(* thing share a listener, which has a match rule with the bus; a callback    *)
(* may remove its own watch or others and add new ones while a message is     *)
(* handed to the listeners.                                                   *)
(*                                                                            *)
(* One service.  Watches are numbers, Data[w] tells what w is; the watch on   *)
(* the name that listener n keeps for itself is the number Own(n).  `in' are  *)
(* the messages of the bus in their order, `out' the calls to it.             *)

CONSTANTS
  Data,     \* watch -> [kind: "service" | "gone" | "signal", path, how, other]
            \* kind "gone" is a disconnect watch on the unique name of the service;
            \* how: what the callback does, "keep", "false", "self", "remove", "add"
  Groups    \* sets of watches that are added in one behaviour

Watches == DOMAIN Data
Own(n) == 100 + n

WatchInit ==
  \E g \in Groups :
  s = [group |-> g, up |-> FALSE, listeners |-> << >>, told |-> [w \in Watches |-> FALSE],
       check |-> [w \in Watches |-> None], in |-> << >>, out |-> << >>,
       called |-> {}, twice |-> FALSE, missed |-> FALSE, broken |-> FALSE]

-----------------------------------------------------------------------------
(* Listeners.                                                                 *)

At(t, n) == CHOOSE k \in DOMAIN t.listeners : t.listeners[k].id = n
L(t, n) == t.listeners[At(t, n)]
Callbacks(l) == Range(l.callbacks) \cup Range(l.processed)
Holding(t, w) == {k \in DOMAIN t.listeners : w \in Callbacks(t.listeners[k])}
Without(q, w) == SelectSeq(q, LAMBDA x : x /= w)

\* filter_data_find_match(): a listener on the name whose owner is known no longer
\* matches, as the owner given here is none.
filter_data_find_match(t, kind, path) ==
  {k \in DOMAIN t.listeners : /\ t.listeners[k].kind = kind /\ t.listeners[k].path = path
                              /\ t.listeners[k].owner = None}

FreshId(t) == CHOOSE n \in 1..(Len(t.listeners) + 1) :
                \A k \in DOMAIN t.listeners : t.listeners[k].id /= n

\* filter_data_get() with filter_data_add_callback(); a locked listener takes new
\* callbacks among those that were called already.
filter_data_get(t, kind, path) ==
  IF filter_data_find_match(t, kind, path) /= {} THEN t
  ELSE [t EXCEPT !.listeners = Append(@, [id |-> FreshId(t), kind |-> kind, path |-> path, owner |-> None,
                                          callbacks |-> << >>, processed |-> << >>, lock |-> FALSE,
                                          name_watch |-> FALSE])]

Found(t, kind, path) == CHOOSE k \in filter_data_find_match(t, kind, path) : TRUE

filter_data_add_callback(t, k, w) ==
  IF t.listeners[k].lock THEN [t EXCEPT !.listeners[k].processed = Append(@, w)]
  ELSE [t EXCEPT !.listeners[k].callbacks = Append(@, w)]

RECURSIVE g_dbus_remove_watch(_, _)

\* filter_data_free(), with the watch on the name the listener kept.
filter_data_free(t, l) == IF l.name_watch THEN g_dbus_remove_watch(t, Own(l.id)) ELSE t

Forget(t, k) ==
  filter_data_free([t EXCEPT !.listeners = SubSeq(@, 1, k - 1) \o SubSeq(@, k + 1, Len(@))],
                   t.listeners[k])

ForgetUnused(t, k) ==
  IF t.listeners[k].callbacks /= << >> \/ t.listeners[k].lock THEN t ELSE Forget(t, k)

\* A check of the name under way is cancelled.  The listener goes with its last
\* callback, unless it is locked.
filter_data_remove_callback(t, k, w) ==
  ForgetUnused([t EXCEPT !.listeners[k].callbacks = Without(@, w),
                         !.listeners[k].processed = Without(@, w),
                         !.check = IF w \in Watches THEN [@ EXCEPT ![w] = None] ELSE @], k)

g_dbus_remove_watch(t, w) ==
  IF Holding(t, w) = {} THEN t
  ELSE filter_data_remove_callback(t, CHOOSE k \in Holding(t, w) : TRUE, w)

\* check_name_cache(): the first listener on the name decides, even when the owner it
\* knows of left.
Named(t) == SelectSeq(t.listeners, LAMBDA l : l.kind = "signal")
check_name_cache(t) == IF Named(t) = << >> THEN None ELSE Head(Named(t)).owner

update_name_cache(t, owner) ==
  LET renewed(l) == IF l.kind = "signal" THEN [l EXCEPT !.owner = owner] ELSE l
  IN [t EXCEPT !.listeners = FoldLeft(LAMBDA q, l : Append(q, renewed(l)), << >>, @)]

\* The name is looked up, or the owner known told by an idle callback.
check_service(t, w) ==
  IF check_name_cache(t) /= None THEN [t EXCEPT !.check[w] = "idle"]
  ELSE [t EXCEPT !.check[w] = "call", !.out = Append(@, w)]

AddToFound(t, kind, path, w) == filter_data_add_callback(t, Found(t, kind, path), w)
AddTo(t, kind, path, w) == AddToFound(filter_data_get(t, kind, path), kind, path, w)

CheckIf(t, w) == IF Data[w].kind = "service" THEN check_service(t, w) ELSE t
g_dbus_add_service_watch(t, w) ==
  CheckIf(AddTo([t EXCEPT !.told[w] = FALSE], Data[w].kind, None, w), w)

\* The listener of a name watches the name for its cache.
WatchName(t, k) ==
  IF t.listeners[k].name_watch THEN t
  ELSE AddTo([t EXCEPT !.listeners[k].name_watch = TRUE], "service", None, Own(t.listeners[k].id))
WatchNameOf(t, w) == WatchName(t, CHOOSE k \in Holding(t, w) : TRUE)

g_dbus_add_signal_watch(t, w) == WatchNameOf(AddTo(t, "signal", Data[w].path, w), w)

AddWatch(t, w) ==
  IF Data[w].kind = "signal" THEN g_dbus_add_signal_watch(t, w) ELSE g_dbus_add_service_watch(t, w)

-----------------------------------------------------------------------------
(* Handing out a message.                                                     *)

Live(t) == {w \in Watches : Holding(t, w) /= {}}

\* The callback of a watch runs.  Watches listeners keep for themselves have none.
Acts(t, w, d) ==
  CASE d.how = "self" -> g_dbus_remove_watch(t, w)
    [] d.how = "remove" -> g_dbus_remove_watch(t, d.other)
    [] d.how = "add" /\ d.other \notin Live(t) -> AddWatch(t, d.other)
    [] OTHER -> t

Call(t, w, up) ==
  IF w \notin Watches THEN t
  ELSE Acts([t EXCEPT !.called = @ \cup {w}, !.twice = @ \/ w \in t.called, !.told[w] = up], w, Data[w])

\* A callback that is done, listener k being its own, waits for the others.
Processed(t, k, w) ==
  [t EXCEPT !.listeners[k].callbacks = Without(@, w), !.listeners[k].processed = Append(@, w)]

Signalled(t, k, w) ==
  IF Data[w].how = "false" THEN filter_data_remove_callback(t, k, w)
  ELSE IF ~Contains(t.listeners[k].callbacks, w) THEN t ELSE Processed(t, k, w)
SignalledBy(t, n, w) == Signalled(t, At(t, n), w)

RECURSIVE signal_filter(_, _)
signal_filter(t, n) ==
  IF L(t, n).callbacks = << >> THEN t
  ELSE LET w == Head(L(t, n).callbacks) IN signal_filter(SignalledBy(Call(t, w, FALSE), n, w), n)

\* A watch on a unique name is for once.
OwnerTold(t, k, w) ==
  IF ~Contains(t.listeners[k].callbacks, w) THEN t
  ELSE IF t.listeners[k].kind = "gone" THEN filter_data_remove_callback(t, k, w)
  ELSE Processed(t, k, w)
OwnerToldBy(t, n, w) == OwnerTold(t, At(t, n), w)

HasCallback(w, up) == w \in Watches /\ (Data[w].kind = "service" \/ ~up)
CallIf(t, w, up) == IF HasCallback(w, up) THEN Call(t, w, up) ELSE t

RECURSIVE ServiceCallbacks(_, _, _)

\* The loop of service_filter().
ServiceCallbacks(t, n, up) ==
  IF L(t, n).callbacks = << >> THEN t
  ELSE LET w == Head(L(t, n).callbacks) IN ServiceCallbacks(OwnerToldBy(CallIf(t, w, up), n, w), n, up)

service_filter(t, n, up) ==
  ServiceCallbacks(IF L(t, n).kind = "service" THEN update_name_cache(t, IF up THEN "owner" ELSE "") ELSE t,
                   n, up)

\* Whether a message is for a listener.  Of the unique name only the end is told.
Matches(l, m) ==
  CASE m.k = "owner" -> l.kind = "service" \/ (l.kind = "gone" /\ ~m.up)
    [] m.k = "signal" -> l.kind = "signal" /\ l.owner \in {None, "owner"} /\ l.path \in {None, m.path}

Locked(t, n, lock) == [t EXCEPT !.listeners[At(t, n)].lock = lock]

\* handle_func of a listener, which is locked meanwhile.
Unlocked(t, k) ==
  [t EXCEPT !.listeners[k] = [@ EXCEPT !.callbacks = t.listeners[k].processed, !.processed = << >>,
                                       !.lock = FALSE]]
UnlockedBy(t, n) == Unlocked(t, At(t, n))

handle_func(t, n, m) ==
  UnlockedBy(IF m.k = "signal" THEN signal_filter(Locked(t, n, TRUE), n)
             ELSE service_filter(Locked(t, n, TRUE), n, m.up), n)

\* The listeners left without callbacks go.  The loop over them has the second as
\* its next one for ever.
DeleteListeners(t, empty) ==
  IF Len(empty) = 0 THEN t
  ELSE [(IF L(t, Last(empty)).callbacks /= << >> THEN t ELSE Forget(t, At(t, Last(empty))))
          EXCEPT !.broken = Len(empty) > 1]

RECURSIVE Walk(_, _, _, _)

\* Over the listeners as the list is at each step, those added meanwhile included.
WalkOn(t, k, m, empty) ==
  Walk(t, k + 1, m,
       IF t.listeners[k].callbacks = << >> THEN Append(empty, t.listeners[k].id) ELSE empty)
WalkOnFrom(t, n, m, empty) == WalkOn(t, At(t, n), m, empty)

Walk(t, k, m, empty) ==
  IF k > Len(t.listeners) THEN DeleteListeners(t, empty)
  ELSE IF ~Matches(t.listeners[k], m) THEN Walk(t, k + 1, m, empty)
  ELSE WalkOnFrom(handle_func(t, t.listeners[k].id, m), t.listeners[k].id, m, empty)

message_filter(t, m) == Walk(t, 1, m, << >>)

-----------------------------------------------------------------------------
(* Actions.                                                                   *)

\* No check of the name for an earlier watch is under way.
Quiet(t, w) ==
  w \notin Range(t.out) \cup {m.w : m \in {m \in Range(t.in) : m.k = "reply"}}

\* The owner that an idle callback is about to tell of is there, and so it stays.
CacheTrue(t) ==
  (\E w \in Watches : t.check[w] = "idle") =>
     t.up /\ check_name_cache(t) = "owner" /\ \A m \in Range(t.in) : m.k /= "owner"

Add(w) ==
  /\ w \in s.group /\ w \notin Live(s) /\ Quiet(s, w)
  /\ Data[w].kind = "gone" => s.up
  /\ Becomes(AddWatch(s, w))
  /\ Calm => CacheTrue(s')

RemoveWatch(w) ==
  /\ w \in Live(s)
  /\ Becomes(g_dbus_remove_watch(s, w))

\* g_dbus_remove_all_watches(), as the connection is given up: every watch is told
\* that the service is gone.
RemoveAll ==
  /\ s.listeners /= << >> /\ s.in = << >> /\ s.out = << >>
  /\ Becomes([s EXCEPT !.listeners = << >>, !.told = [w \in Watches |-> FALSE],
                       !.check = [w \in Watches |-> None]])

OwnerChanges ==
  /\ Calm => \A w \in Watches : s.check[w] /= "idle"
  /\ Becomes([s EXCEPT !.up = ~@, !.in = Append(@, [k |-> "owner", up |-> ~s.up])])

EmitSignal(path) ==
  /\ s.up
  /\ Becomes([s EXCEPT !.in = Append(@, [k |-> "signal", path |-> path])])

\* The bus answers GetNameOwner.
BusAnswers ==
  /\ s.out /= << >>
  /\ Becomes([s EXCEPT !.out = Tail(@), !.in = Append(@, [k |-> "reply", w |-> Head(s.out), up |-> s.up])])

\* update_service(): the watch's connect callback.
update_service(t, w) == [Call([t EXCEPT !.check[w] = None], w, TRUE) EXCEPT !.called = {}]

UpdateServiceIdle(w) ==
  /\ s.check[w] = "idle"
  /\ Becomes(update_service(s, w))

\* Faulty variant: an answer that there is no owner counts as one.
service_reply_Any(t, w, up) ==
  IF t.check[w] /= "call" THEN t ELSE update_service(t, w)

\* The reply of a cancelled call is dropped.
service_reply(t, w, up) ==
  IF t.check[w] /= "call" THEN t
  ELSE IF up THEN update_service(t, w) ELSE [t EXCEPT !.check[w] = None]

\* A signal must reach the watches that were there before and still are.
Heard(t, u, m) ==
  [u EXCEPT !.called = {}, !.missed = \E w \in Live(t) \cap Live(u) :
                          /\ m.k = "signal" /\ Data[w].kind = "signal" /\ Data[w].path \in {None, m.path}
                          /\ w \notin u.called]

WatchReceive ==
  /\ s.in /= << >>
  /\ LET m == Head(s.in)
         t == [s EXCEPT !.in = Tail(@)]
     IN Becomes(IF m.k = "reply" THEN service_reply(t, m.w, m.up) ELSE Heard(t, message_filter(t, m), m))
  /\ Calm => ~s'.broken /\ CacheTrue(s')

WatchNext ==
  \/ \E w \in Watches : Add(w) \/ RemoveWatch(w) \/ UpdateServiceIdle(w)
  \/ \E path \in {Data[w].path : w \in Watches} \ {None} : EmitSignal(path)
  \/ RemoveAll \/ OwnerChanges \/ BusAnswers \/ WatchReceive


-----------------------------------------------------------------------------
(* Properties.                                                                *)

\* Between two messages no listener is without callbacks, locked, or in two minds:
\* each watch is held by one listener, and a listener of the name keeps its watch on
\* the name.  No callback ran twice for a message and no signal passed by a watch
\* that was there; and a service watch was told last what is true, once no message
\* and no check of the name is under way.
WatchesServed ==
  /\ ~s.twice /\ ~s.missed /\ ~s.broken
  /\ \A k \in DOMAIN s.listeners :
       LET l == s.listeners[k]
       IN /\ l.callbacks /= << >> /\ l.processed = << >> /\ ~l.lock
          /\ l.name_watch <=> Cardinality(Holding(s, Own(l.id))) = 1
          /\ \A w \in Range(l.callbacks) : Holding(s, w) = {k}
  /\ \A w \in Watches :
       /\ s.check[w] /= None => w \in Live(s)
       /\ (Data[w].kind = "service" /\ w \in Live(s) /\ s.check[w] = None /\ s.in = << >>) =>
             s.told[w] = s.up

=============================================================================

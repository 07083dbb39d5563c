---------------------------- MODULE VpnSystem ----------------------------
(***************************************************************************)
(* connmand's side of a VPN: the mirror of vpnd's connection kept by       *)
(* plugins/vpn.c and the provider of src/provider.c on top of it.          *)
(*                                                                         *)
(* The mirror is a record c:                                               *)
(*   known   connection_data is in vpn_connections, with its provider      *)
(*   state   data->state, the last State heard from vpnd                   *)
(*   call    the Connect call waited for, 0 when there is none             *)
(*   disc    the Disconnect call waited for, 0 when there is none          *)
(*   pend    data->connect_pending                                         *)
(*   ident   data->service_ident, the transport service, or "none"         *)
(*   svc     the state of the VPN service (ServiceState describes how      *)
(*           service.c combines the two IP families, set alike here)       *)
(*   out     the calls and signals sent to vpnd, in order                  *)
(* tr maps each transport service to "idle", "ready" or "online".          *)
(***************************************************************************)
EXTENDS Naturals, Sequences, VpnDaemon

NoConnection == [known |-> FALSE, state |-> "none", call |-> 0, disc |-> 0, pend |-> FALSE,
                 ident |-> "none", svc |-> "idle"]

Forget(c) == [c EXCEPT !.known = FALSE, !.state = "none", !.call = 0, !.disc = 0,
                       !.pend = FALSE, !.ident = "none", !.svc = "idle"]

send(c, k, id) == [c EXCEPT !.out = Append(@, [k |-> k, id |-> id, v |-> FALSE])]

provider_is_connected(c) == c.known /\ c.state \in {"ready", "configuration"}

------------------------------------------------------------------------------
(* Transports.  The list of services has the online ones first.            *)

Of(tr, state) == {t \in DOMAIN tr : tr[t] = state}
First(ts) == IF ts = {} THEN "none" ELSE CHOOSE t \in ts : TRUE

vpn_find_online_transport(tr) == First(Of(tr, "online"))

connman_service_get_default(tr) ==
  IF Of(tr, "online") # {} THEN vpn_find_online_transport(tr) ELSE First(Of(tr, "ready"))

\* Faulty variant: any connected service will do as transport.
vpn_is_valid_transport_Any(t, tr) == \E s \in DOMAIN tr : tr[s] # "idle"

vpn_is_valid_transport(t, tr) ==
  /\ t \in DOMAIN tr
  /\ \/ tr[t] = "ready" /\ vpn_find_online_transport(tr) = "none"
     \/ tr[t] = "online" /\ vpn_find_online_transport(tr) = t

------------------------------------------------------------------------------
(* Disconnecting.  A change of the VPN service's state runs the notifiers, *)
(* vpn_disconnect_check among them; while a Disconnect call is out the     *)
(* check finds nothing more to do.                                         *)

disconnect_provider(c, id) ==
  IF c.disc # 0 THEN c
  ELSE [send(c, "Disconnect", id) EXCEPT !.disc = id, !.svc = "disconnect", !.ident = "none"]

provider_disconnect(c, id) ==
  LET e == IF provider_is_connected(c) THEN disconnect_provider(c, id) ELSE c IN
  [e EXCEPT !.call = 0, !.pend = FALSE]

connman_provider_disconnect(c, id) ==
  [provider_disconnect(c, id) EXCEPT !.svc = IF provider_is_connected(c) THEN "disconnect" ELSE "idle"]

vpn_disconnect_check(c, tr, id) ==
  IF provider_is_connected(c) /\ ~vpn_is_valid_transport(c.ident, tr)
  THEN connman_provider_disconnect(c, id) ELSE c

\* provider_indicate_state of provider.c, with what service_state_changed causes.
indicate_state(c, s, tr, id) ==
  LET e == [c EXCEPT !.svc = s] IN
  IF c.svc = s THEN c ELSE vpn_disconnect_check(e, tr, id)

------------------------------------------------------------------------------
(* What vpnd tells.                                                        *)

ServiceStateOf == [idle |-> "idle", configuration |-> "association", ready |-> "ready",
                   disconnect |-> "disconnect", failure |-> "failure"]

set_provider_state(c, tr, id) ==
  LET e == indicate_state(c, ServiceStateOf[c.state], tr, id) IN
  IF provider_is_connected(c) THEN e ELSE [e EXCEPT !.ident = "none"]

\* Faulty variant: State is ignored while a Connect call is waited for.
property_changed_WhilePending(c, s, tr, id) ==
  IF ~c.known \/ c.state = s \/ c.pend THEN c
  ELSE set_provider_state([c EXCEPT !.state = s], tr, id)

property_changed(c, s, tr, id) ==
  IF ~c.known \/ c.state = s THEN c ELSE set_provider_state([c EXCEPT !.state = s], tr, id)

connect_provider(c, tr, id) ==
  IF connman_service_get_default(tr) = "none" \/ (c.pend /\ c.call # 0) THEN c
  ELSE [send(c, "Connect", id) EXCEPT !.call = id, !.pend = TRUE,
                                      !.ident = connman_service_get_default(tr)]

\* __connman_provider_connect: the service is associating once the call is sent.
connman_provider_connect(c, tr, id) ==
  LET e == connect_provider(c, tr, id) IN
  IF e = c THEN c ELSE [e EXCEPT !.svc = "association"]

connect_reply(c) == [c EXCEPT !.call = 0, !.pend = FALSE]
disconnect_reply(c) == [c EXCEPT !.disc = 0]

\* add_connection and create_provider.  A connection connmand knows is left alone
\* unless it waits for Connect; then its call is out already.
add_connection(c, s, tr, id) ==
  IF c.known /\ ~c.pend THEN c
  ELSE set_provider_state([c EXCEPT !.known = TRUE, !.state = s], tr, id)

get_connections_reply(c, s, tr, id) == IF s = "none" THEN c ELSE add_connection(c, s, tr, id)
connection_added(c, s, tr, id) == add_connection(c, s, tr, id)

\* connection_destroy: the Disconnect sent for a connected VPN is not waited for.
connection_destroy(c, id) ==
  IF ~c.known THEN c
  ELSE Forget(IF provider_is_connected(c) THEN connman_provider_disconnect(c, id) ELSE c)

connection_removed(c, id) == connection_destroy(c, id)

\* Faulty variant: the connections outlive the daemon they mirror.
vpnd_removed_Keep(c, id) == c
vpnd_removed(c, id) == connection_destroy(c, id)
vpnd_created(c) == send(c, "GetConnections", 0)

-----------------------------------------------------------------------------
(***************************************************************************)
(* connmand and connman-vpnd together.  Each process reads its messages in *)
(* the order the bus delivers them and runs one handler at a time; the     *)
(* user, the transports, the VPN processes, the VPN agent, the kernel and  *)
(* the timers act in between.  vpnd may crash and be started again.        *)
(***************************************************************************)

CONSTANTS Setups,       \* the driver, and the services it can run over
          MaxOut,       \* bound: messages of vpnd that connmand has not read
          MaxIn,        \* bound: messages of connmand that vpnd has not read
          MaxWatches,   \* bound: newlink watches registered for the provider
          Crashes       \* whether vpnd may crash

TransportStates == {"idle", "ready", "online"}

VARIABLES d,    \* connman-vpnd
          c,    \* connmand's mirror
          tr,   \* the states of the transports
          up    \* vpnd owns its bus name
vars == <<d, c, tr, up>>

Connected == \E t \in DOMAIN tr : tr[t] # "idle"

\* D-Bus serial numbers are never reused, and connmand waits for one Connect and
\* one Disconnect at most: these are calls 1 and 2, and call 3 is any call nobody
\* waits for any more.  vpnd cannot tell; its answer to call 3 is dropped.
ConnectId == 1
DisconnectId == 2
Stale(cc, id) == IF id \in {0, cc.call, cc.disc} THEN id ELSE 3

Messages(cc, q) ==
  LET named == [i \in DOMAIN q |-> [q[i] EXCEPT !.id = Stale(cc, @)]] IN
  SelectSeq(named, LAMBDA m : m.k # "Reply" \/ m.id \in {cc.call, cc.disc} \ {0})

Becomes(dd, cc) ==
  /\ c' = [cc EXCEPT !.out = Messages(cc, @)]
  /\ d' = [dd EXCEPT !.out = Messages(cc, @), !.later = Stale(cc, @),
                     !.jobs = [j \in JobIds |-> [@[j] EXCEPT !.cb = Stale(cc, @)]]]

FreeJobs == {j \in JobIds : d.jobs[j] = NoJob}
Job == CHOOSE j \in FreeJobs : TRUE

Init ==
  /\ \E setup \in Setups :
       /\ d = [Daemon(setup.kind, TRUE) EXCEPT !.online = TRUE, !.queried = TRUE]
       /\ \E t \in setup.over : tr = [s \in setup.over |-> IF s = t THEN "ready" ELSE "idle"]
  /\ c = [known |-> TRUE, state |-> "idle", call |-> 0, disc |-> 0, pend |-> FALSE,
          ident |-> "none", svc |-> "idle", out |-> <<>>]
  /\ up = TRUE

------------------------------------------------------------------------------
(* connmand                                                                *)

\* What happens on its own waits until the bounds leave room for the answers.
CanSend == Len(c.out) < MaxIn
Waiting == {i \in DOMAIN c.out : c.out[i].k = "Connect"} \cup (IF d.later = 0 THEN {} ELSE {0})

UserConnect ==
  /\ CanSend /\ Cardinality(FreeJobs) > Cardinality(Waiting)
  /\ c.known /\ c.svc \in {"idle", "disconnect", "failure"}
  /\ Becomes(d, connman_provider_connect(c, tr, ConnectId))
  /\ UNCHANGED <<tr, up>>

\* Service.Disconnect, or offline mode.
UserDisconnect ==
  /\ CanSend
  /\ c.known /\ c.svc # "idle"
  /\ Becomes(d, connman_provider_disconnect(c, DisconnectId))
  /\ UNCHANGED <<tr, up>>

\* A transport changes state; the manager's own State follows.
TransportChange ==
  /\ CanSend
  /\ \E t \in DOMAIN tr, s \in TransportStates :
       /\ tr' = [tr EXCEPT ![t] = s]
       /\ tr' # tr
       /\ LET on == \E u \in DOMAIN tr : tr'[u] # "idle"
              e == vpn_disconnect_check(c, tr', DisconnectId)
          IN Becomes(d, IF on = Connected THEN e ELSE
                        [e EXCEPT !.out = Append(@, [k |-> "Manager", id |-> 0, v |-> on])])
  /\ UNCHANGED up

\* The reply to Connect or to Disconnect did not come within DBUS_TIMEOUT.  vpnd
\* has read the call by then.
Unread(id) == \E i \in DOMAIN c.out : c.out[i].id = id

CallTimeout ==
  /\ \/ c.call # 0 /\ ~Unread(c.call) /\ Becomes(d, connect_reply(c))
     \/ c.disc # 0 /\ ~Unread(c.disc) /\ Becomes(d, disconnect_reply(c))
  /\ UNCHANGED <<tr, up>>

ReadFromVpnd ==
  /\ d.out # <<>>
  /\ LET m == Head(d.out)
         e == CASE m.k = "Reply" -> IF m.id = c.call THEN connect_reply(c) ELSE disconnect_reply(c)
                [] m.k = "State" -> property_changed(c, m.v, tr, DisconnectId)
                [] m.k = "Added" -> connection_added(c, m.v, tr, DisconnectId)
                [] m.k = "Connections" -> get_connections_reply(c, m.v, tr, DisconnectId)
                [] m.k = "Removed" -> connection_removed(c, DisconnectId)
                [] m.k = "Gone" -> vpnd_removed(c, DisconnectId)
                [] m.k = "Created" -> vpnd_created(c)
     IN Becomes([d EXCEPT !.out = Tail(@)], e)
  /\ UNCHANGED <<tr, up>>

------------------------------------------------------------------------------
(* vpnd.  A handler that dereferences a null pointer is the daemon's last. *)

vpnd_runs == up /\ Len(d.out) < MaxOut

\* A daemon that is gone leaves what it sent, and what it has stored.
gone(e) == [Daemon(e.kind, e.exists) EXCEPT !.refs = 0,
              !.out = Append(e.out, [k |-> "Gone", id |-> 0, v |-> "none"])]

VpndDoes(e) ==
  /\ Becomes(IF e.dead THEN gone(e) ELSE provider_destruct(e), IF e.dead THEN [c EXCEPT !.out = <<>>] ELSE c)
  /\ up' = ~e.dead
  /\ UNCHANGED tr

Handled(e) == Becomes(e, [c EXCEPT !.out = Tail(@)])

\* vpnd reads a call or a signal of connmand, or the bus drops it.
ReadFromConnmand ==
  /\ c.out # <<>>
  /\ up => Len(d.out) < MaxOut
  /\ LET m == Head(c.out) IN
        \/ ~up /\ Handled(d)
        \/ /\ up /\ m.k = "Connect" /\ d.exists
           /\ \E how \in Hows(d.kind) : Handled(do_connect(d, m.id, how, Job))
        \/ up /\ m.k = "Disconnect" /\ d.exists /\ Handled(do_disconnect(d, m.id))
        \/ up /\ m.k \in {"Connect", "Disconnect"} /\ ~d.exists /\ Handled(reply(d, m.id, "ENOENT"))
        \/ up /\ m.k = "GetConnections" /\ Handled(vpn_provider_get_connections(d, m.id))
        \/ up /\ m.k = "Manager" /\ Handled(connman_property_changed(d, m.v))
        \/ up /\ m.k = "Properties" /\ Handled(get_connman_state_reply(d, m.v))
  /\ UNCHANGED <<tr, up>>

\* run_get_connman_state: connmand answers GetProperties.
QueryState ==
  /\ up /\ ~d.queried /\ Len(c.out) < MaxIn
  /\ \A i \in DOMAIN c.out : c.out[i].k # "Properties"
  /\ Becomes(d, [c EXCEPT !.out = Append(@, [k |-> "Properties", id |-> 0, v |-> Connected])])
  /\ UNCHANGED <<tr, up>>

ConnectLater ==
  /\ vpnd_runs /\ d.later # 0 /\ d.online /\ FreeJobs # {}
  /\ \E how \in Hows(d.kind) : VpndDoes(do_connect_timeout_function(d, how, Job))

\* Another client removes the connection.
Remove ==
  /\ vpnd_runs /\ d.exists
  /\ VpndDoes(vpn_provider_delete(d))

\* A process reports through its task: one that is running, or dying.
Notify ==
  /\ vpnd_runs /\ d.watches < MaxWatches
  /\ \E j \in JobIds, why \in Whys(d.kind), was \in BOOLEAN :
       /\ d.jobs[j].obj /\ d.jobs[j].pid \in {"run", "term"}
       /\ VpndDoes(vpn_notify(d, why, was))

\* A process ends: because it was told to, or on its own.
Stopped == /\ vpnd_runs
           /\ \E j \in JobIds : d.jobs[j].pid = "term" /\ VpndDoes(driver_died(d, j))
Dies == /\ vpnd_runs
        /\ \E j \in JobIds : d.jobs[j].pid = "run" /\ VpndDoes(driver_died(d, j))

Link ==
  /\ vpnd_runs /\ d.watches > 0
  /\ \E on \in BOOLEAN : (d.data.on => on # d.data.up) /\ VpndDoes(vpn_newlink(d, on))

WireguardTimer == vpnd_runs /\ d.timer /\ d.watches < MaxWatches /\ VpndDoes(update_provider_state(d))

\* openvpn wants credentials, or openconnect's cookie thread a password.
Ask ==
  /\ vpnd_runs
  /\ \E j \in JobIds :
       /\ ~d.jobs[j].ask /\ d.exists
       /\ \/ /\ d.kind = "openvpn" /\ d.jobs[j].pid = "run" /\ d.jobs[j].obj
             /\ VpndDoes(ov_management_handle_input(d, j, TRUE))
          \/ /\ d.jobs[j].thr = "on"
             /\ VpndDoes(process_auth_form(d, j))

AgentAnswers ==
  /\ vpnd_runs
  /\ \E j \in JobIds, r \in Answers, how \in {"run", "norun", "thread"} :
       /\ d.jobs[j].ask
       /\ how = "thread" => d.kind = "openconnect"
       /\ VpndDoes(agent_reply(d, j, r, how))

CookieThread ==
  /\ vpnd_runs
  /\ \E j \in JobIds, how \in {"run", "fail"} :
       /\ d.jobs[j].thr # "none" /\ ~d.jobs[j].ask
       /\ how = "run" => d.jobs[j].thr = "on"
       /\ VpndDoes(authenticated(d, j, how))

ErrorOutput ==
  /\ vpnd_runs
  /\ \E j \in JobIds :
       /\ d.jobs[j].pid = "run"
       /\ \/ /\ d.kind = "openconnect"
             /\ \E err \in {"EACCES", "ECONNREFUSED"} : VpndDoes(io_channel_err_cb(d, j, err))
          \/ /\ d.kind = "vpnc"
             /\ VpndDoes(io_channel_cb(d))

Crash ==
  /\ Crashes /\ vpnd_runs
  /\ VpndDoes([d EXCEPT !.dead = TRUE])

\* vpnd takes its name and loads the providers it has stored.
Restart ==
  /\ ~up /\ Len(d.out) < MaxOut
  /\ LET e == [d EXCEPT !.out = Append(@, [k |-> "Created", id |-> 0, v |-> "none"])] IN
     Becomes(IF d.exists THEN provider_create_from_keyfile(e) ELSE e, c)
  /\ up' = TRUE
  /\ UNCHANGED tr

Next == \/ UserConnect \/ UserDisconnect \/ TransportChange \/ CallTimeout \/ ReadFromVpnd
        \/ ReadFromConnmand \/ QueryState \/ ConnectLater \/ Remove \/ Notify \/ Stopped \/ Dies
        \/ Link \/ WireguardTimer \/ Ask \/ AgentAnswers \/ CookieThread \/ ErrorOutput
        \/ Crash \/ Restart

Spec == Init /\ [][Next]_vars

\* connmand's main loop keeps reading what vpnd sent.
Reads == []<>(d.out = <<>>) \/ []<><<ReadFromVpnd>>_vars
FairSpec == Spec /\ Reads

------------------------------------------------------------------------------
\* Every holder of the provider has its own reference, and nobody else has one:
\* the hash, vpn_data, each driver's private data and each registered newlink
\* watch.  A missing reference frees the provider under vpn_died or vpn_newlink.
RefsCounted ==
  up => d.refs = (IF d.exists THEN 1 ELSE 0) + (IF d.data.on THEN 1 ELSE 0) + d.watches
                 + Cardinality({j \in JobIds : d.jobs[j].priv})

\* connmand's data->state follows vpnd's provider->state through every State it
\* takes, in order, across ConnectionAdded, ConnectionRemoved, GetConnections and
\* a vpnd that crashes: plugins/vpn.c implements the lagging copy of Mirror.
\* (A driver that reports while its provider is being removed is not heard: the
\* path of its State is no longer known.)
Heard(i) == LET news == {j \in 1..(i - 1) : d.out[j].k \in {"Added", "Removed", "Gone"}} IN
            CASE d.out[i].k = "State" -> IF news = {} THEN c.known ELSE d.out[Max(news)].k = "Added"
              [] OTHER -> d.out[i].k \in {"Added", "Connections", "Removed", "Gone"}
Told == SelectSeq([i \in DOMAIN d.out |-> [v |-> d.out[i].v, heard |-> Heard(i)]],
                  LAMBDA m : m.heard)

TheMirror == INSTANCE Mirror
  WITH Values <- {"none", "idle", "configuration", "ready", "disconnect", "failure"},
       value <- IF up /\ d.exists THEN StateString(d.st) ELSE "none",
       chan <- [i \in DOMAIN Told |-> Told[i].v],
       copy <- c.state
MirrorsVpnd == TheMirror!Spec

\* vpn_disconnect_check: connmand never shows a VPN as ready whose transport, the
\* service it was connected over, is down, whatever order the transport's changes
\* and vpnd's State signals come in.
ReadyOverTransport == c.svc = "ready" => c.ident \in DOMAIN tr /\ tr[c.ident] # "idle"

-----------------------------------------------------------------------------
(* The setups of the configuration. *)

\* The drivers with a process over one service (pptp for l2tp too, whose code it
\* repeats), and wireguard over two.
MCSetups == [kind : Kinds \ {"l2tp", "wireguard"}, over : {{"e"}}]
            \cup {[kind |-> "wireguard", over |-> {"e", "w"}]}
=============================================================================

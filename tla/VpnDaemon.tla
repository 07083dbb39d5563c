------------------------------ MODULE VpnDaemon ------------------------------
(***************************************************************************)
(* connman-vpnd: one VPN provider (vpn/vpn-provider.c), the tunnel plugin  *)
(* all drivers share (vpn/plugins/vpn.c), the six drivers, the processes   *)
(* they run (src/task.c) and the credentials they ask the VPN agent for.   *)
(*                                                                         *)
(* The daemon is a record d:                                               *)
(*   kind     the driver of the provider                                   *)
(*   exists   it is in provider_hash, with its D-Bus object and driver     *)
(*   st       provider->state                                              *)
(*   refs     provider->refcount                                           *)
(*   data     struct vpn_data: on (it is allocated), state, watch, task,   *)
(*            up (IFF_UP in flags)                                         *)
(*   watches  the newlink watches registered for the provider              *)
(*   timer    wireguard's pending update_provider_state                    *)
(*   plug     the job whose private data is the provider's plugin data     *)
(*   jobs     one per connection attempt that is not cleaned up: obj (the  *)
(*            task exists), pid, priv (the driver's private data), cb (the *)
(*            Connect call to answer, 0 once answered), ask (the agent is  *)
(*            asked), thr (openconnect's cookie thread: "none", "on", or   *)
(*            the error it will end with)                                  *)
(*   later    the Connect call do_connect_later keeps, or 0                *)
(*   online, queried   connman_online, state_query_completed               *)
(*   dead     the daemon dereferenced a null pointer                       *)
(*   out      the messages sent to connmand, in order                      *)
(***************************************************************************)
EXTENDS Naturals, FiniteSets, Sequences, FiniteSetsExt

CONSTANT MaxJobs    \* bound: connection attempts not cleaned up

JobIds == 1..MaxJobs
NoJob == [obj |-> FALSE, pid |-> "none", priv |-> FALSE, cb |-> 0, ask |-> FALSE, thr |-> "none"]
NoData == [on |-> FALSE, state |-> "unknown", watch |-> FALSE, task |-> 0, up |-> FALSE]

Ppp == {"l2tp", "pptp"}
NoTun == Ppp \cup {"wireguard"}
Kinds == {"openvpn", "openconnect", "vpnc"} \cup NoTun

\* vpn_provider_new, and __vpn_provider_init's view of connmand.
Daemon(kind, exists) ==
  [kind |-> kind, exists |-> exists, st |-> "unknown", refs |-> IF exists THEN 1 ELSE 0,
   data |-> NoData, watches |-> 0, timer |-> FALSE, plug |-> 0,
   jobs |-> [j \in JobIds |-> NoJob], later |-> 0, online |-> FALSE, queried |-> FALSE,
   dead |-> FALSE, out |-> <<>>]

\* A message about the provider: a removed provider has no path to send it from.
emit(d, m) == IF d.exists THEN [d EXCEPT !.out = Append(@, m)] ELSE d
reply(d, id, err) == [d EXCEPT !.out = Append(@, [k |-> "Reply", id |-> id, v |-> err])]

\* state2string and append_state.
StateString(st) == CASE st \in {"unknown", "idle"} -> "idle"
                     [] st = "connect" -> "configuration"
                     [] OTHER -> st

State(d) == [k |-> "State", id |-> 0, v |-> StateString(d.st)]

\* Faulty variant: FAILURE is not signalled.
provider_indicate_state_Silent(d, s) ==
  LET e == [d EXCEPT !.st = s] IN
  IF s # "failure" /\ d.st # s THEN emit(e, State(e)) ELSE e

provider_indicate_state(d, s) ==
  LET e == [d EXCEPT !.st = s] IN
  IF d.st # s THEN emit(e, State(e)) ELSE e

vpn_provider_set_state(d, s) ==
  IF s = "idle" THEN provider_indicate_state(provider_indicate_state(d, "disconnect"), "idle")
                ELSE provider_indicate_state(d, s)

vpn_set_state(d, s) ==
  IF ~d.data.on \/ ~d.exists THEN d
  ELSE [d EXCEPT !.data.state = IF s = "ready" THEN "connect" ELSE s]

vpn_provider_indicate_error(d) ==
  IF d.st \in {"idle", "unknown"} THEN d
  ELSE vpn_set_state(vpn_provider_set_state(d, "failure"), "failure")

------------------------------------------------------------------------------
(* src/task.c.  A process told to stop may still report before it dies.    *)

connman_task_stop(d, j) ==
  IF j # 0 /\ d.jobs[j].pid = "run" THEN [d EXCEPT !.jobs[j].pid = "term"] ELSE d

\* The process of a destroyed task is on its own: its end is not reported.
connman_task_destroy(d, j) ==
  [d EXCEPT !.jobs[j].obj = FALSE, !.jobs[j].pid = "none"]

unref(d) == [d EXCEPT !.refs = @ - 1]

------------------------------------------------------------------------------
(* The answer to Connect, and the drivers' *_connect_done.                 *)

\* connect_cb for the errors that do not ask the agent to stop.
connect_cb_plain(d, id, err) ==
  LET r == reply(d, id, err) IN
  CASE err \in {"none", "ENOENT"} -> r
    [] err = "EACCES" -> vpn_provider_indicate_error(r)
    [] err \in {"ECANCELED", "ECONNABORTED"} ->
         IF d.st \in {"connect", "ready"}
         THEN vpn_provider_set_state(vpn_set_state(r, "disconnect"), "disconnect") ELSE r
    [] OTHER -> vpn_provider_set_state(vpn_provider_indicate_error(r), "failure")

done_plain(d, j, err) ==
  IF j = 0 \/ d.jobs[j].cb = 0 THEN d
  ELSE connect_cb_plain([d EXCEPT !.jobs[j].cb = 0], d.jobs[j].cb, err)

\* free_private_data: openvpn, l2tp and pptp answer a call still open.
\* Faulty variant: the private data goes without its reference to the provider.
free_private_data_KeepRef(d, j) ==
  LET e == IF d.kind \in Ppp \cup {"openvpn"} THEN done_plain(d, j, "EIO") ELSE d IN
  [e EXCEPT !.jobs[j].priv = FALSE, !.jobs[j].cb = 0, !.jobs[j].thr = "none",
            !.plug = IF @ = j THEN 0 ELSE @]

free_private_data(d, j) ==
  LET e == IF d.kind \in Ppp \cup {"openvpn"} THEN done_plain(d, j, "EIO") ELSE d IN
  unref([e EXCEPT !.jobs[j].priv = FALSE, !.jobs[j].cb = 0, !.jobs[j].thr = "none",
                  !.plug = IF @ = j THEN 0 ELSE @])

\* What each driver's agent callback does when the request was cancelled (a
\* null reply): l2tp and pptp go on without a user name and fail to start.
cancelled(d, j) ==
  LET e == [d EXCEPT !.jobs[j].ask = FALSE] IN
  CASE d.kind \in Ppp -> done_plain(e, j, "EINVAL")
    [] d.kind = "openconnect" ->
         IF e.jobs[j].thr # "none" THEN [e EXCEPT !.jobs[j].thr = "ENOENT"]
         ELSE free_private_data(done_plain(e, j, "ENOENT"), j)
    [] OTHER -> done_plain(e, j, "ENOENT")

connman_agent_cancel(d) ==
  FoldSet(LAMBDA j, e : cancelled(e, j), d, {j \in JobIds : d.jobs[j].ask})

connect_cb(d, id, err) ==
  IF err \in {"ENOMSG", "ETIMEDOUT"}
  THEN vpn_provider_indicate_error(connman_agent_cancel(reply(d, id, err)))
  ELSE connect_cb_plain(d, id, err)

connect_done(d, j, err) ==
  IF j = 0 \/ d.jobs[j].cb = 0 THEN d
  ELSE connect_cb([d EXCEPT !.jobs[j].cb = 0], d.jobs[j].cb, err)

\* The agent refused: the call is answered, the process stopped, the provider idle.
vpn_agent_check_and_process_reply_error(d, j, err) ==
  vpn_provider_set_state(connman_task_stop(connect_done(d, j, err), j), "idle")

------------------------------------------------------------------------------
(* The drivers' connect.  how is what the driver finds: its credentials    *)
(* are complete ("run", and "norun" when the process cannot be spawned),   *)
(* or have to be asked for ("ask", and "noagent" when there is nobody to   *)
(* ask), or the configuration is unusable.  The result is the daemon and   *)
(* the error returned to vpn_connect, "none" for success and -EINPROGRESS. *)

Hows(kind) == CASE kind = "openvpn" -> {"run", "norun", "notun"}
                [] kind = "openconnect" -> {"run", "norun", "ask", "noagent", "thread", "bad", "notun"}
                [] kind = "wireguard" -> {"run", "bad"}
                [] kind = "vpnc" -> {"run", "norun", "ask", "noagent", "bad", "notun"}
                [] OTHER -> {"run", "norun", "ask", "noagent"}

\* The private data of an attempt holds a reference and the call to answer.
private(d, j, id) ==
  [d EXCEPT !.refs = @ + 1, !.plug = j, !.jobs[j].priv = TRUE, !.jobs[j].cb = id]

connman_task_run(d, j) == [d EXCEPT !.jobs[j].pid = "run"]

\* Each driver's run_connect: the process runs with the settings as its command
\* line, configuration or input, or cannot be started.
ov_run_connect(d, j, how) ==
  IF how = "run" THEN [d |-> connman_task_run(d, j), err |-> "none"]
                 ELSE [d |-> [d EXCEPT !.jobs[j].cb = 0], err |-> "EIO"]
oc_run_connect(d, j, how) ==
  IF how = "run" THEN [d |-> connman_task_run(d, j), err |-> "none"] ELSE [d |-> d, err |-> "EIO"]
vc_run_connect(d, j, how) ==
  IF how = "run" THEN [d |-> connman_task_run(d, j), err |-> "none"] ELSE [d |-> d, err |-> "EIO"]
l2tp_run_connect(d, j, how) ==
  IF how = "run" THEN [d |-> connman_task_run(d, j), err |-> "none"]
                 ELSE [d |-> connect_done(d, j, "EIO"), err |-> "EIO"]
pptp_run_connect(d, j, how) ==
  IF how = "run" THEN [d |-> connman_task_run(d, j), err |-> "none"]
                 ELSE [d |-> connect_done(d, j, "EIO"), err |-> "EIO"]

\* Each driver's request for credentials: the agent is asked, or there is none.
asked(d, j) == [d |-> [d EXCEPT !.jobs[j].ask = TRUE], err |-> "none"]

oc_request_input(d, j, how) ==
  IF how = "ask" THEN asked(d, j)
  ELSE [d |-> free_private_data(vpn_provider_indicate_error(connect_done(d, j, "ESRCH")), j),
        err |-> "ESRCH"]
vc_request_input(d, j, how) ==
  IF how = "ask" THEN asked(d, j)
  ELSE [d |-> free_private_data(vpn_provider_indicate_error(connect_done(d, j, "ECONNABORTED")), j),
        err |-> "ESRCH"]
l2tp_request_input(d, j, how) ==
  IF how = "ask" THEN asked(d, j)
  ELSE [d |-> free_private_data(connect_done(d, j, "ESRCH"), j), err |-> "ESRCH"]
pptp_request_input(d, j, how) ==
  IF how = "ask" THEN asked(d, j)
  ELSE [d |-> free_private_data(connect_done(d, j, "ESRCH"), j), err |-> "ESRCH"]

\* openconnect's cookie thread.
authenticate(d, j) == [d |-> [d EXCEPT !.jobs[j].thr = "on"], err |-> "none"]

\* openvpn is started at once and asks through its management interface; when it
\* cannot be started the private data and its reference stay behind.
ov_connect(d, j, id, how) == ov_run_connect(private(d, j, id), j, how)

oc_connect(d, j, id, how) ==
  LET e == private(d, j, id) IN
  CASE how \in {"run", "norun"} -> oc_run_connect(e, j, how)
    [] how \in {"ask", "noagent"} -> oc_request_input(e, j, how)
    [] how = "thread" -> authenticate(e, j)
    [] OTHER -> [d |-> free_private_data(connect_done(e, j, "EACCES"), j), err |-> "EACCES"]

vc_connect(d, j, id, how) ==
  LET e == private(d, j, id) IN
  CASE how = "bad" -> [d |-> d, err |-> "EINVAL"]
    [] how \in {"run", "norun"} -> vc_run_connect(e, j, how)
    [] OTHER -> vc_request_input(e, j, how)

l2tp_connect(d, j, id, how) ==
  LET e == private(d, j, id) IN
  IF how \in {"run", "norun"} THEN l2tp_run_connect(e, j, how) ELSE l2tp_request_input(e, j, how)

pptp_connect(d, j, id, how) ==
  LET e == private(d, j, id) IN
  IF how \in {"run", "norun"} THEN pptp_run_connect(e, j, how) ELSE pptp_request_input(e, j, how)

\* No process: the kernel device is there, and the call answered, on return.
wg_connect(d, id, how) ==
  [d |-> connect_cb([d EXCEPT !.plug = 1], id, IF how = "run" THEN "none" ELSE "EINVAL"),
   err |-> IF how = "run" THEN "none" ELSE "EINVAL"]

driver_connect(d, j, id, how) ==
  CASE d.kind = "openvpn" -> ov_connect(d, j, id, how)
    [] d.kind = "openconnect" -> oc_connect(d, j, id, how)
    [] d.kind = "vpnc" -> vc_connect(d, j, id, how)
    [] d.kind = "l2tp" -> l2tp_connect(d, j, id, how)
    [] OTHER -> pptp_connect(d, j, id, how)

\* The drivers' disconnect; openconnect also tells the cookie thread to give up,
\* which it may do at any time.
ov_disconnect(d) == vpn_provider_set_state(connman_agent_cancel(d), "disconnect")
wg_disconnect(d) == [d EXCEPT !.plug = 0]

driver_disconnect(d) == CASE d.kind = "openvpn" -> ov_disconnect(d)
                          [] d.kind = "wireguard" -> wg_disconnect(d)
                          [] OTHER -> connman_agent_cancel(d)

------------------------------------------------------------------------------
(* The tunnel plugin.                                                      *)

stop_vpn(d) == IF d.data.on /\ d.exists /\ d.kind \in NoTun THEN driver_disconnect(d) ELSE d

drop_watch(d) ==
  IF d.data.watch THEN unref([d EXCEPT !.watches = @ - 1, !.data.watch = FALSE]) ELSE d

\* exist_err: the data goes, a newlink watch it had stays registered.
connect_failed(d, err) == [d |-> unref([d EXCEPT !.data = NoData]), err |-> err]

\* What vpn_connect makes of the driver's result; a task is destroyed on failure.
task_result(r, j) ==
  IF r.err # "none" THEN connect_failed(connman_task_destroy(stop_vpn(r.d), j), r.err)
  ELSE [d |-> [r.d EXCEPT !.data.state = "connect"], err |-> "EINPROGRESS"]

wg_result(r) ==
  IF r.err # "none" THEN connect_failed(stop_vpn(r.d), r.err)
  ELSE [d |-> [r.d EXCEPT !.data.state = "connect", !.timer = TRUE], err |-> "EINPROGRESS"]

\* how = "notun" is a failing vpn_create_tun.
start_driver(d, id, how, j) ==
  CASE how = "notun" -> connect_failed(d, "EIO")
    [] how # "notun" /\ d.kind = "wireguard" -> wg_result(wg_connect(d, id, how))
    [] OTHER -> task_result(driver_connect([d EXCEPT !.data.task = j, !.jobs[j].obj = TRUE],
                                           j, id, how), j)

fresh_data == [NoData EXCEPT !.on = TRUE, !.state = "idle"]

\* Faulty variant: vpn_data is allocated without its reference.
vpn_connect_NoRef(d, id, how, j) ==
  CASE d.data.state = "connect" -> [d |-> d, err |-> "EINPROGRESS"]
    [] d.data.state = "ready" -> [d |-> d, err |-> "EISCONN"]
    [] OTHER -> start_driver([d EXCEPT !.data = fresh_data], id, how, j)

vpn_connect(d, id, how, j) ==
  CASE d.data.state = "connect" -> [d |-> d, err |-> "EINPROGRESS"]
    [] d.data.state = "ready" -> [d |-> d, err |-> "EISCONN"]
    [] OTHER -> start_driver(IF d.data.state = "unknown"
                             THEN [d EXCEPT !.data = fresh_data, !.refs = @ + 1]
                             ELSE [d EXCEPT !.data.state = "idle"], id, how, j)

stop_task(d) == connman_task_stop([d EXCEPT !.data.state = "disconnect"], d.data.task)

vpn_disconnect(d) ==
  IF ~d.data.on \/ ~d.exists THEN d ELSE stop_task(drop_watch(driver_disconnect(d)))

vpn_remove(d) ==
  IF ~d.data.on THEN d ELSE stop_vpn(connman_task_stop(drop_watch(d), d.data.task))

tell_died(d, was) ==
  IF was \in {"ready", "disconnect"} THEN vpn_provider_set_state(d, "idle")
                                     ELSE vpn_provider_indicate_error(d)

vpn_died(d, j) ==
  CASE ~d.data.on -> connman_task_destroy(vpn_provider_indicate_error(d), j)
    [] d.data.on /\ d.data.task # j -> connman_task_destroy(d, j)
    [] OTHER -> LET gone == [drop_watch(stop_vpn(d)) EXCEPT !.data = NoData] IN
                connman_task_destroy(unref(tell_died(gone, d.data.state)), j)

vpn_newlink(d, up) ==
  IF ~d.data.on THEN [d EXCEPT !.dead = TRUE]
  ELSE LET e == [d EXCEPT !.data.up = up] IN
       IF up /\ ~d.data.up
       THEN vpn_provider_set_state([e EXCEPT !.data.state = "ready"], "ready") ELSE e

update_provider_state(d) ==
  LET e == [d EXCEPT !.timer = FALSE] IN
  IF ~d.data.on THEN [e EXCEPT !.dead = TRUE]
  ELSE [e EXCEPT !.refs = @ + 1, !.watches = @ + 1, !.data.watch = TRUE]

------------------------------------------------------------------------------
(* What the processes tell.  why is "up", "down", "auth" (l2tp and pptp)   *)
(* or "noaddr", a report without the address it should carry.              *)

Whys(kind) == IF kind \in Ppp THEN {"up", "down", "auth", "noaddr"} ELSE {"up", "down"}

ov_notify(d, why) ==
  IF why = "up" THEN [d |-> connect_done(d, d.plug, "none"), state |-> "connect"]
                ELSE [d |-> connect_done(d, d.plug, "EIO"), state |-> "disconnect"]

\* A "disconnect" of openconnect leaves the Connect call open.
oc_notify(d, why) ==
  IF why = "up" THEN [d |-> connect_done(d, d.plug, "none"), state |-> "connect"]
                ELSE [d |-> d, state |-> "disconnect"]

vc_notify(d, why) ==
  IF why = "up" THEN [d |-> connect_done(d, d.plug, "none"), state |-> "connect"]
                ELSE [d |-> connect_done(d, d.plug, "EIO"), state |-> "disconnect"]

l2tp_notify(d, why) ==
  CASE why = "up" -> IF d.data.on
                     THEN [d |-> connect_done(d, d.plug, "none"), state |-> "connect"]
                     ELSE [d |-> d, state |-> "failure"]
    [] why = "down" -> [d |-> connman_task_stop(connect_done(d, d.plug, "EIO"), d.plug),
                        state |-> "disconnect"]
    [] why = "auth" -> [d |-> connect_done(d, d.plug, "EACCES"), state |-> "auth"]
    [] OTHER -> [d |-> d, state |-> "failure"]

pptp_notify(d, why) == l2tp_notify(d, why)

driver_notify(d, why) == CASE d.kind = "openvpn" -> ov_notify(d, why)
                           [] d.kind = "openconnect" -> oc_notify(d, why)
                           [] d.kind = "vpnc" -> vc_notify(d, why)
                           [] d.kind = "l2tp" -> l2tp_notify(d, why)
                           [] OTHER -> pptp_notify(d, why)

\* was: the interface was up already, so that no link event follows.
tell_connected(d, was) ==
  CASE ~d.data.on -> [d EXCEPT !.dead = TRUE]
    [] d.data.on /\ d.data.state = "ready" ->
         vpn_provider_set_state(vpn_provider_set_state(d, "connect"), "ready")
    [] OTHER ->
         LET watching == [d EXCEPT !.refs = @ + 1, !.watches = @ + 1, !.data.watch = TRUE] IN
         IF was THEN vpn_newlink([watching EXCEPT !.data.up = FALSE], TRUE) ELSE watching

tell_notified(n, was) ==
  CASE n.state = "connect" -> tell_connected(n.d, was)
    [] n.state = "auth" -> vpn_provider_indicate_error(n.d)
    [] OTHER -> vpn_provider_set_state(n.d, "disconnect")

vpn_notify(d, why, was) ==
  IF d.exists THEN tell_notified(driver_notify(d, why), was) ELSE vpn_provider_set_state(d, "failure")

\* The drivers' *_died: openvpn and openconnect first withdraw what they asked.
ov_died(d, j) == free_private_data(vpn_died(connman_agent_cancel(d), j), j)
vc_died(d, j) == free_private_data(vpn_died(d, j), j)
l2tp_died(d, j) == free_private_data(vpn_died(d, j), j)

driver_died(d, j) == CASE d.kind \in {"openvpn", "openconnect"} -> ov_died(d, j)
                       [] d.kind = "vpnc" -> vc_died(d, j)
                       [] OTHER -> l2tp_died(d, j)
------------------------------------------------------------------------------
(* What the agent answers: "ok" (the credentials, and what follows is how  *)
(* run_connect or the cookie thread starts), "missing" (not all of them),  *)
(* "nodict" (no dictionary), or one of the errors.                         *)

AgentErrors == {"ECANCELED", "ETIMEDOUT", "ENOMSG", "EACCES"}
Answers == {"ok", "missing", "nodict"} \cup AgentErrors

answered(d, j) == [d EXCEPT !.jobs[j].ask = FALSE]
refused(d, j, err) == vpn_agent_check_and_process_reply_error(answered(d, j), j, err)

\* request_input_credentials_reply and request_input_private_key_reply of openvpn.
ov_reply(d, j, r) ==
  CASE r = "ok" -> answered(d, j)
    [] r = "missing" -> connect_done(vpn_provider_indicate_error(answered(d, j)), j, "EACCES")
    [] r = "nodict" -> connect_done(answered(d, j), j, "ENOENT")
    [] OTHER -> refused(d, j, r)

\* openconnect, asked before the cookie thread or the process was started.
oc_reply(d, j, r, how) ==
  LET e == answered(d, j) IN
  CASE r = "ok" /\ how = "run" -> oc_run_connect(e, j, how).d
    [] r = "ok" /\ how = "thread" -> authenticate(e, j).d
    [] r = "ok" /\ how = "norun" -> free_private_data(connect_done(e, j, "EIO"), j)
    [] r = "missing" -> free_private_data(connect_done(e, j, "EACCES"), j)
    [] r = "nodict" -> free_private_data(connect_done(e, j, "ENOENT"), j)
    [] OTHER -> free_private_data(refused(d, j, r), j)

\* openconnect, asked by the cookie thread for the password of its key.
request_input_pkcs_reply(d, j, r) ==
  CASE r \in {"ok", "missing"} -> answered(d, j)
    [] r = "nodict" -> [answered(d, j) EXCEPT !.jobs[j].thr = "ENOENT"]
    [] OTHER -> refused(d, j, r)

vc_reply(d, j, r, how) ==
  LET e == answered(d, j) IN
  CASE r = "ok" /\ how = "run" -> vc_run_connect(e, j, how).d
    [] r = "ok" /\ how # "run" -> connect_done(e, j, "EIO")
    [] r = "missing" -> connect_done(vpn_provider_indicate_error(e), j, "EACCES")
    [] r = "nodict" -> connect_done(e, j, "ENOENT")
    [] OTHER -> refused(d, j, r)

\* request_input_reply of l2tp.c and of pptp.c: run_connect refuses to start
\* without a user name.
l2tp_reply(d, j, r, how) ==
  LET e == answered(d, j) IN
  CASE r = "ok" -> l2tp_run_connect(e, j, how).d
    [] r \in {"missing", "nodict"} -> connect_done(e, j, "EINVAL")
    [] OTHER -> refused(d, j, r)

pptp_reply(d, j, r, how) == l2tp_reply(d, j, r, how)

agent_reply(d, j, r, how) ==
  CASE d.kind = "openvpn" -> ov_reply(d, j, r)
    [] d.kind = "openconnect" -> IF d.jobs[j].thr # "none" THEN request_input_pkcs_reply(d, j, r)
                                 ELSE oc_reply(d, j, r, how)
    [] d.kind = "vpnc" -> vc_reply(d, j, r, how)
    [] d.kind = "l2tp" -> l2tp_reply(d, j, r, how)
    [] OTHER -> pptp_reply(d, j, r, how)

\* openvpn's management interface asks for credentials; without an agent the
\* interface is closed and the process keeps waiting for them.
ov_management_handle_input(d, j, agent) ==
  IF agent THEN [d EXCEPT !.jobs[j].ask = TRUE] ELSE d

\* The cookie thread asks for the password of the key.
process_auth_form(d, j) == [d EXCEPT !.jobs[j].ask = TRUE]

\* The cookie thread has ended, with a cookie or without.
authenticated(d, j, how) ==
  LET e == [d EXCEPT !.jobs[j].thr = "none"] IN
  IF how = "run" THEN oc_run_connect(e, j, how).d
  ELSE free_private_data(
         connect_done(e, j, IF d.jobs[j].thr = "on" THEN "EPERM" ELSE d.jobs[j].thr), j)

\* Lines the processes write to their error output.
io_channel_err_cb(d, j, err) == connect_done(d, j, err)
io_channel_cb(d) == vpn_provider_indicate_error(d)

------------------------------------------------------------------------------
(* The D-Bus interface of the provider.                                    *)

connecting(r) ==
  IF r.err = "EINPROGRESS" THEN [r EXCEPT !.d = vpn_provider_set_state(r.d, "connect")] ELSE r

vpn_provider_connect(d, id, how, j) ==
  CASE d.st = "failure" ->
         [d |-> reply(vpn_provider_set_state(vpn_set_state(d, "idle"), "idle"), id, "EINPROGRESS"),
          err |-> "EINPROGRESS"]
    [] d.st = "disconnect" -> [d |-> reply(d, id, "EINPROGRESS"), err |-> "EINPROGRESS"]
    [] OTHER -> connecting(vpn_connect(d, id, how, j))

\* do_connect_timeout_free: whatever became of the call, it is answered again.
answered_later(r, id) == reply(r.d, id, IF r.err = "EINPROGRESS" THEN "aborted" ELSE r.err)

do_connect_timeout_function(d, how, j) ==
  IF ~d.online THEN d
  ELSE answered_later(vpn_provider_connect([d EXCEPT !.later = 0], d.later, how, j), d.later)

drop_later(d) == IF d.later # 0 THEN [reply(d, d.later, "aborted") EXCEPT !.later = 0] ELSE d

do_connect_later(d, id) == [drop_later(d) EXCEPT !.later = id]

answered_connect(r, id) == IF r.err = "EINPROGRESS" THEN r.d ELSE reply(r.d, id, r.err)

do_connect(d, id, how, j) ==
  CASE ~d.online /\ d.queried -> reply(d, id, "ENOLINK")
    [] ~d.online /\ ~d.queried -> do_connect_later(d, id)
    [] OTHER -> answered_connect(vpn_provider_connect(drop_later(d), id, how, j), id)

do_disconnect(d, id) == reply(vpn_disconnect(d), id, "none")

\* __vpn_provider_remove and __vpn_provider_delete.  The message the timer of
\* do_connect_later keeps is answered when the provider is destroyed.
vpn_provider_delete(d) ==
  LET e == vpn_remove(emit(d, [k |-> "Removed", id |-> 0, v |-> "none"])) IN
  unref([e EXCEPT !.exists = FALSE])

provider_destruct(d) == IF d.refs > 0 THEN d ELSE drop_later(d)

Added(d) == [k |-> "Added", id |-> 0, v |-> StateString(d.st)]

\* At startup: the stored providers, __vpn_provider_create_from_keyfile.
provider_create_from_keyfile(d) ==
  LET e == [d EXCEPT !.exists = TRUE, !.refs = 1] IN emit(e, Added(e))

\* append_connection_structs: every provider with its properties.
vpn_provider_get_connections(d, id) ==
  [d EXCEPT !.out = Append(@, [k |-> "Connections", id |-> id,
                               v |-> IF d.exists THEN StateString(d.st) ELSE "none"])]

\* connman_property_changed and get_connman_state_reply.
connman_property_changed(d, on) == [d EXCEPT !.online = on]
get_connman_state_reply(d, on) == [d EXCEPT !.online = on, !.queried = TRUE]
=============================================================================

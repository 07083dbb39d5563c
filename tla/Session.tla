---------------------------- MODULE Session ----------------------------
(***************************************************************************)
(* Sessions (src/session.c): an application asks for a session, the        *)
(* session is assigned to a connected service its bearers allow, and the   *)
(* kernel gets a routing table, a mark and a source address translation    *)
(* for it.  The translations are shared by the sessions of one address.    *)
(*                                                                         *)
(* A session is a slot of Sessions; a service has its own interface.  The  *)
(* hash table of services is walked in an order nobody promises: o is that *)
(* order, chosen anew for every event.  Services come and go on their own, *)
(* or are disconnected by the last active session that leaves their type   *)
(* (service.c).  A policy plugin gives each session one of configs.        *)
(*                                                                         *)
(* A scenario says how far the applications, the policies and the services *)
(* go: sessions, configs (what a policy may say: [id, ecall, type,         *)
(* bearers]), bearers, types and ifaces (what an application may ask for), *)
(* srcips and addresses (0 is none).                                       *)
(*                                                                         *)
(* A session that was freed may still be in the list of a service it was   *)
(* moved away from, and be ecall_session: it is there as Freed.  When it   *)
(* is read what the program does is undefined, and not followed.           *)
(***************************************************************************)
EXTENDS Integers, Sequences, FiniteSets, SequencesExt, TLC, FiniteSetsExt

CONSTANTS
    Sessions, Services,
    TypeOf,        \* the type of each service: its bearer
    Scenarios,     \* see below
    MaxListed      \* bounds how often a service lists its sessions

VARIABLE s

None == "none"
Freed == "freed"

NoSession == [there |-> FALSE, config |-> None, active |-> FALSE, ecall |-> FALSE,
              wanted |-> <<>>, bearers |-> <<>>, iface |-> None, type |-> "any",
              srcip |-> FALSE, service |-> None, state |-> "disconnected",
              all |-> FALSE, lastState |-> "disconnected", lastService |-> None,
              index |-> None, addr |-> 0, snat |-> FALSE,
              left |-> FALSE]   \* a policy change left the rules of the old service

BearerTypes == {TypeOf[v] : v \in Services}

Down == [state |-> "idle", addr |-> 0, reason |-> "none"]

Init ==
    \E sc \in Scenarios :
    s = [sc |-> sc, svc |-> [v \in Services |-> Down],
         known |-> {},                              \* the keys of service_hash
         listed |-> [v \in Services |-> <<>>],      \* info->sessions
         undefined |-> FALSE,                       \* a freed session was read
         ses |-> [x \in Sessions |-> NoSession],
         ecall |-> None,                            \* ecall_session
         count |-> 0, active |-> [b \in BearerTypes |-> 0],
         mark |-> [x \in Sessions |-> {}], rule |-> {},
         table |-> [x \in Sessions |-> {}],
         fw_snat |-> [k \in {} |-> {}],
         app |-> [x \in Sessions |-> [state |-> "disconnected", service |-> None]]]

-----------------------------------------------------------------------------
(* What an application is told *)

compute_notifiable_changes(e) ==
    \/ e.all
    \/ e.state # e.lastState
    \/ e.service # e.lastService /\ e.state # "disconnected"

\* The settings that changed go to the application and are remembered as sent.
append_notify(t, x) ==
    [t EXCEPT !.app[x] = [state |-> t.ses[x].state, service |-> t.ses[x].service],
              !.ses[x].lastState = t.ses[x].state,
              !.ses[x].lastService = t.ses[x].service,
              !.ses[x].all = FALSE]

\* Faulty variant: a session that moves to another service is not told so.
session_notify_StateOnly(t, x) ==
    IF ~(t.ses[x].all \/ t.ses[x].state # t.ses[x].lastState) THEN t
    ELSE append_notify(t, x)

session_notify(t, x) ==
    IF ~compute_notifiable_changes(t.ses[x]) THEN t
    ELSE append_notify(t, x)

-----------------------------------------------------------------------------
(* The rules of a session in the kernel *)

Identified(e) == e.config.id # "unknown"

cleanup_firewall_session(t, x) == [t EXCEPT !.mark[x] = {}]

init_firewall_session(t, x) ==
    LET e == t.ses[x]
        own == IF Identified(e) THEN {<<"id", 0>>} ELSE {}
        source == IF e.srcip /\ e.service # None /\ t.svc[e.service].addr # 0
                  THEN {<<"source", t.svc[e.service].addr>>} ELSE {}
    IN  [t EXCEPT !.mark[x] = own \cup source]

cleanup_routing_table(t, x) ==
    [t EXCEPT !.rule = @ \ {x}, !.table[x] = {}, !.ses[x].index = None]

init_routing_table(t, x) ==
    IF (~Identified(t.ses[x]) /\ ~t.ses[x].srcip) \/ t.ses[x].service = None THEN t
    ELSE [t EXCEPT !.rule = @ \cup {x}]

add_default_route(t, x) ==
    LET v == t.ses[x].service
    IN  IF v = None THEN t
        ELSE [t EXCEPT !.ses[x].index = v, !.table[x] = {<<v, t.svc[v].addr>>}]

update_routing_table(t, x) ==
    add_default_route(init_routing_table(cleanup_routing_table(t, x), x), x)

fw_snat_unref(t, x, k) ==
    IF t.fw_snat[k] = {x}
    THEN [t EXCEPT !.fw_snat = [j \in DOMAIN @ \ {k} |-> @[j]]]
    ELSE [t EXCEPT !.fw_snat[k] = @ \ {x}]

\* Faulty variant: the translation is looked up after the address changed.
del_nat_rules_NewAddress(t, x) ==
    LET e == t.ses[x]
        k == <<e.index, IF e.service = None THEN e.addr ELSE t.svc[e.service].addr>>
        u == [t EXCEPT !.ses[x].snat = FALSE]
    IN  IF ~e.snat THEN t
        ELSE IF k \notin DOMAIN t.fw_snat THEN u
        ELSE fw_snat_unref(u, x, k)

del_nat_rules(t, x) ==
    LET e == t.ses[x]
        k == <<e.index, e.addr>>
        u == [t EXCEPT !.ses[x].snat = FALSE]
    IN  IF ~e.snat THEN t
        ELSE IF k \notin DOMAIN t.fw_snat THEN u
        ELSE fw_snat_unref(u, x, k)

add_nat_rules(t, x) ==
    LET v == t.ses[x].service
        k == <<v, t.svc[v].addr>>
        users == IF k \in DOMAIN t.fw_snat THEN t.fw_snat[k] ELSE {}
    IN  IF v = None THEN t
        ELSE IF t.svc[v].addr = 0 THEN t
        ELSE [t EXCEPT !.ses[x].addr = k[2], !.ses[x].snat = TRUE,
                       !.fw_snat = (k :> users \cup {x}) @@ @]

service_to_session_state(state) ==
    CASE state = "ready" -> "connected"
      [] state = "online" -> "online"
      [] OTHER -> "disconnected"

state_of(t, v) == IF v = None THEN "disconnected" ELSE service_to_session_state(t.svc[v].state)

update_rules(t, x) ==
    add_nat_rules(update_routing_table(del_nat_rules(
        init_firewall_session(cleanup_firewall_session(t, x), x), x), x), x)

update_session_state(t, x) ==
    session_notify(update_rules([t EXCEPT !.ses[x].left = FALSE,
                                          !.ses[x].state = state_of(t, t.ses[x].service)], x), x)

-----------------------------------------------------------------------------
(* Which service a session is assigned to *)

is_session_connected(e, state) ==
    state = "online" \/ (state = "ready" /\ e.type # "internet")

\* The bearers are tried in order: the one of the current service ends the search.
session_match_service(e, v) ==
    LET current == IF e.service = None THEN None ELSE TypeOf[e.service]
    IN  /\ \E i \in 1..Len(e.bearers) :
              /\ e.bearers[i] = TypeOf[v]
              /\ \A j \in 1..i : e.bearers[j] # current
        /\ e.iface \in {None, "*", v}

assign(t, x, v) ==
    update_session_state([t EXCEPT !.listed[v] = <<x>> \o @, !.ses[x].service = v], x)

assign_first(t, x, fit) == IF fit = <<>> THEN session_notify(t, x) ELSE assign(t, x, fit[1])

session_activate(t, x, o) ==
    assign_first(t, x, SelectSeq(o, LAMBDA v : /\ v \in t.known
                                               /\ is_session_connected(t.ses[x], t.svc[v].state)
                                               /\ session_match_service(t.ses[x], v)))

session_deactivate(t, x) ==
    LET v == t.ses[x].service
    IN  IF v = None \/ v \notin t.known THEN t
        ELSE [t EXCEPT !.listed[v] = RemoveFirst(@, x),
                       !.ses[x].service = None, !.ses[x].state = "disconnected"]

\* One session of the list of a service that is no longer connected.
drop(t, x, v, o) ==
    IF x = Freed THEN [t EXCEPT !.undefined = TRUE]
    ELSE IF t.ses[x].service # v THEN t
    ELSE session_activate(update_session_state([t EXCEPT !.ses[x].service = None], x), x, o)

handle_service_state_offline(t, v, o) ==
    FoldLeft(LAMBDA u, x : drop(u, x, v, o), t, t.listed[v])

\* One session when a service is ready or online.
offer(t, x, v) ==
    LET connected == is_session_connected(t.ses[x], t.svc[v].state)
    IN  IF ~t.ses[x].there THEN t
        ELSE IF t.ses[x].service = v
        THEN IF connected THEN t
             ELSE update_session_state([t EXCEPT !.listed[v] = RemoveFirst(@, x),
                                                 !.ses[x].service = None], x)
        ELSE IF connected /\ session_match_service(t.ses[x], v) THEN assign(t, x, v)
        ELSE t

handle_service_state_online(t, v) ==
    FoldLeft(LAMBDA u, x : offer(u, x, v), t, SetToSeq(Sessions))

service_state_changed(t, v, o) ==
    IF t.svc[v].state \in {"ready", "online"}
    THEN handle_service_state_online([t EXCEPT !.known = @ \cup {v}], v)
    ELSE IF v \notin t.known THEN t
    ELSE [handle_service_state_offline(t, v, o) EXCEPT
             !.known = @ \ {v}, !.listed[v] = <<>>]

-----------------------------------------------------------------------------
(* Active sessions, counted per bearer (service.c) *)

disconnect_first(t, fit, o) ==
    IF fit = <<>> THEN t ELSE service_state_changed([t EXCEPT !.svc[fit[1]] = Down], fit[1], o)

disconnect_on_last_session(t, b, o) ==
    disconnect_first(t, SelectSeq(o, LAMBDA v : TypeOf[v] = b /\ t.svc[v].reason = "session"), o)

if_last(t, b, o) == IF t.active[b] = 0 THEN disconnect_on_last_session(t, b, o) ELSE t

count_bearer(t, b, d, o) == if_last([t EXCEPT !.active[b] = @ + d], b, o)

count_bearers(t, list, d, o) ==
    FoldLeft(LAMBDA u, b : count_bearer(u, b, d, o), [t EXCEPT !.count = @ + d], list)

\* Faulty variant: a session without bearers is counted when it leaves.
set_active_session_Empty(t, x, enable, o) ==
    IF t.ses[x].bearers = <<>> /\ enable THEN t
    ELSE count_bearers(t, t.ses[x].bearers, IF enable THEN 1 ELSE -1, o)

set_active_session(t, x, enable, o) ==
    IF t.ses[x].bearers = <<>> THEN t
    ELSE count_bearers(t, t.ses[x].bearers, IF enable THEN 1 ELSE -1, o)

\* The session gives up its claim and its service, before its settings change.
deactivate(t, x, o) == IF t.ses[x].active THEN set_active_session(t, x, FALSE, o) ELSE t
withdraw(t, x, o) == session_deactivate([deactivate(t, x, o) EXCEPT !.ses[x].active = FALSE], x)

apply_policy_on_bearers(policy, bearers) ==
    SelectSeq(policy, LAMBDA b : \E i \in 1..Len(bearers) : bearers[i] = b)

apply_policy_on_type(policy, type) ==
    CASE type = "unknown" -> "unknown"
      [] policy = "any" /\ type # "unknown" -> type
      [] policy = "local" /\ type # "unknown" -> "local"
      [] OTHER -> "internet"


(* The methods of a session *)

Orders == SetToSeqs(Services)

\* A behaviour ends with the read of a freed session, in the state before it.
Becomes(t) ==
    /\ \A v \in Services : Len(t.listed[v]) <= MaxListed
    /\ s' = IF t.undefined THEN [s EXCEPT !.undefined = TRUE] ELSE t

\* The methods read ecall_session, which may have been freed.
refused(x) == \E y \in Sessions \cap {s.ecall} : s.ses[y].ecall /\ y # x
Reading(t) == [t EXCEPT !.undefined = @ \/ s.ecall = Freed]

\* What the application asks for, before the policy has its say.
session_create(want, type, ip) ==
    [NoSession EXCEPT !.there = TRUE, !.srcip = ip, !.type = type, !.wanted = want, !.bearers = want]

\* The policy's answer to CreateSession: session_policy_config_cb.
CreateSession ==
    \E x \in s.sc.sessions, c \in s.sc.configs, want \in s.sc.bearers,
       type \in s.sc.types, ip \in s.sc.srcips, o \in Orders :
        /\ ~s.ses[x].there
        /\ ~refused(None)
        /\ LET e == [session_create(want, type, ip) EXCEPT !.config = c, !.all = TRUE,
                          !.type = apply_policy_on_type(c.type, @),
                          !.bearers = apply_policy_on_bearers(c.bearers, @)]
               a == [s EXCEPT !.ses[x] = e, !.ecall = IF c.ecall THEN x ELSE @]
           IN  Becomes(Reading(session_activate(init_firewall_session(a, x), x, o)))

claim(t, x, o) ==
    IF t.ses[x].active THEN t ELSE set_active_session([t EXCEPT !.ses[x].active = TRUE], x, TRUE, o)

Connect ==
    \E x \in Sessions, o \in Orders :
        /\ s.ses[x].there
        /\ ~refused(x)
        /\ \E u \in {claim([s EXCEPT !.ses[x].ecall = s.ecall # None \/ @], x, o)} :
              Becomes(Reading(session_activate(u, x, o)))

disclaim(t, x, o) ==
    IF ~t.ses[x].active THEN t ELSE set_active_session([t EXCEPT !.ses[x].active = FALSE], x, FALSE, o)

Disconnect ==
    \E x \in Sessions, o \in Orders :
        /\ s.ses[x].there
        /\ ~refused(x)
        /\ \E u \in {disclaim([s EXCEPT !.ses[x].ecall = s.ecall = None /\ @], x, o)} :
              Becomes(Reading(update_session_state(session_deactivate(u, x), x)))

rejoin(t, x, o) == session_notify(session_activate(t, x, o), x)

ChangeBearers ==
    \E x \in Sessions, want \in s.sc.bearers, o \in Orders :
        /\ s.ses[x].there
        /\ \E u \in {withdraw(s, x, o)} :
              Becomes(rejoin([update_session_state(u, x) EXCEPT !.ses[x].wanted = want,
                  !.ses[x].bearers = apply_policy_on_bearers(s.ses[x].config.bearers, want)], x, o))

ChangeInterface ==
    \E x \in Sessions, iface \in s.sc.ifaces, o \in Orders :
        /\ s.ses[x].there
        /\ \E u \in {withdraw(s, x, o)} :
              Becomes(rejoin([update_session_state(u, x) EXCEPT !.ses[x].iface = iface], x, o))

\* The type is kept, the assignment is not looked at again.
ChangeType ==
    \E x \in Sessions, type \in s.sc.types :
        /\ s.ses[x].there
        /\ Becomes(session_notify([s EXCEPT !.ses[x].type =
                        apply_policy_on_type(s.ses[x].config.type, type)], x))

ChangeSourceIPRule ==
    \E x \in Sessions, ip \in s.sc.srcips :
        /\ s.ses[x].there
        /\ Becomes(session_notify(update_session_state([s EXCEPT !.ses[x].srcip = ip], x), x))

\* What still refers to the session refers to freed memory from now on.
free_session(t, x) ==
    [t EXCEPT !.ses[x] = NoSession,
              !.ecall = IF @ = x THEN Freed ELSE @,
              !.listed = [v \in Services |-> ReplaceAll(@[v], x, Freed)]]

cleanup_session(x, o) ==
    \E t \in {deactivate(cleanup_firewall_session(cleanup_routing_table(del_nat_rules(s, x), x), x), x, o)} :
        Becomes(free_session(update_session_state(session_deactivate(t, x), x), x))

\* Destroy by its owner, or the owner leaves the bus.
DestroySession ==
    \E x \in Sessions, o \in Orders :
        /\ s.ses[x].there
        /\ s.ecall \in {None, x}
        /\ cleanup_session(x, o)

OwnerGone ==
    \E x \in Sessions, o \in Orders :
        /\ s.ses[x].there
        /\ cleanup_session(x, o)

identify(t, x, same) ==
    IF same THEN t ELSE init_firewall_session(cleanup_firewall_session(t, x), x)

\* connman_session_config_update: the policy gives the session another config.
PolicyChanged ==
    \E x \in Sessions, c \in s.sc.configs, o \in Orders :
        /\ s.ses[x].there
        /\ c # s.ses[x].config
        /\ LET b == identify([s EXCEPT !.ses[x].config = c], x, c.id = s.ses[x].config.id)
           IN  Becomes(session_notify([session_activate([withdraw(b, x, o) EXCEPT
                        !.ses[x].left = TRUE,
                        !.ses[x].bearers = apply_policy_on_bearers(c.bearers, s.ses[x].wanted)], x, o)
                   EXCEPT !.ses[x].type = apply_policy_on_type(c.type, @),
                          !.ecall = IF c.ecall THEN x ELSE @], x))

-----------------------------------------------------------------------------
(* Services come, go and change their address *)

ServiceUp ==
    \E v \in Services, addr \in s.sc.addresses, reason \in {"user", "session"}, o \in Orders :
        /\ s.svc[v].state = "idle"
        /\ reason = "session" => s.count > 0
        /\ Becomes(service_state_changed(
               [s EXCEPT !.svc[v] = [state |-> "ready", addr |-> addr, reason |-> reason]], v, o))

ServiceOnline ==
    \E v \in Services, state \in {"ready", "online"}, o \in Orders :
        /\ s.svc[v].state \in {"ready", "online"} \ {state}
        /\ Becomes(service_state_changed([s EXCEPT !.svc[v].state = state], v, o))

ServiceDown ==
    \E v \in Services, o \in Orders :
        /\ s.svc[v].state # "idle"
        /\ Becomes(service_state_changed([s EXCEPT !.svc[v] = Down], v, o))

ipconfig_changed(t, v) ==
    FoldLeft(LAMBDA u, x : IF u.ses[x].there /\ u.ses[x].state # "disconnected" /\ u.ses[x].service = v
                           THEN update_session_state(u, x) ELSE u,
             t, SetToSeq(Sessions))

AddressChanged ==
    \E v \in Services, addr \in s.sc.addresses :
        /\ s.svc[v].state # "idle"
        /\ addr # s.svc[v].addr
        /\ Becomes(ipconfig_changed([s EXCEPT !.svc[v].addr = addr], v))

Next ==
    /\ ~s.undefined
    /\ \/ CreateSession \/ Connect \/ Disconnect
       \/ ChangeBearers \/ ChangeInterface \/ ChangeType \/ ChangeSourceIPRule
       \/ DestroySession \/ OwnerGone \/ PolicyChanged
       \/ ServiceUp \/ ServiceOnline \/ ServiceDown \/ AddressChanged

Spec == Init /\ [][Next]_s

-----------------------------------------------------------------------------
(* Properties *)

\* Every session knows a service that is up, and its application was last told
\* exactly the state and the service the session has (session_notify compares
\* with what was sent before).
AppTold ==
    \A x \in Sessions : s.ses[x].there =>
        /\ s.ses[x].service # None => s.ses[x].service \in s.known
        /\ s.app[x] = [state |-> s.ses[x].state, service |-> s.ses[x].service]

\* The kernel has the rules of the living sessions and no others: a routing
\* table to the service of the session with its present address, rules only for
\* sessions that ask for them, and one translation per address, in force while
\* some session uses it.  A change of policy is the exception: it takes the
\* service away without update_session_state.
RulesFollow ==
    /\ \A x \in Sessions : s.ses[x].left \/
         LET v == s.ses[x].service
         IN  /\ s.table[x] = (IF v = None THEN {} ELSE {<<v, s.svc[v].addr>>})
             /\ x \in s.rule => v # None
             /\ {m[2] : m \in s.mark[x]} \ {0} =
                    (IF v = None THEN {} ELSE IF s.ses[x].srcip THEN {s.svc[v].addr} \ {0} ELSE {})
    /\ \A k \in DOMAIN s.fw_snat :
         s.fw_snat[k] = {x \in Sessions : s.table[x] = {k}} /\ s.fw_snat[k] # {}
    /\ \A x \in Sessions, v \in Services :
         s.ses[x].service = v /\ s.svc[v].addr # 0 => <<v, s.svc[v].addr>> \in DOMAIN s.fw_snat

\* The service layer counts the sessions that are active and the bearers they allow.
ActiveCounted ==
    /\ s.count = Cardinality({x \in Sessions : s.ses[x].active /\ s.ses[x].bearers # <<>>})
    /\ \A b \in BearerTypes :
         s.active[b] = Cardinality({x \in Sessions : s.ses[x].active /\ Contains(s.ses[x].bearers, b)})

-----------------------------------------------------------------------------
(***************************************************************************)
(* The local session policies (plugins/session_policy_local.c): files of   *)
(* groups, each for a SELinux type, a user or a group of users, give the   *)
(* sessions of the applications they name a configuration.  Files come, go *)
(* and change while sessions live; a new session is identified by two      *)
(* calls to the bus, for its user and for its SELinux context.             *)
(*                                                                         *)
(* A group is <<file, i>>, the i-th group of a loaded file; a key is       *)
(* <<"selinux" | "uid" | "gid", name>>.  A scenario gives the sessions     *)
(* that may come (their keys) and what may be written to each file.        *)
(***************************************************************************)

CONSTANTS
    PolicySessions, Files,
    Policies      \* [who: session -> [selinux, uid, gids], texts: file -> set of texts]

NoKey == <<None, None>>
Default == "default"

\* A text is a sequence of groups [key, config]; a group without key is invalid.
NoPolicy == [step |-> None, selinux |-> NoKey, uid |-> NoKey, gids |-> <<>>,
             group |-> <<>>, config |-> Default, id |-> "unknown"]

PolicyInit ==
    \E sc \in Policies :
      s = [sc |-> sc,
           loaded |-> {},                             \* file_hash
           file |-> [f \in Files |-> <<>>],           \* the text that was loaded
           hash |-> [k \in {} |-> <<>>],              \* selinux_hash, uid_hash and gid_hash
           of |-> [g \in {} |-> {}],                  \* group->sessions
           pol |-> [x \in Sessions |-> NoPolicy],
           crashed |-> FALSE]

Lookup(t, k) == IF k \in DOMAIN t.hash THEN t.hash[k] ELSE <<>>

ConfigOf(t, g) == t.file[g[1]][g[2]].config

-----------------------------------------------------------------------------
(* Finding the group of a session *)

set_policy(t, x, g, id) ==
    [t EXCEPT !.of[g] = @ \cup {x}, !.pol[x].group = g,
              !.pol[x].config = ConfigOf(t, g), !.pol[x].id = id]

FirstGid(t, p) ==
    LET fit == SelectSeq(p.gids, LAMBDA k : Lookup(t, k) # <<>>)
    IN  IF fit = <<>> THEN <<>> ELSE Lookup(t, fit[1])

cleanup_config(t, x) ==
    LET g == t.pol[x].group
        u == [t EXCEPT !.pol[x] = NoPolicy]
    IN  IF g = <<>> THEN u ELSE [u EXCEPT !.of[g] = @ \ {x}]

\* The firewall has no marks for SELinux types: such a session is not created.
finish_create(t, x) ==
    LET p == t.pol[x]
        byUser == Lookup(t, p.uid)
        byGroup == FirstGid(t, p)
        u == [t EXCEPT !.pol[x].step = "live"]
    IN  CASE Lookup(t, p.selinux) # <<>> -> cleanup_config(set_policy(u, x, Lookup(t, p.selinux), "lsm"), x)
          [] Lookup(t, p.selinux) = <<>> /\ byUser # <<>> -> set_policy(u, x, byUser, "uid")
          [] Lookup(t, p.selinux) = <<>> /\ byUser = <<>> /\ byGroup # <<>> -> set_policy(u, x, byGroup, "gid")
          [] OTHER -> u

\* The session is told that it has no configuration, and its clean-up in session.c
\* reads the one it does not have.
failed_create(t) == [t EXCEPT !.crashed = TRUE]

-----------------------------------------------------------------------------
(* Files *)

set_default_config(p) == [p EXCEPT !.group = <<>>, !.config = Default, !.id = "unknown"]

\* Faulty variant: the sessions of a group keep what it said.
cleanup_group_KeepConfig(t, g) ==
    [t EXCEPT !.pol = [x \in Sessions |-> IF x \in t.of[g] THEN [@[x] EXCEPT !.group = <<>>] ELSE @[x]],
              !.hash = [k \in DOMAIN @ \ {t.file[g[1]][g[2]].key} |-> @[k]],
              !.of = [h \in DOMAIN @ \ {g} |-> @[h]]]

cleanup_group(t, g) ==
    [t EXCEPT !.pol = [x \in Sessions |-> IF x \in t.of[g] THEN set_default_config(@[x]) ELSE @[x]],
              !.hash = [k \in DOMAIN @ \ {t.file[g[1]][g[2]].key} |-> @[k]],
              !.of = [h \in DOMAIN @ \ {g} |-> @[h]]]

cleanup_file(t, f) ==
    [FoldLeft(cleanup_group, t, [i \in 1..Len(t.file[f]) |-> <<f, i>>]) EXCEPT
        !.file[f] = <<>>, !.loaded = @ \ {f}]

load_policy(text, i) == text[i].key # NoKey

\* Either every group of the file is entered or none stays.
load_file(t, f, text) ==
    LET good == \A i \in 1..Len(text) : load_policy(text, i)
        keys == [i \in 1..Len(text) |-> text[i].key]
        new == [k \in Range(keys) |-> <<f, Max({i \in 1..Len(text) : keys[i] = k})>>]
        broken == {keys[i] : i \in {j \in 1..Len(text) : \A n \in 1..j : load_policy(text, n)}}
    IN  IF good
        THEN [t EXCEPT !.file[f] = text, !.loaded = @ \cup {f}, !.hash = new @@ @,
                       !.of = [i \in {<<f, j>> : j \in 1..Len(text)} |-> {}] @@ @]
        ELSE [t EXCEPT !.hash = [k \in DOMAIN @ \ broken |-> @[k]]]

\* A session without a group is looked up again.  One without a SELinux type takes
\* the group the session before it ended with (c.group) for a match by type; a match
\* by type changes the mark only, which fails: the session is destroyed.
recheck_session(c, x) ==
    LET t == c.t
        p == t.pol[x]
        byType == IF p.selinux = NoKey THEN c.group ELSE Lookup(t, p.selinux)
        byUser == Lookup(t, p.uid)
        byGroups == SelectSeq(p.gids, LAMBDA k : Lookup(t, k) # <<>>)
        last == IF p.gids = <<>> THEN <<>> ELSE Lookup(t, Last(p.gids))
    IN  IF p.step # "live" \/ p.group # <<>> THEN c
        ELSE IF byType # <<>> THEN [t |-> cleanup_config(t, x), group |-> byType]
        ELSE IF byUser # <<>> THEN [t |-> set_policy(t, x, byUser, "uid"), group |-> byUser]
        ELSE [t |-> FoldLeft(LAMBDA u, k : set_policy(u, x, Lookup(t, k), "gid"), t, byGroups), group |-> last]

recheck_sessions(t, o) == FoldLeft(recheck_session, [t |-> t, group |-> <<>>], o).t

-----------------------------------------------------------------------------
(* Events *)

\* CreateSession: the bus is asked for the user of the application.
policy_local_create ==
    \E x \in DOMAIN s.sc.who :
        /\ s.pol[x].step = None
        /\ s' = [s EXCEPT !.pol[x].step = "user"]

\* The user and their groups are known; the SELinux context is asked for next,
\* unless the bus cannot be asked.
get_uid_reply ==
    \E x \in PolicySessions, out \in {"asked", "unasked", "failed"} :
        /\ s.pol[x].step = "user"
        /\ LET a == [s EXCEPT !.pol[x].uid = s.sc.who[x].uid, !.pol[x].gids = s.sc.who[x].gids]
           IN  s' = CASE out = "asked" -> [a EXCEPT !.pol[x].step = "context"]
                      [] out = "unasked" -> finish_create(a, x)
                      [] out = "failed" -> failed_create(s)

\* Without SELinux the reply is an input or output error.
selinux_context_reply ==
    \E x \in PolicySessions, out \in {"known", "EIO", "failed"} :
        /\ s.pol[x].step = "context"
        /\ s' = CASE out = "known" ->
                       finish_create([s EXCEPT !.pol[x].selinux = s.sc.who[x].selinux], x)
                  [] out = "EIO" -> finish_create(s, x)
                  [] out = "failed" -> failed_create(s)

policy_local_destroy ==
    \E x \in PolicySessions :
        /\ s.pol[x].step = "live"
        /\ s' = cleanup_config(s, x)

FileRemoved ==
    \E f \in Files :
        /\ f \in s.loaded
        /\ s' = cleanup_file(s, f)

\* Faulty variant: a changed file is loaded and no session looks for it.
FileWritten_NoRecheck ==
    \E f \in Files : \E text \in s.sc.texts[f] :
        s' = load_file(cleanup_file(s, f), f, text)

FileWritten ==
    \E f \in Files, o \in SetToSeqs(PolicySessions) : \E text \in s.sc.texts[f] :
        LET a == load_file(cleanup_file(s, f), f, text)
        IN  s' = IF f \notin a.loaded THEN a ELSE recheck_sessions(a, o)

PolicyNext ==
    /\ ~s.crashed
    /\ \/ policy_local_create \/ get_uid_reply \/ selinux_context_reply \/ policy_local_destroy
       \/ FileRemoved \/ FileWritten

PolicySpec == PolicyInit /\ [][PolicyNext]_s

-----------------------------------------------------------------------------
(* Properties *)

Matching(x) ==
    {g \in UNION {{<<f, i>> : i \in 1..Len(s.file[f])} : f \in s.loaded} :
        s.file[g[1]][g[2]].key \in {s.pol[x].selinux, s.pol[x].uid} \cup Range(s.pol[x].gids)}

\* Policy files can be added, removed and updated while sessions live, and the
\* sessions follow: a session has the configuration of a loaded group that names
\* its application, and the default one when no group does.  Which one of several it
\* is depends on the order in which they were written and is not claimed.
PolicyApplied ==
    \A x \in PolicySessions : s.pol[x].step = "live" =>
        /\ Matching(x) = {} => s.pol[x].config = Default
        /\ Matching(x) # {} => s.pol[x].config \in {ConfigOf(s, g) : g \in Matching(x)}

=============================================================================

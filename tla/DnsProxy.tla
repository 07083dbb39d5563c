---------------------------- MODULE DnsProxy ----------------------------
(***************************************************************************)
(* The DNS proxy and the resolver list above it: src/dnsproxy.c and        *)
(* src/resolver.c with the proxy enabled.                                  *)
(*                                                                         *)
(* The resolver keeps entries (a name server or a search domain of an      *)
(* interface, with a lifetime when it came from a router) and mirrors them *)
(* into the proxy's servers.  The proxy forwards the queries of its        *)
(* clients to every enabled server, also with the search domain appended,  *)
(* and answers with the first good reply, with the last reply of all, or   *)
(* when its timer runs out.  A query over TCP has TCP connections of its   *)
(* own made to the servers.                                                *)
(*                                                                         *)
(* Whether the cache (DnsCache) has an answer, and whether a socket works, *)
(* is chosen once per event.                                               *)
(***************************************************************************)
EXTENDS Integers, FiniteSets, Sequences, Functions, TLC, FiniteSetsExt

CONSTANTS UdpQueries, TcpQueries,   \* the queries clients make, each one once
          Indexes,                  \* interfaces that services may have
          Scenarios,                \* [queries, indexes] that happen together
          SplitRouting,             \* interfaces of split-routed VPNs
          VpnIndex,                 \* interface |-> its VPN's interface, or 0
          TcpSlots,                 \* TCP connections that may be open at once
          MaxSends                  \* bound on the sends of one request

VARIABLE s

Queries == UdpQueries \cup TcpQueries
FALLBACK == -1
NoServer == "no server"             \* the server of an entry for a domain
key(i) == <<i, IF i = FALLBACK THEN "fallback" ELSE "server">>
Keys == {key(i) : i \in Indexes \cup {FALLBACK}}
-------------------------------------------------------------------------------
(* Requests *)

NewRequest == [state |-> "new", bare |-> FALSE, numserv |-> 0, numresp |-> 0,
               resp |-> "none", append |-> FALSE, listed |-> FALSE,
               timer |-> FALSE, answers |-> 0, lost |-> FALSE]

\* The sends of one request to one server: the name as it is and, when it has
\* no dot and the server has a search domain, the name with the domain.
sends(q, domain) == IF q.bare /\ domain THEN <<"name", "alt">> ELSE <<"name">>

\* The sends that go out when the fail-th one fails (0: none does).
sent(q, domain, fail) ==
    SubSeq(sends(q, domain), 1,
           IF fail \in 1..Len(sends(q, domain)) THEN fail - 1
           ELSE Len(sends(q, domain)))

failed(q, domain, fail) == fail \in 1..Len(sends(q, domain))

ns_resolv(q, domain, fail) ==
    [q EXCEPT !.numserv = @ + Len(sent(q, domain, fail)),
              !.append = @ \/ (q.bare /\ domain /\ sent(q, domain, fail) # <<>>)]

messages(r, q, via, k, slot, domain, fail) ==
    {[query |-> r, via |-> via, key |-> k, slot |-> slot, as |-> as] :
        as \in Range(sent(q, domain, fail))}

answered(q) == [q EXCEPT !.answers = @ + 1]

destroy_request_data(q) ==
    [NewRequest EXCEPT !.state = "gone", !.answers = q.answers, !.lost = q.lost]

\* A cached answer goes to the client and the request is released.
from_cache(q) == destroy_request_data(answered(q))

lookup_request(q) == [q EXCEPT !.numresp = @ + 1]

keeps_waiting(q, rcode) ==
    /\ q.numresp < q.numserv
    /\ rcode = "error" \/ (rcode = "nodata" /\ q.append)

\* The first reply is stored, and every good one after it.
stored(q, rcode) ==
    [q EXCEPT !.resp = IF rcode # "error" \/ @ = "none" THEN rcode ELSE @]

forward_dns_reply(q, rcode) ==
    IF keeps_waiting(q, rcode) THEN stored(q, rcode)
    ELSE answered([stored(q, rcode) EXCEPT !.listed = FALSE])

\* What is done with the request after a reply: only the last reply that is
\* expected destroys it, for a send that worked returns its length, not 0.
replied(q, rcode) ==
    IF q.numresp >= q.numserv
    THEN destroy_request_data(forward_dns_reply(q, rcode))
    ELSE forward_dns_reply(q, rcode)

\* The stored reply, or a server failure, is sent however often this comes.
request_timeout(q) == destroy_request_data(answered(q))
-------------------------------------------------------------------------------
(* Servers *)

udp_servers(st) == DOMAIN st.udp
connected(st) == {n \in TcpSlots : st.tcp[n].state = "connected"}
no_servers(st) == udp_servers(st) = {} /\ connected(st) = {}

FreeSlot == [state |-> "free", key |-> key(FALLBACK), domain |-> FALSE,
             enabled |-> FALSE, stuck |-> FALSE]

\* The socket of a server is closed: replies to it are lost.
server_destroy_socket(st, k) ==
    [st EXCEPT !.net = {m \in @ : ~ (m.via = "udp" /\ m.key = k)}]

destroy_udp(st, gone) ==
    [st EXCEPT !.udp = Restrict(@, DOMAIN @ \ gone),
               !.net = {m \in @ : ~ (m.via = "udp" /\ m.key \in gone)}]

destroy_tcp(st, gone) ==
    [st EXCEPT !.tcp = [n \in TcpSlots |-> IF n \in gone THEN FreeSlot ELSE @[n]],
               !.net = {m \in @ : ~ (m.via = "tcp" /\ m.slot \in gone)}]

get_enabled_server_number(st) ==
    Cardinality({k \in udp_servers(st) : k[1] # FALLBACK /\ st.udp[k].enabled})
    + Cardinality({n \in connected(st) :
                        st.tcp[n].key[1] # FALLBACK /\ st.tcp[n].enabled})

enable_fallback(st, enable) ==
    [st EXCEPT
        !.udp = [k \in DOMAIN @ |->
            IF k[1] = FALLBACK THEN [@[k] EXCEPT !.enabled = enable] ELSE @[k]],
        !.tcp = [n \in TcpSlots |->
            IF n \in connected(st) /\ @[n].key[1] = FALLBACK
            THEN [@[n] EXCEPT !.enabled = enable] ELSE @[n]]]

serves(st, i) == i # FALLBACK /\ (i = st.default \/ i \in SplitRouting)

create_server(st, i) ==
    [(IF serves(st, i) THEN enable_fallback(st, FALSE) ELSE st)
        EXCEPT !.udp = (key(i) :>
            [channel |-> TRUE, domain |-> FALSE,
             enabled |-> serves(st, i) \/
                (i = FALLBACK /\ get_enabled_server_number(st) = 0)]) @@ @]

update_domain(st, i, append) ==
    [st EXCEPT
        !.udp = [k \in DOMAIN @ |->
            IF k[1] = i THEN [@[k] EXCEPT !.domain = append] ELSE @[k]],
        !.tcp = [n \in TcpSlots |->
            IF n \in connected(st) /\ @[n].key[1] = i
            THEN [@[n] EXCEPT !.domain = append] ELSE @[n]]]

flushed(q, domain, hit, fail) ==
    IF hit THEN from_cache(q)
    ELSE IF failed(q, domain, fail)
    THEN [destroy_request_data(q) EXCEPT !.lost = TRUE]
    ELSE [ns_resolv(q, domain, fail) EXCEPT !.timer = TRUE]

\* Faulty variant: the timer is stopped and not started again.
flush_requests_NoTimer(st, i, hits, fail) ==
    [st EXCEPT !.req = [r \in Queries |->
        IF @[r].listed THEN [flushed(@[r], FALSE, r \in hits, fail)
                                EXCEPT !.timer = FALSE]
        ELSE @[r]]]

\* A server that is new gets every request that waits; one that cannot be sent
\* to it is dropped.  A request that came over TCP is sent with its TCP length
\* in front: no reply to that one has an identifier the proxy knows.
flush_requests(st, i, hits, fail) ==
    [st EXCEPT
        !.req = [r \in Queries |->
            IF @[r].listed THEN flushed(@[r], FALSE, r \in hits, fail) ELSE @[r]],
        !.net = @ \cup UNION {
            messages(r, st.req[r], "udp", key(i), 0, FALSE, fail) :
                r \in {x \in UdpQueries : st.req[x].listed /\ x \notin hits
                            /\ ~ failed(st.req[x], FALSE, fail)}}]

\* env: [opens: a socket can be made, hits: what the cache has, fail: a send].
__connman_dnsproxy_append(st, i, server, env) ==
    IF server = NoServer THEN update_domain(st, i, TRUE)
    ELSE IF key(i) \in udp_servers(st) THEN st
    ELSE IF env.opens
    THEN flush_requests(create_server(st, i), i, env.hits, env.fail)
    ELSE st

lookup_tcp(st, i) == {n \in connected(st) : st.tcp[n].key = key(i)}

\* Of several TCP connections to the server the first one is found.
first_tcp(st, i) ==
    {n \in lookup_tcp(st, i) : \A o \in lookup_tcp(st, i) : n <= o}

or_fallback(st) ==
    IF get_enabled_server_number(st) = 0 THEN enable_fallback(st, TRUE) ELSE st

remove_udp(st, i) ==
    IF key(i) \in udp_servers(st) THEN or_fallback(destroy_udp(st, {key(i)}))
    ELSE st

remove_tcp(st, i) ==
    IF lookup_tcp(st, i) = {} THEN st
    ELSE or_fallback(destroy_tcp(st, first_tcp(st, i)))

__connman_dnsproxy_remove(st, i, server) ==
    IF server = NoServer THEN update_domain(st, i, FALSE)
    ELSE remove_tcp(remove_udp(st, i), i)

-------------------------------------------------------------------------------
(* Resolver *)

entry(i, server, timer) == [index |-> i, server |-> server, timer |-> timer]
named(st) == {e \in st.entries : e.index # FALLBACK /\ e.server # NoServer}

\* The fallback server serves while no other server is known at all.
append_fallback_nameservers(st, env) ==
    IF named(st) # {} THEN st
    ELSE __connman_dnsproxy_append(st, FALLBACK, "server", env)

remove_fallback_nameservers(st) ==
    __connman_dnsproxy_remove(st, FALLBACK, "server")

forget(st, e) ==
    __connman_dnsproxy_remove([st EXCEPT !.entries = @ \ {e}], e.index, e.server)

remove_entries(st, e, env) == append_fallback_nameservers(forget(st, e), env)

RECURSIVE forget_all(_, _)
forget_all(st, es) ==
    IF es = {} THEN st
    ELSE LET e == CHOOSE x \in es : TRUE IN forget_all(forget(st, e), es \ {e})

\* Faulty variant: the fallback server stays beside the one that is new.
append_resolver_Beside(st, e, env) ==
    __connman_dnsproxy_append([st EXCEPT !.entries = @ \cup {e}],
                              e.index, e.server, env)

append_resolver(st, e, env) ==
    __connman_dnsproxy_append(
        [(IF e.index # FALLBACK /\ e.server # NoServer
          THEN remove_fallback_nameservers(st) ELSE st)
            EXCEPT !.entries = @ \cup {e}],
        e.index, e.server, env)

\* An entry without lifetime is made once; asking again renews its server.
connman_resolver_append(st, i, server, env) ==
    IF entry(i, server, "off") \in st.entries
    THEN __connman_dnsproxy_append(st, i, server, env)
    ELSE append_resolver(st, entry(i, server, "off"), env)

timed(st, i, server) ==
    {e \in st.entries : e.index = i /\ e.server = server /\ e.timer # "off"}

\* What a router announces: a lifetime of zero takes the entry back, and makes
\* one without a timer when there is none to take.
connman_resolver_append_lifetime(st, i, server, lifetime, env) ==
    IF timed(st, i, server) = {}
    THEN append_resolver(st, entry(i, server,
                            IF lifetime = 0 THEN "off" ELSE "refresh"), env)
    ELSE IF lifetime = 0
    THEN remove_entries(st, CHOOSE e \in timed(st, i, server) : TRUE, env)
    ELSE [st EXCEPT !.entries = (@ \ timed(st, i, server))
                                    \cup {entry(i, server, "refresh")}]

\* At four fifths of the lifetime the router is asked again.
resolver_refresh_cb(st, e) ==
    [st EXCEPT !.entries = (@ \ {e}) \cup {[e EXCEPT !.timer = "expire"]}]

\* A new address: the servers a router announced are made again, to be asked
\* from it, and have the search domains again.
__connman_resolver_redo_servers(st, i, env) ==
    LET remade == IF timed(st, i, "server") = {} THEN st
                  ELSE __connman_dnsproxy_append(
                        __connman_dnsproxy_remove(st, i, "server"), i, "server", env)
    IN  IF \E e \in st.entries : e.index = i /\ e.server = NoServer
        THEN __connman_dnsproxy_append(remade, i, NoServer, env) ELSE remade
-------------------------------------------------------------------------------
(* Notifications *)

set_enabled(st, on, all) ==
    [st EXCEPT !.udp = [k \in DOMAIN @ |->
                    [@[k] EXCEPT !.enabled = IF all THEN TRUE ELSE k[1] \in on]],
               !.tcp = [n \in TcpSlots |->
                    IF n \in connected(st)
                    THEN [@[n] EXCEPT !.enabled =
                                IF all THEN TRUE ELSE st.tcp[n].key[1] \in on]
                    ELSE @[n]]]

\* Leaving offline mode enables every server, of whichever service.
dnsproxy_offline_mode(st, enabled) == set_enabled(st, {}, ~ enabled)

of_default(st, i) ==
    {k \in udp_servers(st) : k[1] = i}
    \cup {st.tcp[n].key : n \in {x \in connected(st) : st.tcp[x].key[1] = i}}

dnsproxy_default_changed(st, i) ==
    IF i = 0 THEN dnsproxy_offline_mode(st, TRUE)
    ELSE LET chosen == set_enabled(st, {i, VpnIndex[i]}, FALSE)
         IN  IF of_default(st, i) = {} THEN enable_fallback(chosen, TRUE)
             ELSE chosen

\* A service that goes down takes its servers along, not its entries.
dnsproxy_service_state_changed(st, i) ==
    destroy_tcp(destroy_udp(st, {key(i)}),
                {n \in connected(st) : st.tcp[n].key[1] = i})
-------------------------------------------------------------------------------
(* Clients and servers *)

usable(st, env) ==
    {k \in udp_servers(st) : st.udp[k].enabled /\ (st.udp[k].channel \/ env.opens)}

\* A server whose socket failed gets a new one when a query comes.
reopened(st, ks) ==
    [st EXCEPT !.udp = [k \in DOMAIN @ |->
        IF k \in ks THEN [@[k] EXCEPT !.channel = TRUE] ELSE @[k]]]

total(q, st, ks, env) ==
    [q EXCEPT
        !.numserv = Cardinality({<<k, n>> \in ks \X (1..2) :
                            n <= Len(sent(q, st.udp[k].domain, env.fail))}),
        !.append = \E k \in ks : st.udp[k].domain /\ q.bare
                            /\ sent(q, st.udp[k].domain, env.fail) # <<>>]

\* The cache is asked when the first server of the list has its socket.
resolv(st, r, q, ks, first, env) ==
    IF env.hits # {} /\ ks # {}
    THEN [reopened(st, {first}) EXCEPT !.req[r] = from_cache(q)]
    ELSE [reopened(st, ks) EXCEPT
            !.req[r] = [total(q, st, ks, env) EXCEPT
                            !.state = "live", !.listed = TRUE, !.timer = TRUE],
            !.net = @ \cup UNION {messages(r, q, "udp", k, 0,
                                    st.udp[k].domain, env.fail) : k \in ks}]

failure(q) == destroy_request_data(answered(q))

udp_listener_event(st, r, q, first, env) ==
    IF no_servers(st) THEN [st EXCEPT !.req[r] = failure(q)]
    ELSE resolv(st, r, q, usable(st, env), first, env)

free(st) == {n \in TcpSlots : st.tcp[n].state = "free"}
enabled_udp(st) == {k \in udp_servers(st) : st.udp[k].enabled}

connecting(st, slot) ==
    [st EXCEPT !.tcp = [n \in TcpSlots |->
        IF \E k \in DOMAIN slot : slot[k] = n
        THEN [FreeSlot EXCEPT !.state = "connecting",
                              !.key = CHOOSE k \in DOMAIN slot : slot[k] = n]
        ELSE @[n]]]

\* A query over TCP: slot says which connection each enabled server gets.
read_tcp_data(st, r, q, slot, env) ==
    IF no_servers(st) THEN [st EXCEPT !.req[r] = failure(q)]
    ELSE IF env.hits # {} THEN [st EXCEPT !.req[r] = from_cache(q)]
    ELSE IF DOMAIN slot = {} THEN [st EXCEPT !.req[r] = failure(q)]
    ELSE [connecting(st, slot) EXCEPT
            !.req[r] = [q EXCEPT !.state = "live", !.listed = TRUE, !.timer = TRUE]]

waiting_tcp(st) == {r \in TcpQueries : st.req[r].listed}

\* The domains of the server's UDP twin, if there still is one.
domains_of(st, k) == k \in udp_servers(st) /\ st.udp[k].domain

over_tcp(q, domain, hit, fail) ==
    IF hit THEN from_cache(q) ELSE ns_resolv(q, domain, fail)

\* The connection stands: everything that waits over TCP is sent, also the
\* queries of other clients; when there is nothing to send it is closed.
tcp_connected(st, n, env) ==
    LET domain == domains_of(st, st.tcp[n].key)
        over == {r \in waiting_tcp(st) : r \notin env.hits}
        done == [st EXCEPT
            !.tcp[n].state = "connected", !.tcp[n].domain = domain,
            !.req = [r \in Queries |->
                IF r \in waiting_tcp(st)
                THEN over_tcp(@[r], domain, r \in env.hits, env.fail) ELSE @[r]],
            !.net = @ \cup UNION {messages(r, st.req[r], "tcp", st.tcp[n].key, n,
                                           domain, env.fail) : r \in over}]
    IN  IF \A r \in over : failed(st.req[r], domain, env.fail)
        THEN destroy_tcp(done, {n}) ELSE done

\* One server less for every request over TCP, whether sent to it or not.
one_less(q) ==
    IF q.numserv > 1 THEN [q EXCEPT !.numserv = @ - 1]
    ELSE [answered(q) EXCEPT !.numserv = 0, !.listed = FALSE]

tcp_hangup(st, n) ==
    destroy_tcp([st EXCEPT !.req = [r \in Queries |->
                    IF r \in waiting_tcp(st) THEN one_less(@[r]) ELSE @[r]]], {n})

arrived(st, m, dup) == [st EXCEPT !.net = IF dup THEN @ ELSE @ \ {m}]

udp_server_event(st, m, rcode, dup) ==
    IF st.req[m.query].listed
    THEN [arrived(st, m, dup) EXCEPT
            !.req[m.query] = replied(lookup_request(@), rcode)]
    ELSE arrived(st, m, dup)

\* With the last reply of a request its connection goes, and whatever else was
\* asked over it stays unanswered.  A reply to a request that is gone stays in the
\* buffer: nothing more is read from that connection (stuck).
tcp_server_event(st, m, rcode) ==
    IF st.req[m.query].listed
    THEN LET done == [arrived(st, m, FALSE) EXCEPT
                        !.req[m.query] = replied(lookup_request(@), rcode)]
         IN  IF done.req[m.query].state = "gone" THEN destroy_tcp(done, {m.slot})
             ELSE done
    ELSE [arrived(st, m, FALSE) EXCEPT !.tcp[m.slot].stuck = TRUE]

\* A listener that goes drops the requests of every listener.
destroy_listener(st) ==
    [st EXCEPT !.req = [r \in Queries |->
        IF @[r].listed THEN [destroy_request_data(@[r]) EXCEPT !.lost = TRUE]
        ELSE @[r]]]
-------------------------------------------------------------------------------
Start(c) ==
    [udp |-> <<>>, tcp |-> [n \in TcpSlots |-> FreeSlot],
     req |-> [r \in Queries |-> IF r \in c.queries THEN NewRequest
                                ELSE [NewRequest EXCEPT !.state = "gone"]],
     net |-> {}, default |-> 0, indexes |-> c.indexes,
     entries |-> {entry(FALLBACK, "server", "off")}]

Smooth == [opens |-> TRUE, hits |-> {}, fail |-> 0]

\* At most one thing is special about an event.
Envs == {Smooth, [Smooth EXCEPT !.opens = FALSE], [Smooth EXCEPT !.hits = Queries],
         [Smooth EXCEPT !.fail = 1], [Smooth EXCEPT !.fail = 2]}

\* __connman_resolver_init: the proxy runs with the fallback server.
Init == \E c \in Scenarios : s = create_server(Start(c), FALLBACK)

\* A request is sent once more for every server that comes while it waits.
Becomes(st) ==
    /\ \A r \in Queries : st.req[r].numserv <= MaxSends
    /\ s' = st

UdpQuery(r) ==
    /\ s.req[r].state = "new"
    /\ \E bare \in BOOLEAN, env \in Envs :
         \E first \in IF usable(s, env) = {} THEN {key(FALLBACK)} ELSE usable(s, env) :
             s' = udp_listener_event(s, r, [NewRequest EXCEPT !.bare = bare], first, env)

\* The first part of a query over TCP, with the client's timer.
TcpPart(r) ==
    /\ s.req[r].state = "new"
    /\ s' = [s EXCEPT !.req[r].state = "partial", !.req[r].timer = TRUE]

Connections(ks) == {f \in [ks -> free(s)] : \A k, l \in ks : k # l => f[k] # f[l]}

TcpQuery(r) ==
    /\ s.req[r].state \in {"new", "partial"}
    /\ \E bare \in BOOLEAN, env \in Envs, ks \in SUBSET enabled_udp(s) :
         \E slot \in Connections(ks) :
             s' = read_tcp_data(s, r, [NewRequest EXCEPT !.bare = bare], slot, env)

TcpClientTimeout(r) ==
    /\ s.req[r].state = "partial"
    /\ s' = [s EXCEPT !.req[r] = [destroy_request_data(@) EXCEPT !.lost = TRUE]]

\* The client closes its connection; the request goes on for nobody.
TcpClientCloses(r) ==
    /\ s.req[r].state = "live"
    /\ s' = [s EXCEPT !.req[r].lost = TRUE]

RequestTimeout(r) ==
    /\ s.req[r].state = "live" /\ s.req[r].timer
    /\ s' = [s EXCEPT !.req[r] = request_timeout(@)]

UdpReply == \E m \in s.net, rcode \in {"ok", "nodata", "error"}, dup \in BOOLEAN :
    m.via = "udp" /\ s' = udp_server_event(s, m, rcode, dup)

UdpError == \E k \in udp_servers(s) :
    s' = server_destroy_socket([s EXCEPT !.udp[k].channel = FALSE], k)

TcpConnected(n) == \E env \in Envs :
    s.tcp[n].state = "connecting" /\ Becomes(tcp_connected(s, n, env))

TcpHangup(n) == s.tcp[n].state # "free" /\ s' = tcp_hangup(s, n)

TcpReply == \E m \in s.net, rcode \in {"ok", "nodata", "error"} :
    m.via = "tcp" /\ ~s.tcp[m.slot].stuck /\ s' = tcp_server_event(s, m, rcode)

TcpIdleTimeout(n) == s.tcp[n].state # "free" /\ s' = destroy_tcp(s, {n})

ResolverAppend(i, server) == \E env \in Envs :
    Becomes(connman_resolver_append(s, i, server, env))

RouterAdvert(i, server, lifetime) == \E env \in Envs :
    /\ lifetime = 0 => entry(i, server, "off") \notin s.entries
    /\ Becomes(connman_resolver_append_lifetime(s, i, server, lifetime, env))

ResolverRefresh == \E e \in s.entries :
    e.timer = "refresh" /\ s' = resolver_refresh_cb(s, e)

ResolverExpire == \E e \in s.entries, env \in Envs :
    e.timer = "expire" /\ Becomes(remove_entries(s, e, env))

ResolverRemove(i, server) == \E e \in s.entries, env \in Envs :
    /\ e.index = i /\ e.server = server
    /\ Becomes(remove_entries(s, e, env))

ResolverRemoveAll(i) == \E env \in Envs :
    LET es == {e \in s.entries : e.index = i}
    IN  es # {} /\ Becomes(append_fallback_nameservers(forget_all(s, es), env))

NewAddress(i) == \E env \in Envs : Becomes(__connman_resolver_redo_servers(s, i, env))

OfflineMode(on) == s' = dnsproxy_offline_mode(s, on)

DefaultChanged(i) ==
    /\ i # s.default
    /\ s' = dnsproxy_default_changed([s EXCEPT !.default = i], i)

ServiceDown(i) == s' = dnsproxy_service_state_changed(s, i)

\* Tethering ends on an interface that had a listener of its own.
ListenerRemoved == s' = destroy_listener(s)

FromClients ==
    \/ \E r \in UdpQueries : UdpQuery(r)
    \/ \E r \in TcpQueries :
        TcpPart(r) \/ TcpQuery(r) \/ TcpClientTimeout(r) \/ TcpClientCloses(r)
    \/ \E r \in Queries : RequestTimeout(r)

FromServers ==
    \/ UdpReply \/ UdpError \/ TcpReply
    \/ \E n \in TcpSlots : TcpConnected(n) \/ TcpHangup(n) \/ TcpIdleTimeout(n)

FromConnman ==
    \/ \E i \in s.indexes :
        \/ \E server \in {"server", NoServer} :
                ResolverAppend(i, server) \/ ResolverRemove(i, server)
        \/ \E lifetime \in {0, 1} : RouterAdvert(i, "server", lifetime)
        \/ ResolverRemoveAll(i) \/ NewAddress(i) \/ ServiceDown(i)
    \/ ResolverRefresh \/ ResolverExpire \/ ListenerRemoved
    \/ \E on \in BOOLEAN : OfflineMode(on)
    \/ \E i \in s.indexes \cup {0} : DefaultChanged(i)

Next == FromClients \/ FromServers \/ FromConnman

\* A timer that was started runs out in the end.
TimerFires(r) == RequestTimeout(r) \/ (r \in TcpQueries /\ TcpClientTimeout(r))
Timers == \A r \in Queries : WF_s(TimerFires(r))

Spec == Init /\ [][Next]_s
FairSpec == Spec /\ Timers
-------------------------------------------------------------------------------
(* The proxy has the fallback server, over UDP, only while the resolver    *)
(* knows no server of any service, however entries come, expire and go.    *)
(* TCP connections to it that are being made at that time are finished.    *)
FallbackOnlyAlone == key(FALLBACK) \in udp_servers(s) => named(s) = {}

(* Every query a client made is answered in the end, by a reply, from the  *)
(* cache or by its timer, unless a listener was taken down, the client     *)
(* left, or sending it on to a server that was new failed.                 *)
Awaited(r) == s.req[r].state \in {"live", "partial"}
Settled(r) == s.req[r].answers > 0 \/ s.req[r].lost
EveryQueryAnswered == \A r \in Queries : Awaited(r) ~> Settled(r)

(* A query has one answer: what answers it also releases it, so that its   *)
(* timer cannot answer it again.                                           *)
AnsweredOnce == \A r \in Queries : s.req[r].answers <= 1

-----------------------------------------------------------------------------
(***************************************************************************)
(* The answer cache of the DNS proxy: src/dnsproxy.c.                      *)
(*                                                                         *)
(* A name has at most one entry, an entry at most one A and one AAAA       *)
(* answer.  An answer carries two times: valid_until, the time its records *)
(* expire, and cache_until, the time the cache stops using it.  The cache  *)
(* is a counted object: every server socket takes a reference, and three   *)
(* seconds after a server is destroyed one reference is given back.        *)
(*                                                                         *)
(* The lookups of refresh_dns_entry go to the proxy itself over the        *)
(* loopback, where they are queries like any other: Query stands for them. *)
(***************************************************************************)

CONSTANTS Names,            \* the questions that are asked
          MAX_CACHE_SIZE,   \* entries the cache may hold
          Ttls,             \* the times to live that servers answer with
          Ticks,            \* how far the clock may move between two events
          CacheStart, MaxTime,   \* the clock runs from Start to MaxTime
          MaxRefs           \* bound on the references of the cache

MIN_CACHE_TTL == 30
MAX_CACHE_TTL == 1800
REFRESH == 30               \* seconds between two rounds of refreshing
MaxHits == 8                \* bound on an entry's hits

ERROR == -1                 \* the server answered with an error code
EMPTY == -2                 \* the server knows no address of this type

\* What the records of a reply come to, as parse_response finds.
Replies == Ttls \cup {ERROR, EMPTY}

Types == {"A", "AAAA"}
Other(t) == IF t = "A" THEN "AAAA" ELSE "A"
NoData == [valid |-> 0, until |-> 0, old |-> FALSE]
-------------------------------------------------------------------------------
round_down_ttl(end_time, ttl) ==
    IF ttl < 15 THEN end_time
    ELSE IF ttl < 300 THEN (end_time \div 10) * 10
    ELSE (end_time \div 30) * 30

cache_check_is_valid(data, now) == data # NoData /\ data.until >= now

\* Stale answers are dropped, so that they can be asked for again.
cache_enforce_validity(e, now) ==
    [e EXCEPT !.data = [t \in Types |->
        IF cache_check_is_valid(@[t], now) THEN @[t] ELSE NoData]]

without(c, gone) ==
    [c EXCEPT !.entries = Restrict(@, DOMAIN @ \ gone),
              !.size = Max({0, @ - Cardinality(gone)})]

\* Faulty variant: the reference is counted, the table is not created anew.
create_cache_NoTable(c) == [c EXCEPT !.refs = @ + 1]

create_cache(c) ==
    IF c.refs = 0
    THEN [c EXCEPT !.refs = 1, !.exists = TRUE, !.size = 0, !.entries = <<>>]
    ELSE [c EXCEPT !.refs = @ + 1]

try_remove_cache(c) ==
    IF c.refs = 1
    THEN [c EXCEPT !.timer = FALSE, !.refs = 0, !.exists = FALSE,
                   !.size = 0, !.entries = <<>>]
    ELSE [c EXCEPT !.timer = FALSE, !.refs = @ - 1]

\* Faulty variant: the timer is started without asking whether there is a cache.
destroy_server_Always(c) == [c EXCEPT !.timer = TRUE]

\* What destroying a server does to the cache: one timer, however many go.
destroy_server(c) == [c EXCEPT !.timer = @ \/ c.exists]

\* A popular name waits for a refresh; another one goes with its last answer.
cache_check_validity(c, n, t) ==
    LET e == cache_enforce_validity(c.entries[n], c.now)
        kept == [c EXCEPT !.entries[n] = e]
    IN  IF e.data[t] # NoData THEN kept
        ELSE IF e.hits > 2 THEN [kept EXCEPT !.entries[n].want = TRUE]
        ELSE IF e.data[Other(t)] # NoData THEN kept
        ELSE without(kept, {n})

cache_check(c, n, t) ==
    IF ~ c.exists THEN create_cache(c)
    ELSE IF n \in DOMAIN c.entries THEN cache_check_validity(c, n, t)
    ELSE c

found(c, n, t) == n \in DOMAIN c.entries /\ c.entries[n].data[t] # NoData

\* The answer goes out with what is left of its records' time to live.
send_cached_response(c, n, t) ==
    [c EXCEPT !.late = @ \/ c.entries[n].data[t].valid - c.now < 0,
              !.entries[n].hits = Min({MaxHits, @ + 1})]

ns_try_resolv_from_cache(c, n, t) ==
    IF found(c, n, t) THEN send_cached_response(c, n, t) ELSE c
-------------------------------------------------------------------------------
cache_check_entry(e) == [e EXCEPT !.hits = @ \div 2]

expired(e, now) == \E t \in Types : e.data[t] # NoData /\ e.data[t].until < now

\* One pass of aging: every entry loses half its hits, some entries go.
aged(c, try_harder) ==
    without([c EXCEPT !.entries = [n \in DOMAIN @ |-> cache_check_entry(@[n])]],
            {n \in DOMAIN c.entries : expired(c.entries[n], c.now)
                    \/ (try_harder /\ cache_check_entry(c.entries[n]).hits < 4)})

\* When nothing could be removed, the latest expiry is remembered, and until
\* then only the second pass is made.
cleaned(c, before) ==
    [c EXCEPT !.max_timeout =
        IF c.size < before THEN 0
        ELSE Max({0} \cup {c.entries[n].data[t].until :
                                n \in DOMAIN c.entries, t \in Types})]

second_pass(c, before) == IF c.size < before THEN c ELSE aged(c, TRUE)

cache_cleanup(c) ==
    cleaned(second_pass(IF c.max_timeout <= c.now THEN aged(c, FALSE) ELSE c,
                        c.size), c.size)

invalid(e, now) ==
    [e EXCEPT !.want = @ \/ (e.hits > 0 /\ \E t \in Types :
                                cache_check_is_valid(e.data[t], now)),
              !.data = [t \in Types |-> NoData]]

\* Faulty variant: only the answers that have expired are dropped.
cache_invalidate_Expired(c) ==
    [c EXCEPT !.entries = [n \in DOMAIN @ |-> cache_enforce_validity(@[n], c.now)]]

\* All data goes; the names that had some in use stay, to be asked again.
cache_invalidate(c) ==
    LET marked == [n \in DOMAIN c.entries |-> invalid(c.entries[n], c.now)]
    IN  without([c EXCEPT !.entries = marked],
                {n \in DOMAIN c.entries : ~ marked[n].want})

\* A refresh costs the entry a hit, and four when a lookup is made for it.
refresh_dns_entry(e) ==
    LET age == IF \E t \in Types : e.data[t] = NoData THEN 4 ELSE 1
    IN  [e EXCEPT !.want = FALSE, !.hits = Max({0, @ - age})]

cache_refresh_entry(e, now) ==
    LET v == cache_enforce_validity(e, now)
    IN  IF v.want \/ (v.hits > 2 /\ \E t \in Types : v.data[t] = NoData)
        THEN refresh_dns_entry(v) ELSE v

cache_refresh(c) ==
    [c EXCEPT !.entries = [n \in DOMAIN @ |-> cache_refresh_entry(@[n], c.now)]]
-------------------------------------------------------------------------------
Least(ttl) == Max({ttl, MIN_CACHE_TTL})
Most(ttl) == Min({ttl, MAX_CACHE_TTL})

\* Faulty variant: the records' own expiry is taken before the time to live is
\* raised to the least one.
new_data_Short(now, ttl) ==
    [valid |-> now + ttl, old |-> FALSE,
     until |-> round_down_ttl(now + Most(Least(ttl)), Most(Least(ttl)))]

new_data(now, ttl) ==
    [valid |-> now + Least(ttl), old |-> FALSE,
     until |-> round_down_ttl(now + Most(Least(ttl)), Most(Least(ttl)))]

NewEntry == [hits |-> 0, want |-> FALSE, data |-> [t \in Types |-> NoData]]

\* Faulty variant: an answer added to an old entry is counted as an entry too.
store_Recount(c, n, t, data) ==
    [c EXCEPT !.entries = (n :> [(IF n \in DOMAIN @ THEN @[n] ELSE NewEntry)
                                    EXCEPT !.data[t] = data]) @@ @,
              !.size = @ + 1]

\* An answer for a name that is known takes back the hit of serving it.
store(c, n, t, data) ==
    IF n \in DOMAIN c.entries
    THEN [c EXCEPT !.entries[n].data[t] = data,
                   !.entries[n].hits = Max({0, @ - 1})]
    ELSE [c EXCEPT !.entries = (n :> [NewEntry EXCEPT !.data[t] = data]) @@ @,
                   !.size = @ + 1]

\* No address of the other kind: remembered as long as the IPv4 address is.
negative(c, n, t) ==
    IF t = "AAAA" /\ found(c, n, "A") /\ ~ found(c, n, "AAAA")
    THEN store(c, n, t, c.entries[n].data["A"]) ELSE c

table(c) == IF c.exists THEN c ELSE create_cache(c)

learn(c, n, t, ttl) ==
    CASE ttl = ERROR -> c
      [] ttl = EMPTY -> negative(table(c), n, t)
      [] OTHER -> IF ttl = 0 \/ found(table(c), n, t) THEN table(c)
                  ELSE store(table(c), n, t, new_data(c.now, ttl))

refreshed(c) ==
    IF c.next_refresh < c.now
    THEN [cache_refresh(c) EXCEPT !.next_refresh = c.now + REFRESH] ELSE c

learn_unless_full(c, n, t, ttl) ==
    IF c.size >= MAX_CACHE_SIZE THEN c ELSE learn(refreshed(c), n, t, ttl)

cache_update(c, n, t, ttl) ==
    learn_unless_full(IF c.size >= MAX_CACHE_SIZE THEN cache_cleanup(c) ELSE c,
                      n, t, ttl)
-------------------------------------------------------------------------------
Nobody == [exists |-> FALSE, entries |-> <<>>, size |-> 0, refs |-> 0,
           timer |-> FALSE, now |-> CacheStart, next_refresh |-> 0,
           max_timeout |-> 0, late |-> FALSE]

CacheInit == s = Nobody

\* A query is answered from the cache or goes to the servers.
Query(n, t) ==
    /\ s' = ns_try_resolv_from_cache(cache_check(s, n, t), n, t)
    /\ s'.refs <= MaxRefs

\* A server answers a query with an error, with nothing, or with records of
\* some age: any query may be under way, more than once and for any time.
Reply(n, t, ttl) ==
    /\ s' = cache_update(s, n, t, ttl)
    /\ s'.refs <= MaxRefs

ServerCreated == s.refs < MaxRefs /\ s' = create_cache(s)
ServerDestroyed == s' = destroy_server(s)
CacheTimer == s.timer /\ s' = try_remove_cache(s)

\* What was stored before the default service changed ("old").
outdated(c) ==
    [c EXCEPT !.entries = [n \in DOMAIN @ |-> [@[n] EXCEPT !.data =
        [t \in Types |-> IF @[t] = NoData THEN NoData ELSE [@[t] EXCEPT !.old = TRUE]]]]]

\* Another default service: everything is asked again.
CacheDefaultChanged == s' = cache_refresh(cache_invalidate(outdated(s)))
\* No service, or offline mode: nothing can be asked.
Offline == s' = cache_invalidate(outdated(s))

Tick(k) == s.now + k <= MaxTime /\ s' = [s EXCEPT !.now = @ + k]

CacheNext ==
    \/ \E n \in Names, t \in Types : Query(n, t)
    \/ \E n \in Names, t \in Types, ttl \in Replies : Reply(n, t, ttl)
    \/ ServerCreated \/ ServerDestroyed \/ CacheTimer
    \/ CacheDefaultChanged \/ Offline
    \/ \E k \in Ticks : Tick(k)

CacheSpec == CacheInit /\ [][CacheNext]_s
-------------------------------------------------------------------------------
(* An answer out of the cache never has a negative time to live left: the  *)
(* cache stops using an answer before its records expire, whatever the     *)
(* clamping and rounding of the two times did, where records are taken to  *)
(* live for at least MIN_CACHE_TTL.  And no answer stored before the       *)
(* default service changed is there after it.                              *)
ServedFresh ==
    /\ ~ s.late
    /\ \A n \in DOMAIN s.entries, t \in Types : ~ s.entries[n].data[t].old

(* The cache is there exactly while it is referenced, though references    *)
(* are given back by a timer that servers share; and cache_size, which     *)
(* decides when to evict, counts the entries of the table and stays within *)
(* its limit.                                                              *)
CacheCounted ==
    /\ s.exists <=> s.refs > 0
    /\ s.timer => s.exists
    /\ s.size = Cardinality(DOMAIN s.entries) /\ s.size <= MAX_CACHE_SIZE

=============================================================================

------------------------- MODULE Ipv4FunctionProofs -------------------------
(***************************************************************************)
(* What the functions of the IPv4 configuration (module Ipv4Config) do to  *)
(* the addresses of a network: Good is the invariant of one network, and   *)
(* each function is shown to keep it.  Ipv4AddressProofs composes them to  *)
(* the steps.                                                              *)
(***************************************************************************)
EXTENDS Ipv4ConfigProofs

NewLinkLocal == g_dhcp_client_new("IPV4LL")

(***************************************************************************)
(* Two relations between the network before and after a function.          *)
(***************************************************************************)

\* From w to r addresses and the gateway may go, and nothing else changes that the
\* invariants speak of.  With the method OFF the interface is never touched.
AddressOnly(w, r) ==
    /\ r \in Networks
    /\ (r.acd <=> w.acd) /\ (r.connected <=> w.connected) /\ (r.active <=> w.active)
    /\ r.method = w.method /\ (r.dhcp <=> w.dhcp) /\ r.client = w.client
    /\ r.ll = w.ll /\ (r.ll_running <=> w.ll_running) /\ (r.retry <=> w.retry)
    /\ (r.dhcp_timeout <=> w.dhcp_timeout) /\ (r.ipv4ll_timeout <=> w.ipv4ll_timeout)
    /\ r.host = w.host
    /\ r.kernel \subseteq w.kernel
    /\ r.local \in {w.local, NoAddress}
    /\ r.gateway => w.gateway
    /\ r.local # w.local /\ w.method # "OFF" => w.local \notin r.kernel

Stopped(h) == h.timeout = "none" /\ ~h.listen_on

\* From w to r nothing is configured: addresses, the gateway, DHCP, the link-local
\* client, the timers and the ACD host may go, and the method moves at most from AUTO
\* back to DHCP.  A network that gets disconnected loses its address and its gateway,
\* and DHCP with its timers.
Quieter(w, r) ==
    /\ r \in Networks
    /\ r.acd <=> w.acd
    /\ r.connected => w.connected /\ (r.active <=> w.active)
    /\ r.method = w.method \/ (w.method \in {"AUTO", "DHCP"} /\ r.method = "DHCP")
    /\ r.dhcp => w.dhcp /\ r.client = w.client /\ (r.retry <=> w.retry)
    /\ r.client \in {w.client, NewClient4}
    /\ \/ r.ll = w.ll /\ (r.ll_running <=> w.ll_running)
       \/ r.ll = NewLinkLocal /\ ~r.ll_running
    /\ w.dhcp /\ ~r.dhcp => r.ll = NewLinkLocal /\ ~r.ll_running
    /\ r.dhcp_timeout => w.dhcp_timeout
    /\ r.ipv4ll_timeout => w.ipv4ll_timeout
    /\ r.host = w.host \/ Stopped(r.host)
    /\ r.kernel \subseteq w.kernel
    /\ r.local \in {w.local, NoAddress}
    /\ r.gateway => w.gateway
    /\ r.local # w.local /\ w.method # "OFF" => w.local \notin r.kernel
    /\ w.connected /\ ~r.connected =>
          /\ w.method # "OFF" => w.local \notin r.kernel
          /\ w.method \in {"AUTO", "DHCP"} => ~r.dhcp /\ ~r.dhcp_timeout
          /\ ~r.gateway

\* Two changes of the address in a row change nothing else.
LEMMA AddressOnlyTrans ==
    ASSUME NEW u, NEW v, NEW w, AddressOnly(u, v), AddressOnly(v, w)
    PROVE  AddressOnly(u, w)
  BY DEF AddressOnly

\* Two quiet functions in a row are quiet.
LEMMA QuieterTrans ==
    ASSUME NEW u, NEW v, NEW w, Quieter(u, v), Quieter(v, w)
    PROVE  Quieter(u, w)
  BY DEF Quieter

\* A function that only changes the address is quiet.
LEMMA AddressOnlyQuieter ==
    ASSUME NEW w, NEW r, AddressOnly(w, r)
    PROVE  Quieter(w, r)
  BY DEF Quieter, AddressOnly

\* Doing nothing is quiet.
LEMMA QuietRefl ==
    ASSUME NEW w \in Networks
    PROVE  AddressOnly(w, w) /\ Quieter(w, w)
  BY DEF Quieter, AddressOnly

-----------------------------------------------------------------------------
\* address_unset() takes the local address off, unless the method is OFF.
LEMMA UnsetEffect ==
    ASSUME NEW w \in Networks
    PROVE  LET r == address_unset(w)
           IN  AddressOnly(w, r) /\ (w.method # "OFF" => w.local \notin r.kernel)
  <1> DEFINE r == [w EXCEPT !.kernel = @ \ {w.local}]
  <1>1. r \in Networks
    BY DEF Networks
  <1>2. AddressOnly(w, r) /\ w.local \notin r.kernel
    BY <1>1 DEF AddressOnly, Networks
  <1> HIDE DEF r
  <1>3. address_unset(w) = IF w.method = "OFF" THEN w ELSE r
    BY DEF address_unset, r
  <1> QED
    BY <1>2, <1>3, QuietRefl

\* address_remove() takes the local address off and forgets one it did not get from
\* the user.
LEMMA RemoveAddressEffect ==
    ASSUME NEW w \in Networks
    PROVE  LET r == address_remove(w)
           IN  /\ AddressOnly(w, r) /\ (w.method # "OFF" => w.local \notin r.kernel)
               /\ w.method \in {"AUTO", "DHCP"} => r.local = NoAddress
               /\ w.method \notin {"AUTO", "DHCP"} => r.local = w.local
  <1> DEFINE u == address_unset(w)
             r == [u EXCEPT !.local = NoAddress, !.router = NoAddress]
  <1>1. AddressOnly(w, u) /\ u \in Networks /\ (w.method # "OFF" => w.local \notin u.kernel)
    BY UnsetEffect DEF AddressOnly
  <1>2. w.method = "OFF" => u = w
    BY DEF address_unset
  <1>3. w.method # "OFF" => u = [w EXCEPT !.kernel = @ \ {w.local}]
    BY DEF address_unset
  <1>4. u.local = w.local
    BY <1>2, <1>3 DEF Networks
  <1>5. address_remove(w) = IF w.method \in {"AUTO", "DHCP"} THEN r ELSE u
    BY DEF address_remove
  <1> HIDE DEF u
  <1>6. r \in Networks /\ r.local = NoAddress
    BY <1>1, MaybeFacts, Zenon DEF Networks, MaybeRouter
  <1>7. w.method # "OFF" => AddressOnly(w, r) /\ w.local \notin r.kernel
    BY <1>1, <1>6 DEF AddressOnly, Networks
  <1> HIDE DEF r
  <1> QED
    BY <1>1, <1>4, <1>5, <1>6, <1>7

\* dhcp_callback() of a failure touches the address and the gateway.
LEMMA FailureEffect ==
    ASSUME NEW w \in Networks
    PROVE  AddressOnly(w, dhcp_failure(w))
  <1> DEFINE u == address_remove(w)
             r == [u EXCEPT !.connecting = FALSE, !.gateway = FALSE]
  <1>1. AddressOnly(w, u) /\ u \in Networks
    BY RemoveAddressEffect DEF AddressOnly
  <1> HIDE DEF u
  <1>2. r \in Networks
    BY <1>1, Zenon DEF Networks
  <1>3. AddressOnly(u, r)
    BY <1>1, <1>2 DEF AddressOnly, Networks
  <1> HIDE DEF r
  <1> QED
    BY <1>1, <1>3, AddressOnlyTrans DEF dhcp_failure, r, u

\* dhcp_invalidate() takes the address off and forgets it.
LEMMA InvalidateEffect ==
    ASSUME NEW w \in Networks, NEW called \in BOOLEAN
    PROVE  LET r == dhcp_invalidate(w, called)
           IN  /\ AddressOnly(w, r) /\ r.local = NoAddress
               /\ w.method # "OFF" => w.local \notin r.kernel
  <1> DEFINE v == [w EXCEPT !.last = w.local]
             u == address_remove(v)
             r == [u EXCEPT !.local = NoAddress, !.router = NoAddress]
             f == dhcp_failure(r)
  <1>1. v \in Networks /\ v.local = w.local /\ v.method = w.method
    BY DEF Networks
  <1>2. AddressOnly(w, v)
    BY <1>1 DEF AddressOnly, Networks
  <1> HIDE DEF v
  <1>3. AddressOnly(v, u) /\ u \in Networks /\ (v.method # "OFF" => v.local \notin u.kernel)
    BY <1>1, RemoveAddressEffect DEF AddressOnly
  <1> HIDE DEF u
  <1>4. AddressOnly(w, u) /\ (w.method # "OFF" => w.local \notin u.kernel)
    BY <1>1, <1>2, <1>3, AddressOnlyTrans
  <1>5. r \in Networks /\ r.local = NoAddress
    BY <1>3, MaybeFacts, Zenon DEF Networks, MaybeRouter
  <1>6. AddressOnly(w, r) /\ (w.method # "OFF" => w.local \notin r.kernel)
    BY <1>3, <1>4, <1>5 DEF AddressOnly, Networks
  <1>7. Invalidate(w) = r
    BY DEF Invalidate, u, v
  <1> HIDE DEF r
  <1>8. AddressOnly(r, f)
    BY <1>5, FailureEffect
  <1> HIDE DEF f
  <1>9. AddressOnly(w, f) /\ f.local = NoAddress
        /\ (w.method # "OFF" => w.local \notin f.kernel)
    BY <1>5, <1>6, <1>8, AddressOnlyTrans DEF AddressOnly
  <1> QED
    BY <1>5, <1>6, <1>7, <1>9 DEF dhcp_invalidate, f

-----------------------------------------------------------------------------
\* ipv4ll_stop_client() ends the link-local client.
LEMMA StopClientEffect ==
    ASSUME NEW w \in Networks
    PROVE  LET r == ipv4ll_stop_client(w)
           IN  /\ Quieter(w, r) /\ r.ll = NewLinkLocal /\ ~r.ll_running
               /\ r.local = w.local /\ r.method = w.method /\ (r.dhcp <=> w.dhcp)
               /\ (r.connected <=> w.connected)
  <1>1. NewLinkLocal \in Clients
    BY NewClient DEF ClientOK, NewLinkLocal
  <1> DEFINE r == [w EXCEPT !.ll = NewLinkLocal, !.ll_running = FALSE]
  <1>2. r \in Networks
    BY <1>1, Zenon DEF Networks
  <1>3. r.ll = NewLinkLocal /\ ~r.ll_running /\ r.local = w.local /\ r.method = w.method
        /\ (r.dhcp <=> w.dhcp) /\ (r.connected <=> w.connected)
    BY DEF Networks
  <1>4. Quieter(w, r)
    BY <1>2 DEF Quieter, Networks
  <1>5. ipv4ll_stop_client(w) = r
    BY DEF ipv4ll_stop_client, NewLinkLocal
  <1> QED
    BY <1>3, <1>4, <1>5

\* __connman_dhcp_stop() ends DHCP and takes its address off, or finds it ended.
LEMMA DhcpStopEffect ==
    ASSUME NEW w \in Networks
    PROVE  LET r == dhcp_stop(w)
           IN  /\ Quieter(w, r) /\ ~r.dhcp /\ r.method = w.method
               /\ (r.connected <=> w.connected)
               /\ w.dhcp => r.local = NoAddress /\ (w.method # "OFF" => w.local \notin r.kernel)
               /\ ~w.dhcp => r = w
  <1> DEFINE u == ipv4ll_stop_client(w)
             v == [u EXCEPT !.retry = FALSE, !.client = NewClient4]
             r == [v EXCEPT !.dhcp = FALSE]
             i == dhcp_invalidate(r, FALSE)
  <1>1. Quieter(w, u) /\ u \in Networks /\ u.ll = NewLinkLocal /\ ~u.ll_running
        /\ u.local = w.local /\ u.method = w.method /\ (u.connected <=> w.connected)
    BY StopClientEffect DEF Quieter
  <1> HIDE DEF u
  <1>2. NewClient4 \in Clients
    BY NewClient DEF ClientOK, NewClient4
  <1>3. v \in Networks
    BY <1>1, <1>2, Zenon DEF Networks
  <1>4. r \in Networks
    BY <1>3, ZenonT(40) DEF Networks
  <1>5. /\ ~r.dhcp /\ r.client = NewClient4 /\ r.local = u.local /\ r.method = u.method /\ (r.connected <=> u.connected)
        /\ (r.active <=> u.active) /\ r.ll = u.ll /\ (r.ll_running <=> u.ll_running)
        /\ (r.acd <=> u.acd) /\ (r.dhcp_timeout <=> u.dhcp_timeout)
        /\ (r.ipv4ll_timeout <=> u.ipv4ll_timeout) /\ r.host = u.host
        /\ r.kernel = u.kernel /\ (r.gateway <=> u.gateway)
    BY <1>1 DEF Networks
  <1>6. CASE w.dhcp
    <2>1. dhcp_stop(w) = i
      BY <1>6 DEF dhcp_stop, dhcp_release, r, v, u, NewClient4
    <2> HIDE DEF r
    <2>2. Quieter(w, r) /\ r.method = w.method /\ r.local = w.local
      BY <1>1, <1>4, <1>5 DEF Quieter
    <2>3. AddressOnly(r, i) /\ i.local = NoAddress
          /\ (r.method # "OFF" => r.local \notin i.kernel)
      BY <1>4, InvalidateEffect, Zenon
    <2> HIDE DEF i
    <2>4. Quieter(w, i)
      BY <2>2, <2>3, AddressOnlyQuieter, QuieterTrans
    <2> QED
      BY <1>1, <1>5, <1>6, <2>1, <2>2, <2>3, <2>4 DEF AddressOnly
  <1>7. CASE ~w.dhcp
    BY <1>7, QuietRefl DEF dhcp_stop
  <1> QED
    BY <1>6, <1>7

\* What set_disconnected() undoes.
LEMMA UnconfigureEffect ==
    ASSUME NEW w \in Networks
    PROVE  LET r == Unconfigure(w)
           IN  /\ Quieter(w, r) /\ ~r.gateway
               /\ w.method # "OFF" => w.local \notin r.kernel
               /\ w.method \in {"AUTO", "DHCP"} => ~r.dhcp /\ ~r.dhcp_timeout
  <1> DEFINE m == [w EXCEPT !.method = "DHCP", !.dhcp_timeout = FALSE]
             d == dhcp_stop(m)
             i == IF w.method \in {"AUTO", "DHCP"} THEN d ELSE w
             u == address_unset(i)
             r == [u EXCEPT !.gateway = FALSE]
  <1>1. w.method \in {"AUTO", "DHCP"} =>
           Quieter(w, d) /\ ~d.dhcp /\ ~d.dhcp_timeout
    <2> SUFFICES ASSUME w.method \in {"AUTO", "DHCP"}
                 PROVE  Quieter(w, d) /\ ~d.dhcp /\ ~d.dhcp_timeout
      OBVIOUS
    <2>1. m \in Networks
      BY Zenon DEF Networks, Methods
    <2>2. Quieter(w, m) /\ ~m.dhcp_timeout
      BY <2>1 DEF Quieter, Networks
    <2> HIDE DEF m
    <2>3. Quieter(m, d) /\ ~d.dhcp
      BY <2>1, DhcpStopEffect
    <2> HIDE DEF d
    <2> QED
      BY <2>2, <2>3, QuieterTrans DEF Quieter
  <1> HIDE DEF d, m
  <1>2. Quieter(w, i) /\ i \in Networks
        /\ (w.method \in {"AUTO", "DHCP"} => ~i.dhcp /\ ~i.dhcp_timeout)
    BY <1>1, QuietRefl DEF Quieter
  <1> HIDE DEF i
  <1>3. AddressOnly(i, u) /\ u \in Networks /\ (i.method # "OFF" => i.local \notin u.kernel)
    BY <1>2, UnsetEffect DEF AddressOnly
  <1> HIDE DEF u
  <1>4. r \in Networks /\ ~r.gateway
    BY <1>3, Zenon DEF Networks
  <1>5. AddressOnly(u, r) /\ r.kernel = u.kernel
    BY <1>3, <1>4, ZenonT(30) DEF AddressOnly, Networks
  <1> HIDE DEF r
  <1>6. AddressOnly(i, r)
    BY <1>3, <1>5, AddressOnlyTrans
  <1>7. Quieter(w, r)
    BY <1>2, <1>6, AddressOnlyQuieter, QuieterTrans
  <1>8. w.method # "OFF" => w.local \notin r.kernel
    BY <1>2, <1>3, <1>5, <1>6 DEF Quieter, AddressOnly
  <1>9. w.method \in {"AUTO", "DHCP"} => ~r.dhcp /\ ~r.dhcp_timeout
    BY <1>2, <1>6 DEF AddressOnly
  <1>10. Unconfigure(w) = r
    BY DEF Unconfigure, r, u, i, d, m
  <1> QED
    BY <1>4, <1>7, <1>8, <1>9, <1>10

\* set_disconnected() undoes a connected network.
LEMMA SetDisconnectedQuieter ==
    ASSUME NEW w \in Networks
    PROVE  Quieter(w, set_disconnected(w)) /\ ~set_disconnected(w).connected
  <1> DEFINE u == IF w.connected THEN Unconfigure(w) ELSE w
             r == [u EXCEPT !.connecting = FALSE, !.connected = FALSE,
                            !.associating = FALSE, !.active = FALSE]
  <1>1. /\ Quieter(w, u) /\ u \in Networks
        /\ w.connected => /\ ~u.gateway
                          /\ w.method # "OFF" => w.local \notin u.kernel
                          /\ w.method \in {"AUTO", "DHCP"} => ~u.dhcp /\ ~u.dhcp_timeout
    BY UnconfigureEffect, QuietRefl DEF Quieter
  <1> HIDE DEF u
  <1>2. r \in Networks
    BY <1>1, Zenon DEF Networks
  <1>3. /\ ~r.connected /\ (r.acd <=> u.acd) /\ r.method = u.method /\ (r.dhcp <=> u.dhcp)
        /\ r.client = u.client /\ (r.retry <=> u.retry) /\ r.ll = u.ll
        /\ (r.ll_running <=> u.ll_running) /\ (r.dhcp_timeout <=> u.dhcp_timeout)
        /\ (r.ipv4ll_timeout <=> u.ipv4ll_timeout) /\ r.host = u.host
        /\ r.kernel = u.kernel /\ r.local = u.local /\ (r.gateway <=> u.gateway)
    BY <1>1 DEF Networks
  <1> HIDE DEF r
  <1>4. Quieter(w, r)
    BY <1>1, <1>2, <1>3 DEF Quieter
  <1> QED
    BY <1>3, <1>4 DEF set_disconnected, r, u

\* Stopping conflict detection.
LEMMA StopAcdQuieter ==
    ASSUME NEW w \in Networks
    PROVE  LET r == StopAcd(w)
           IN  /\ Quieter(w, r) /\ Stopped(r.host) /\ ~r.ipv4ll_timeout
               /\ (r.connected <=> w.connected)
  <1> DEFINE h == acd_host_stop(w.host)
             r == [w EXCEPT !.ipv4ll_timeout = FALSE, !.host = h]
  <1>1. h \in Hosts /\ Stopped(h)
    BY StopEffect DEF Networks, Stopped
  <1>2. StopAcd(w) = r
    BY DEF StopAcd
  <1> HIDE DEF h
  <1>3. r \in Networks
    BY <1>1, ZenonT(30) DEF Networks
  <1>4. r.host = h /\ ~r.ipv4ll_timeout /\ (r.connected <=> w.connected)
    BY DEF Networks
  <1>5. Quieter(w, r)
    BY <1>1, <1>3 DEF Quieter, Networks
  <1> QED
    BY <1>1, <1>2, <1>4, <1>5

\* __connman_network_disconnect() starts nothing.
LEMMA DisconnectQuieter ==
    ASSUME NEW w \in Networks
    PROVE  LET r == __connman_network_disconnect(w)
           IN  Quieter(w, r) /\ ~r.connected /\ Stopped(r.host) /\ ~r.ipv4ll_timeout
  <1> DEFINE s == StopAcd(w)
             d == set_disconnected(s)
  <1>1. Quieter(w, s) /\ s \in Networks /\ Stopped(s.host) /\ ~s.ipv4ll_timeout
        /\ (s.connected <=> w.connected)
    BY StopAcdQuieter DEF Quieter
  <1> HIDE DEF s
  <1>2. Quieter(s, d) /\ ~d.connected
    BY <1>1, SetDisconnectedQuieter
  <1> HIDE DEF d
  <1>3. Quieter(w, d) /\ Stopped(d.host) /\ ~d.ipv4ll_timeout
    BY <1>1, <1>2, QuieterTrans DEF Quieter
  <1> QED
    BY <1>1, <1>2, <1>3 DEF __connman_network_disconnect, s, d

\* connman_network_set_error() ends the connection and starts nothing.
LEMMA SetErrorQuieter ==
    ASSUME NEW w \in Networks
    PROVE  LET r == connman_network_set_error(w)
           IN  Quieter(w, r) /\ ~r.connected /\ Stopped(r.host) /\ ~r.ipv4ll_timeout
  <1> DEFINE a == [w EXCEPT !.active = FALSE]
             r == __connman_network_disconnect(a)
  <1>1. a \in Networks
    BY Zenon DEF Networks
  <1>2. Quieter(a, r) /\ ~r.connected /\ Stopped(r.host) /\ ~r.ipv4ll_timeout
    BY <1>1, DisconnectQuieter
  <1>3. connman_network_set_error(w) = r
    BY DEF connman_network_set_error
  <1> HIDE DEF r
  <1>4. Quieter(w, r)
    BY <1>2 DEF Quieter, Networks
  <1> QED
    BY <1>2, <1>3, <1>4

-----------------------------------------------------------------------------
(***************************************************************************)
(* The invariants.                                                         *)
(***************************************************************************)

Probing(h) == h.timeout \in {"probe", "announce"}

\* The timer of the ACD host is that of its state, and a host that does not listen
\* has none.
HostOK(h) ==
    /\ h.timeout = "probe" => h.state = "PROBE"
    /\ h.timeout = "announce" => h.state = "ANNOUNCE"
    /\ h.listen_on /\ h.state \in {"PROBE", "ANNOUNCE"} => Probing(h)
    /\ ~h.listen_on => h.timeout = "none"

\* DHCP runs only under the methods that use it, and the link-local client only
\* under DHCP.
Base(w) ==
    /\ w \in Networks
    /\ HostOK(w.host)
    /\ w.method \in {"MANUAL", "OFF"} => ~w.dhcp
    /\ ~w.dhcp => w.ll = NewLinkLocal /\ ~w.ll_running

\* While the host probes or announces, its address is the one in the ipconfig or
\* the ipconfig has none.  The exception is an address the user sets while the
\* network is not connected.
Bonded(w) ==
    w.acd /\ Probing(w.host) =>
        \/ w.local \in {w.host.requested_ip, NoAddress}
        \/ ~w.connected /\ w.method = "MANUAL"

\* A connected network is active, and DHCP runs when the method asks for it.
Served(w) ==
    w.connected => w.active /\ (w.method \in {"DHCP", "AUTO"} => w.dhcp)

\* The addresses that may stay on the interface without being the local one.
Leave(w) == IF w.acd THEN LinkLocal ELSE {}

\* The link-local client asks for link-local addresses only, and has no timer of a
\* probe or announcement once it has its address.
LinkLocalOK(c) ==
    /\ c.requested_ip \in LinkLocal \union {NoAddress}
    /\ c.assigned_ip \in LinkLocal \union {NoAddress}
    /\ c.timeout \in {"send_probe_packet", "ipv4ll_probe_timeout", "ipv4ll_announce_timeout"}
          => c.state \notin {"IPV4LL_MONITOR", "IPV4LL_DEFEND"}

(***************************************************************************)
(* What the interface may have.  Nothing but leftovers while an address is *)
(* probed, while the pause after too many conflicts runs, and when the     *)
(* network is not connected; and the local address is a link-local one     *)
(* while the link-local client runs, so that it may be replaced.           *)
(***************************************************************************)
Tidy(w) ==
    /\ w.kernel \ {w.local} \subseteq Leave(w)
    /\ Probing(w.host) => w.kernel \subseteq Leave(w) /\ ~w.ipv4ll_timeout
    /\ w.ipv4ll_timeout => w.kernel \subseteq Leave(w)
    /\ ~w.acd => ~w.host.listen_on /\ ~w.ipv4ll_timeout
    /\ ~w.connected => /\ w.kernel \subseteq Leave(w)
                       /\ ~w.dhcp /\ ~w.dhcp_timeout /\ ~w.gateway
    /\ ~w.ll_running => w.ll = NewLinkLocal
    /\ w.ll_running => w.local \in LinkLocal \union {NoAddress}
    /\ ~w.acd /\ w.ll_running /\ w.ll.state \notin {"IPV4LL_MONITOR", "IPV4LL_DEFEND"}
          => w.local = NoAddress
    /\ w.method = "OFF" => w.local \in Leave(w) \union {NoAddress}
    /\ w.method \in {"MANUAL", "OFF"} => ~w.dhcp_timeout
    /\ LinkLocalOK(w.ll)

\* The configuration is not changed before the link is up, the ACD host does not act
\* after the link is lost, and a renewal changes neither router nor mask while
\* conflict detection is on.
Calm == ~LateAcd /\ ~EarlyChanges /\ ~AcdChanges

Good(w) == Base(w) /\ Bonded(w) /\ Served(w) /\ (Calm => Tidy(w))

\* From w to r no address appears on the interface of a network with conflict detection.
Steady(w, r) ==
    /\ r.acd <=> w.acd
    /\ w.acd => r.kernel \subseteq w.kernel

\* Steady is transitive.
LEMMA SteadyTrans ==
    ASSUME NEW u, NEW v, NEW w, Steady(u, v), Steady(v, w)
    PROVE  Steady(u, w)
  BY DEF Steady

\* A new link-local client asks for nothing.
LEMMA NewLinkLocalOK == LinkLocalOK(NewLinkLocal) /\ NewLinkLocal \in Clients
  BY NewClient DEF LinkLocalOK, NewLinkLocal, g_dhcp_client_new, ClientOK

\* What a network loses disturbs none of the invariants.
LEMMA QuieterParts ==
    ASSUME NEW w, NEW r, Base(w), Quieter(w, r)
    PROVE  /\ Base(r) /\ Steady(w, r)
           /\ Bonded(w) => Bonded(r)
           /\ Tidy(w) => Tidy(r)
           /\ (r.connected => (r.dhcp <=> w.dhcp)) /\ Served(w) => Served(r)
           /\ w.kernel \subseteq Leave(w) => r.kernel \subseteq Leave(r)
  <1>1. Base(r)
    BY DEF Base, Quieter, HostOK, Stopped, Probing
  <1>2. Steady(w, r) /\ Leave(r) = Leave(w)
    BY DEF Quieter, Steady, Leave
  <1>3. Bonded(w) => Bonded(r)
    BY DEF Quieter, Bonded, Probing, Stopped
  <1>4. (r.connected => (r.dhcp <=> w.dhcp)) /\ Served(w) => Served(r)
    BY DEF Quieter, Served
  <1>5. ASSUME Tidy(w) PROVE Tidy(r)
    <2>1. w.method = "OFF" => w.kernel \subseteq Leave(w)
      BY <1>5, AcdAssumption DEF Tidy, Base, Networks
    <2>2. r.kernel \ {r.local} \subseteq Leave(r)
      BY <1>2, <1>5, <2>1 DEF Tidy, Quieter
    <2>3. /\ Probing(r.host) => r.kernel \subseteq Leave(r) /\ ~r.ipv4ll_timeout
          /\ r.ipv4ll_timeout => r.kernel \subseteq Leave(r)
          /\ ~r.acd => ~r.host.listen_on /\ ~r.ipv4ll_timeout
      BY <1>2, <1>5 DEF Tidy, Quieter, Probing, Stopped
    <2>4. ~r.connected => r.kernel \subseteq Leave(r)
      BY <1>2, <1>5, <2>1 DEF Tidy, Quieter
    <2>5. ~r.connected => ~r.dhcp /\ ~r.dhcp_timeout /\ ~r.gateway
      BY <1>5 DEF Tidy, Quieter, Base, Networks, Methods
    <2>6. /\ ~r.ll_running => r.ll = NewLinkLocal
          /\ r.ll_running => r.local \in LinkLocal \union {NoAddress}
          /\ ~r.acd /\ r.ll_running /\ r.ll.state \notin {"IPV4LL_MONITOR", "IPV4LL_DEFEND"}
                => r.local = NoAddress
          /\ LinkLocalOK(r.ll)
      BY <1>5, NewLinkLocalOK DEF Tidy, Quieter
    <2>7. /\ r.method = "OFF" => r.local \in Leave(r) \union {NoAddress}
          /\ r.method \in {"MANUAL", "OFF"} => ~r.dhcp_timeout
      BY <1>2, <1>5 DEF Tidy, Quieter
    <2> QED
      BY <2>2, <2>3, <2>4, <2>5, <2>6, <2>7 DEF Tidy
  <1>6. w.kernel \subseteq Leave(w) => r.kernel \subseteq Leave(r)
    BY <1>2 DEF Quieter
  <1> QED
    BY <1>1, <1>2, <1>3, <1>4, <1>5, <1>6

\* The same, for the whole of the invariant.
LEMMA QuieterGood ==
    ASSUME NEW w, NEW r, Good(w), Quieter(w, r), r.connected => (r.dhcp <=> w.dhcp)
    PROVE  Good(r) /\ Steady(w, r)
  BY QuieterParts DEF Good

\* A network that fails is left in order, whatever else was wrong with it.
LEMMA FailedGood ==
    ASSUME NEW w, NEW r, Base(w), Calm => Tidy(w), Quieter(w, r), ~r.connected, Stopped(r.host)
    PROVE  Good(r) /\ Steady(w, r)
  BY QuieterParts DEF Good, Served, Bonded, Probing, Stopped

\* Nothing changes that the invariants speak of, except that the network may become
\* active.
SameConfig(w, r) ==
    /\ r \in Networks
    /\ (r.acd <=> w.acd) /\ (r.connected <=> w.connected) /\ (w.active => r.active)
    /\ r.method = w.method /\ (r.dhcp <=> w.dhcp)
    /\ r.ll = w.ll /\ (r.ll_running <=> w.ll_running)
    /\ (r.dhcp_timeout <=> w.dhcp_timeout) /\ (r.ipv4ll_timeout <=> w.ipv4ll_timeout)
    /\ r.host = w.host /\ r.kernel = w.kernel /\ r.local = w.local
    /\ (r.gateway <=> w.gateway)

\* The client, the flags of the connection and the last address play no part.
LEMMA SameConfigParts ==
    ASSUME NEW w, NEW r, SameConfig(w, r)
    PROVE  /\ Base(w) => Base(r)
           /\ Bonded(w) => Bonded(r)
           /\ Served(w) => Served(r)
           /\ Tidy(w) => Tidy(r)
           /\ Good(w) => Good(r)
           /\ Steady(w, r)
           /\ w.kernel \subseteq Leave(w) => r.kernel \subseteq Leave(r)
  <1>1. Base(w) => Base(r)
    BY DEF SameConfig, Base
  <1>2. (Bonded(w) => Bonded(r)) /\ (Served(w) => Served(r)) /\ Steady(w, r)
    BY DEF SameConfig, Bonded, Served, Steady
  <1>3. Leave(r) = Leave(w)
    BY DEF SameConfig, Leave
  <1>4. Tidy(w) => Tidy(r)
    BY <1>3 DEF SameConfig, Tidy
  <1> QED
    BY <1>1, <1>2, <1>3, <1>4 DEF Good, SameConfig

-----------------------------------------------------------------------------
(***************************************************************************)
(* Configuring.                                                            *)
(***************************************************************************)

\* acd_host_start() leaves the host probing the address, or not listening.
LEMMA StartedHost ==
    ASSUME NEW h \in Hosts, HostOK(h), NEW ip \in MaybeAddress, NEW opened \in BOOLEAN
    PROVE  LET r == acd_host_start(h, ip, opened)
           IN  /\ r \in Hosts /\ HostOK(r)
               /\ Probing(r) => r.requested_ip = ip
               /\ opened => Probing(r)
  <1>1. ip \in Addresses \union {NoAddress}
    BY DEF MaybeAddress
  <1> QED
    BY <1>1, StartEffect DEF HostOK, Probing

\* start_acd() bonds the host to the local address, with nothing but leftovers on the
\* interface.
LEMMA StartAcdGood ==
    ASSUME NEW w, Base(w), Served(w), NEW e \in Environments,
           Calm => Tidy(w) /\ w.acd /\ w.kernel \subseteq Leave(w)
    PROVE  Good(start_acd(w, e)) /\ Steady(w, start_acd(w, e))
  <1> DEFINE h == acd_host_start(w.host, w.local, e.opened)
             r == [w EXCEPT !.ipv4ll_timeout = FALSE, !.host = h]
  <1>1. w \in Networks /\ w.host \in Hosts /\ w.local \in MaybeAddress /\ HostOK(w.host)
    BY DEF Base, Networks
  <1>2. h \in Hosts /\ HostOK(h) /\ (Probing(h) => h.requested_ip = w.local)
    BY <1>1, EnvironmentFacts, StartedHost
  <1>3. start_acd(w, e) = r
    BY DEF start_acd
  <1> HIDE DEF h
  <1>4. r \in Networks
    BY <1>1, <1>2, Zenon DEF Networks
  <1>5. /\ (r.acd <=> w.acd) /\ (r.connected <=> w.connected) /\ (r.active <=> w.active)
        /\ r.method = w.method /\ (r.dhcp <=> w.dhcp)
        /\ r.ll = w.ll /\ (r.ll_running <=> w.ll_running)
        /\ (r.dhcp_timeout <=> w.dhcp_timeout) /\ ~r.ipv4ll_timeout
        /\ r.host = h /\ r.kernel = w.kernel /\ r.local = w.local
        /\ (r.gateway <=> w.gateway)
    BY <1>1 DEF Networks
  <1> HIDE DEF r
  <1>6. Base(r) /\ Served(r) /\ Steady(w, r)
    BY <1>2, <1>4, <1>5 DEF Base, Served, Steady
  <1>7. Bonded(r)
    BY <1>2, <1>5 DEF Bonded
  <1>8. Leave(r) = Leave(w)
    BY <1>5 DEF Leave
  <1>9. Calm => Tidy(r)
    BY <1>5, <1>8 DEF Tidy
  <1> QED
    BY <1>3, <1>6, <1>7, <1>9 DEF Good

\* Putting the local address on the interface of a connected network.
LEMMA AddGood ==
    ASSUME NEW w, Base(w), Bonded(w), Served(w), CanAdd(w),
           Calm => /\ Tidy(w) /\ w.connected
                   /\ w.method # "OFF" => ~Probing(w.host) /\ ~w.ipv4ll_timeout
    PROVE  LET r == AddAddress(w)
           IN  /\ Good(r) /\ (r.acd <=> w.acd)
               /\ r.kernel \subseteq w.kernel \union {w.local}
               /\ w.method = "OFF" => r.kernel = w.kernel
               /\ w.method # "OFF" => r.kernel # {}
  <1> DEFINE k == IF w.method = "OFF" THEN w.kernel ELSE w.kernel \union {w.local}
             r == [w EXCEPT !.kernel = k, !.gateway = TRUE]
  <1>1. w \in Networks
    BY DEF Base
  <1>2. k \in SUBSET Addresses
    BY <1>1 DEF CanAdd, Networks, MaybeAddress
  <1>3. AddAddress(w) = r
    BY DEF AddAddress
  <1>4. /\ k \subseteq w.kernel \union {w.local}
        /\ w.method = "OFF" => k = w.kernel
        /\ w.method # "OFF" => k = w.kernel \union {w.local} /\ k # {}
    OBVIOUS
  <1> HIDE DEF k
  <1>5. r \in Networks
    BY <1>1, <1>2, ZenonT(30) DEF Networks
  <1>6. /\ (r.acd <=> w.acd) /\ (r.connected <=> w.connected) /\ (r.active <=> w.active)
        /\ r.method = w.method /\ (r.dhcp <=> w.dhcp)
        /\ r.ll = w.ll /\ (r.ll_running <=> w.ll_running)
        /\ (r.dhcp_timeout <=> w.dhcp_timeout) /\ (r.ipv4ll_timeout <=> w.ipv4ll_timeout)
        /\ r.host = w.host /\ r.kernel = k /\ r.local = w.local
    BY <1>1 DEF Networks
  <1> HIDE DEF r
  <1>7. Base(r) /\ Served(r) /\ Bonded(r)
    BY <1>5, <1>6 DEF Base, Served, Bonded
  <1>8. Leave(r) = Leave(w)
    BY <1>6 DEF Leave
  <1>9. Calm => Tidy(r)
    BY <1>4, <1>6, <1>8 DEF Tidy
  <1> QED
    BY <1>3, <1>4, <1>6, <1>7, <1>9 DEF Good

\* The common end of set_connected_manual() and dhcp_success(): with conflict detection
\* the address is probed first, otherwise it is put on the interface.
LEMMA ConfigureGood ==
    ASSUME NEW w, Base(w), Served(w), NEW e \in Environments,
           Calm => Tidy(w) /\ w.connected /\ (w.acd => w.kernel \subseteq Leave(w))
    PROVE  Good(Configure(w, e)) /\ Steady(w, Configure(w, e))
  <1>0. w \in Networks
    BY DEF Base
  <1>1. CASE w.acd /\ w.local # NoAddress
    BY <1>1, StartAcdGood DEF Configure
  <1>2. CASE ~(w.acd /\ w.local # NoAddress)
    <2> DEFINE b == w.ipv4ll_timeout /\ ~w.acd
               v == [w EXCEPT !.ipv4ll_timeout = b]
               f == connman_network_set_error(v)
    <2>0. b \in BOOLEAN /\ (b => w.ipv4ll_timeout)
      OBVIOUS
    <2>1. Configure(w, e) = Install(v)
      BY <1>2 DEF Configure
    <2> HIDE DEF b
    <2>2. v \in Networks
      BY <1>0, <2>0 DEF Networks
    <2>3. Quieter(w, v) /\ v.method = w.method /\ v.local = w.local /\ v.kernel = w.kernel
          /\ (v.connected <=> w.connected) /\ (v.dhcp <=> w.dhcp)
      BY <1>0, <2>0, <2>2 DEF Quieter, Networks
    <2> HIDE DEF v
    <2>4. Base(v) /\ Served(v) /\ Steady(w, v) /\ (Calm => Tidy(v))
          /\ (v.acd <=> w.acd)
      BY <2>3, QuieterParts DEF Quieter
    <2>5. CASE CanAdd(v)
      <3>1. Bonded(v)
        BY <1>2, <2>3, <2>4 DEF Bonded
      <3>2. v.acd => v.method = "OFF"
        BY <1>2, <2>3, <2>4, <2>5 DEF CanAdd
      <3>3. Calm /\ v.method # "OFF" => ~Probing(v.host) /\ ~v.ipv4ll_timeout
        BY <2>4, <3>2 DEF Tidy, Base, HostOK, Probing
      <3>4. LET r == AddAddress(v)
            IN  Good(r) /\ (r.acd <=> v.acd) /\ (v.method = "OFF" => r.kernel = v.kernel)
        BY <2>3, <2>4, <2>5, <3>1, <3>3, AddGood
      <3>5. Steady(v, AddAddress(v))
        BY <3>2, <3>4 DEF Steady
      <3> QED
        BY <2>1, <2>4, <2>5, <3>4, <3>5, SteadyTrans DEF Install
    <2>6. CASE ~CanAdd(v)
      <3>1. Quieter(v, f) /\ ~f.connected /\ Stopped(f.host)
        BY <2>2, SetErrorQuieter
      <3> HIDE DEF f
      <3>2. Good(f) /\ Steady(v, f)
        BY <2>4, <3>1, FailedGood
      <3> QED
        BY <2>1, <2>4, <2>6, <3>2, SteadyTrans DEF Install, f
    <2> QED
      BY <2>5, <2>6
  <1> QED
    BY <1>1, <1>2

\* set_connected_manual() and dhcp_success() themselves.
LEMMA ValidGood ==
    ASSUME NEW w, Base(w), Served(w), NEW e \in Environments,
           Calm => Tidy(w) /\ w.connected /\ (w.acd => w.kernel \subseteq Leave(w))
    PROVE  /\ Good(dhcp_valid(w, e)) /\ Steady(w, dhcp_valid(w, e))
           /\ Good(set_connected_manual(w, e)) /\ Steady(w, set_connected_manual(w, e))
  <1> DEFINE v == [w EXCEPT !.connecting = FALSE]
             r == Configure(v, e)
  <1>1. v \in Networks
    BY Zenon DEF Base, Networks
  <1>2. SameConfig(w, v)
    BY <1>1 DEF SameConfig, Base, Networks
  <1>3. dhcp_valid(w, e) = r /\ set_connected_manual(w, e) = r
    BY DEF dhcp_valid, set_connected_manual
  <1> HIDE DEF v
  <1>4. Base(v) /\ Served(v) /\ Steady(w, v)
        /\ (Calm => Tidy(v) /\ v.connected /\ (v.acd => v.kernel \subseteq Leave(v)))
    BY <1>2, SameConfigParts DEF SameConfig
  <1>5. Good(r) /\ Steady(v, r)
    BY <1>4, ConfigureGood
  <1> QED
    BY <1>3, <1>4, <1>5, SteadyTrans

\* start_ipv4ll(): the host is bonded to a link-local address.
LEMMA StartLinkLocalGood ==
    ASSUME NEW w, Base(w), Served(w), NEW e \in Environments,
           Calm => Tidy(w) /\ w.acd /\ w.kernel \subseteq Leave(w)
    PROVE  Good(start_ipv4ll(w, e)) /\ Steady(w, start_ipv4ll(w, e))
  <1> DEFINE v == [w EXCEPT !.local = e.random]
             r == start_acd(v, e)
  <1>1. w \in Networks /\ e.random \in MaybeAddress /\ e.random \in LinkLocal
    BY EnvironmentFacts, MaybeFacts DEF Base
  <1>2. v \in Networks
    BY <1>1 DEF Networks
  <1>3. /\ (v.acd <=> w.acd) /\ (v.connected <=> w.connected) /\ (v.active <=> w.active)
        /\ v.method = w.method /\ (v.dhcp <=> w.dhcp)
        /\ v.ll = w.ll /\ (v.ll_running <=> w.ll_running)
        /\ (v.dhcp_timeout <=> w.dhcp_timeout) /\ (v.ipv4ll_timeout <=> w.ipv4ll_timeout)
        /\ v.host = w.host /\ v.kernel = w.kernel /\ v.local = e.random
        /\ (v.gateway <=> w.gateway)
    BY <1>1 DEF Networks
  <1>4. start_ipv4ll(w, e) = r
    BY DEF start_ipv4ll
  <1> HIDE DEF v
  <1>5. Base(v) /\ Served(v) /\ Steady(w, v)
    BY <1>2, <1>3 DEF Base, Served, Steady
  <1>6. Leave(v) = Leave(w) /\ (w.acd => Leave(w) = LinkLocal)
    BY <1>3 DEF Leave
  <1>7. Calm => Tidy(v) /\ v.acd /\ v.kernel \subseteq Leave(v)
    BY <1>1, <1>3, <1>6 DEF Tidy
  <1>8. Good(r) /\ Steady(v, r)
    BY <1>5, <1>7, StartAcdGood
  <1> QED
    BY <1>4, <1>5, <1>8, SteadyTrans

-----------------------------------------------------------------------------
(***************************************************************************)
(* The DHCP client and its callbacks.                                      *)
(***************************************************************************)

\* ipv4ll_start() of a new client asks for the random address.
LEMMA LinkLocalStarted ==
    ASSUME NEW random \in LinkLocal
    PROVE  LET c == ipv4ll_start(NewLinkLocal, random)
           IN  c \in Clients /\ LinkLocalOK(c)
  <1>1. ipv4ll_start(NewLinkLocal, random) \in Clients
    BY NewLinkLocalOK, LinkLocalStartTyped
  <1> QED
    BY <1>1 DEF LinkLocalOK, NewLinkLocal, ipv4ll_start, g_dhcp_client_new,
                switch_listening_mode, remove_timeouts

\* no_lease_cb() starts the link-local client and takes the address off.
LEMMA NoLeaseGood ==
    ASSUME NEW w, Good(w), w.dhcp, NEW e \in Environments
    PROVE  Good(no_lease_cb(w, e)) /\ Steady(w, no_lease_cb(w, e))
  <1> DEFINE v == [w EXCEPT !.retry = TRUE]
             c == ipv4ll_start(NewLinkLocal, e.random)
             l == [v EXCEPT !.ll = c, !.ll_running = TRUE]
             r == dhcp_invalidate(l, FALSE)
  <1>0. w \in Networks
    BY DEF Good, Base
  <1>1. v \in Networks
    BY <1>0, Zenon DEF Networks
  <1>2. SameConfig(w, v)
    BY <1>0, <1>1 DEF SameConfig, Networks
  <1>3. no_lease_cb(w, e) = IF w.ll_running THEN v ELSE r
    BY DEF no_lease_cb, ipv4ll_start_client, NewLinkLocal
  <1> HIDE DEF v
  <1>4. Good(v) /\ Steady(w, v) /\ v.dhcp
    BY <1>2, SameConfigParts DEF SameConfig
  <1>5. c \in Clients /\ LinkLocalOK(c)
    BY EnvironmentFacts, LinkLocalStarted
  <1> HIDE DEF c
  <1>6. l \in Networks
    BY <1>1, <1>5, Zenon DEF Networks
  <1>7. /\ (l.acd <=> v.acd) /\ (l.connected <=> v.connected) /\ (l.active <=> v.active)
        /\ l.method = v.method /\ (l.dhcp <=> v.dhcp)
        /\ l.ll = c /\ l.ll_running
        /\ (l.dhcp_timeout <=> v.dhcp_timeout) /\ (l.ipv4ll_timeout <=> v.ipv4ll_timeout)
        /\ l.host = v.host /\ l.kernel = v.kernel /\ l.local = v.local
        /\ (l.gateway <=> v.gateway)
    BY <1>1 DEF Networks
  <1> HIDE DEF l
  <1>8. AddressOnly(l, r) /\ r.local = NoAddress /\ (l.method # "OFF" => l.local \notin r.kernel)
    BY <1>6, InvalidateEffect, Zenon
  <1> HIDE DEF r
  <1>9. r \in Networks /\ r.method \notin {"OFF", "MANUAL"} /\ r.dhcp
    BY <1>4, <1>7, <1>8 DEF AddressOnly, Good, Base
  <1>10. Base(r)
    BY <1>4, <1>7, <1>8, <1>9 DEF AddressOnly, Good, Base
  <1>11. Bonded(r) /\ Served(r)
    BY <1>4, <1>7, <1>8, <1>9 DEF AddressOnly, Good, Bonded, Served
  <1>12. Leave(r) = Leave(v) /\ Steady(v, r)
    BY <1>7, <1>8 DEF AddressOnly, Leave, Steady
  <1>13. ASSUME Calm PROVE Tidy(r)
    <2>1. Tidy(v) /\ v.connected
      BY <1>4, <1>13 DEF Good, Tidy
    <2>2. r.kernel \subseteq Leave(r)
      BY <1>7, <1>8, <1>9, <1>12, <2>1 DEF Tidy, AddressOnly
    <2> QED
      BY <1>5, <1>7, <1>8, <1>9, <1>12, <2>1, <2>2 DEF Tidy, AddressOnly
  <1>14. Good(r) /\ Steady(w, r)
    BY <1>4, <1>10, <1>11, <1>12, <1>13, SteadyTrans DEF Good
  <1> QED
    BY <1>3, <1>4, <1>14

\* A function of the DHCP client, with its callback.
LEMMA ClientDidGood ==
    ASSUME NEW w, Good(w), w.dhcp, NEW r, r.client \in Clients, NEW e \in Environments
    PROVE  Good(ClientDid(w, r, e)) /\ Steady(w, ClientDid(w, r, e))
  <1> DEFINE v == [w EXCEPT !.client = r.client]
  <1>1. w \in Networks
    BY DEF Good, Base
  <1>2. v \in Networks
    BY <1>1 DEF Networks
  <1>3. SameConfig(w, v)
    BY <1>1, <1>2 DEF SameConfig, Networks
  <1>4. ClientDid(w, r, e) = IF r.event = "no_lease" THEN no_lease_cb(v, e) ELSE v
    BY DEF ClientDid
  <1> HIDE DEF v
  <1>5. Good(v) /\ Steady(w, v) /\ v.dhcp
    BY <1>3, SameConfigParts DEF SameConfig
  <1>6. Good(no_lease_cb(v, e)) /\ Steady(v, no_lease_cb(v, e))
    BY <1>5, NoLeaseGood
  <1> QED
    BY <1>4, <1>5, <1>6, SteadyTrans

\* A step of the DHCP client alone.
LEMMA ClientOnlyGood ==
    ASSUME NEW w, Good(w), NEW c \in Clients
    PROVE  Good([w EXCEPT !.client = c]) /\ Steady(w, [w EXCEPT !.client = c])
  <1> DEFINE v == [w EXCEPT !.client = c]
  <1>1. w \in Networks
    BY DEF Good, Base
  <1>2. v \in Networks
    BY <1>1 DEF Networks
  <1>3. SameConfig(w, v)
    BY <1>1, <1>2 DEF SameConfig, Networks
  <1> HIDE DEF v
  <1>4. Good(v) /\ Steady(w, v)
    BY <1>3, SameConfigParts
  <1> QED
    BY <1>4 DEF v

\* set_connected_dhcp() starts DHCP, under its method and on a connected network.
LEMMA SetConnectedDhcpGood ==
    ASSUME NEW w, Base(w), Bonded(w), w.active \/ ~w.connected, w.method = "DHCP",
           ClientOK(w.client), NEW e \in Environments, Calm => Tidy(w) /\ w.connected
    PROVE  LET r == set_connected_dhcp(w, e)
           IN  Good(r) /\ Steady(w, r) /\ r \in Networks
  <1> DEFINE t == [w EXCEPT !.dhcp_timeout = FALSE]
             v == [t EXCEPT !.dhcp = TRUE]
             g == g_dhcp_client_start(t.client, t.last, e.opened)
             r == ClientDid(v, g, e)
  <1>1. w \in Networks /\ w.last \in MaybeAddress
    BY DEF Base, Networks
  <1>2. t \in Networks
    BY <1>1, Zenon DEF Networks
  <1>3. t.client = w.client /\ t.last = w.last
    BY <1>1 DEF Networks
  <1>4. v \in Networks
    BY <1>2, ZenonT(30) DEF Networks
  <1>5. /\ (v.acd <=> w.acd) /\ (v.connected <=> w.connected) /\ (v.active <=> w.active)
        /\ v.method = w.method /\ v.dhcp
        /\ v.ll = w.ll /\ (v.ll_running <=> w.ll_running)
        /\ ~v.dhcp_timeout /\ (v.ipv4ll_timeout <=> w.ipv4ll_timeout)
        /\ v.host = w.host /\ v.kernel = w.kernel /\ v.local = w.local
        /\ (v.gateway <=> w.gateway)
    BY <1>1 DEF Networks
  <1>6. set_connected_dhcp(w, e) = r
    BY DEF set_connected_dhcp, dhcp_start
  <1>7. g.client \in Clients
    BY <1>1, <1>3, EnvironmentFacts, StartOK DEF Started, ClientOK
  <1> HIDE DEF v, g
  <1>8. Base(v) /\ Bonded(v) /\ Served(v) /\ Steady(w, v)
    BY <1>4, <1>5 DEF Base, Bonded, Served, Steady
  <1>9. Leave(v) = Leave(w)
    BY <1>5 DEF Leave
  <1>10. Calm => Tidy(v)
    BY <1>5, <1>9 DEF Tidy
  <1>11. Good(v)
    BY <1>8, <1>10 DEF Good
  <1>12. Good(r) /\ Steady(v, r)
    BY <1>5, <1>7, <1>11, ClientDidGood
  <1> QED
    BY <1>6, <1>8, <1>12, SteadyTrans DEF Good, Base

\* __connman_network_enable_ipconfig(), for every method.
LEMMA EnableGood ==
    ASSUME NEW w, Base(w), ClientOK(w.client), w.method # "MANUAL" => Bonded(w),
           NEW e \in Environments,
           Calm => /\ Tidy(w) /\ w.connected
                   /\ w.method = "MANUAL" => w.kernel \subseteq Leave(w)
    PROVE  LET r == __connman_network_enable_ipconfig(w, e)
           IN  Good(r) /\ Steady(w, r)
  <1> DEFINE v == [w EXCEPT !.active = TRUE]
             f == connman_network_set_error(v)
             d == set_connected_dhcp(v, e)
             g == connman_network_set_error(d)
             r == EnableMethod(v, e)
  <1>1. w \in Networks
    BY DEF Base
  <1>2. v \in Networks /\ v.active /\ v.client = w.client
    BY <1>1, Zenon DEF Networks
  <1>3. SameConfig(w, v)
    BY <1>1, <1>2 DEF SameConfig, Networks
  <1>4. __connman_network_enable_ipconfig(w, e) = r
    BY DEF __connman_network_enable_ipconfig
  <1> HIDE DEF v
  <1>5. Base(v) /\ (v.method # "MANUAL" => Bonded(v)) /\ Steady(w, v)
        /\ (Calm => Tidy(v) /\ v.connected /\ (v.method = "MANUAL" => v.kernel \subseteq Leave(v)))
    BY <1>3, SameConfigParts DEF SameConfig
  <1>6. CASE v.method = "OFF"
    <2>1. Good(v)
      BY <1>2, <1>5, <1>6 DEF Good, Served
    <2>2. r = v
      BY <1>6 DEF EnableMethod
    <2> QED
      BY <1>4, <1>5, <2>1, <2>2
  <1>7. CASE v.method = "AUTO"
    <2>1. Quieter(v, f) /\ ~f.connected /\ Stopped(f.host)
      BY <1>2, SetErrorQuieter
    <2>2. r = f
      BY <1>7 DEF EnableMethod
    <2> HIDE DEF f
    <2>3. Good(f) /\ Steady(v, f)
      BY <1>5, <2>1, FailedGood
    <2> QED
      BY <1>4, <1>5, <2>2, <2>3, SteadyTrans
  <1>8. CASE v.method = "MANUAL"
    <2>1. r = set_connected_manual(v, e)
      BY <1>8 DEF EnableMethod
    <2>2. Served(v)
      BY <1>2, <1>8 DEF Served
    <2>3. Good(set_connected_manual(v, e)) /\ Steady(v, set_connected_manual(v, e))
      BY <1>5, <1>8, <2>2, ValidGood
    <2> QED
      BY <1>4, <1>5, <2>1, <2>3, SteadyTrans
  <1>9. CASE v.method = "DHCP"
    <2>1. r = IF StartFails(v, e) THEN g ELSE d
      BY <1>9 DEF EnableMethod, EnableDhcp
    <2>2. Good(d) /\ Steady(v, d) /\ d \in Networks
      BY <1>2, <1>5, <1>9, SetConnectedDhcpGood
    <2> HIDE DEF d
    <2>3. Quieter(d, g) /\ ~g.connected /\ Stopped(g.host)
      BY <2>2, SetErrorQuieter
    <2> HIDE DEF g
    <2>4. Good(g) /\ Steady(d, g)
      BY <2>2, <2>3, FailedGood DEF Good
    <2> QED
      BY <1>4, <1>5, <2>1, <2>2, <2>4, SteadyTrans
  <1> QED
    BY <1>2, <1>6, <1>7, <1>8, <1>9 DEF Networks, Methods

-----------------------------------------------------------------------------
\* An invalidated address: the link-local client may have been stopped before.
LEMMA InvalidateGood ==
    ASSUME NEW w, Good(w), NEW called \in BOOLEAN
    PROVE  LET r == dhcp_invalidate(w, called)
               s == dhcp_invalidate(ipv4ll_stop_client(w), called)
           IN  /\ Good(r) /\ Steady(w, r)
               /\ Good(s) /\ Steady(w, s) /\ Quieter(w, s) /\ ~s.ll_running
               /\ s.method = w.method /\ (s.dhcp <=> w.dhcp) /\ s.local = NoAddress
  <1> DEFINE r == dhcp_invalidate(w, called)
             l == ipv4ll_stop_client(w)
             s == dhcp_invalidate(l, called)
  <1>1. w \in Networks
    BY DEF Good, Base
  <1>2. AddressOnly(w, r)
    BY <1>1, InvalidateEffect
  <1>3. Quieter(w, l) /\ l \in Networks /\ ~l.ll_running /\ l.method = w.method
        /\ (l.dhcp <=> w.dhcp)
    BY <1>1, StopClientEffect DEF Quieter
  <1> HIDE DEF r, l
  <1>4. AddressOnly(l, s) /\ s.local = NoAddress
    BY <1>3, InvalidateEffect
  <1> HIDE DEF s
  <1>5. Good(r) /\ Steady(w, r)
    BY <1>2, AddressOnlyQuieter, QuieterGood DEF AddressOnly
  <1>6. Quieter(w, s) /\ ~s.ll_running /\ s.method = w.method /\ (s.dhcp <=> w.dhcp)
    BY <1>3, <1>4, AddressOnlyQuieter, QuieterTrans DEF AddressOnly
  <1>7. Good(s) /\ Steady(w, s)
    BY <1>6, QuieterGood
  <1> QED
    BY <1>4, <1>5, <1>6, <1>7 DEF r, s, l

\* The middle and the end of lease_available_cb(): the address of an earlier lease is
\* taken off before the new one is configured.
LEMMA LeaseRouterGood ==
    ASSUME NEW w, Good(w), w.dhcp, ~w.ll_running, NEW address \in Addresses,
           NEW router \in MaybeRouter, NEW resized, NEW c_gateway \in MaybeRouter,
           NEW e \in Environments,
           Calm /\ w.acd /\ w.local = address => router = c_gateway /\ ~resized
    PROVE  LET r == LeaseRouter(w, address, router, resized, c_gateway, e)
           IN  Good(r) /\ Steady(w, r)
  <1> DEFINE a == address_remove(w)
             u == IF w.local \notin {address, NoAddress} THEN a ELSE w
             b == u.gateway /\ (router = c_gateway \/ c_gateway = NoAddress)
             v == [u EXCEPT !.last = address, !.method = "DHCP", !.gateway = b]
             changed == w.local # address \/ router # c_gateway \/ resized
             y == [v EXCEPT !.local = address, !.router = router]
             r == dhcp_valid(y, e)
  <1>1. w \in Networks /\ w.method \in {"AUTO", "DHCP"}
    BY DEF Good, Base, Networks, Methods
  <1>2. AddressOnly(w, a) /\ a.local = NoAddress
    BY <1>1, RemoveAddressEffect
  <1> HIDE DEF a
  <1>3. AddressOnly(w, u) /\ u.local \in {address, NoAddress}
        /\ (w.local # address => u.local = NoAddress)
    BY <1>1, <1>2, QuietRefl
  <1>4. u \in Networks /\ u.dhcp /\ ~u.ll_running /\ u.method = w.method
    BY <1>3 DEF AddressOnly
  <1>5. LeaseRouter(w, address, router, resized, c_gateway, e) = IF changed THEN r ELSE v
    BY DEF LeaseRouter, Leased, u, a
  <1> HIDE DEF u
  <1>6. b \in BOOLEAN /\ (b => u.gateway)
    OBVIOUS
  <1>7. (u.acd <=> w.acd) /\ (v.acd <=> u.acd)
    BY <1>3, <1>4 DEF AddressOnly, Networks
  <1>8. Calm /\ changed /\ v.acd => u.local = NoAddress
    BY <1>3, <1>7
  <1> HIDE DEF b, changed
  <1>9. v \in Networks
    BY <1>4, <1>6, MaybeFacts, Zenon DEF Networks, Methods
  <1>10. Quieter(u, v) /\ (v.dhcp <=> u.dhcp) /\ v.local = u.local /\ v.method = "DHCP"
         /\ ~v.ll_running /\ v.kernel = u.kernel
    BY <1>1, <1>4, <1>6, <1>9 DEF Quieter, Networks
  <1> HIDE DEF v
  <1>11. Good(u) /\ Steady(w, u)
    BY <1>3, AddressOnlyQuieter, QuieterGood DEF AddressOnly
  <1>12. Good(v) /\ Steady(u, v) /\ v.dhcp
    BY <1>4, <1>10, <1>11, QuieterGood
  <1>13. y \in Networks
    BY <1>9, MaybeFacts, ZenonT(30) DEF Networks
  <1>14. /\ (y.acd <=> v.acd) /\ (y.connected <=> v.connected) /\ (y.active <=> v.active)
         /\ y.method = v.method /\ (y.dhcp <=> v.dhcp)
         /\ y.ll = v.ll /\ (y.ll_running <=> v.ll_running)
         /\ (y.dhcp_timeout <=> v.dhcp_timeout) /\ (y.ipv4ll_timeout <=> v.ipv4ll_timeout)
         /\ y.host = v.host /\ y.kernel = v.kernel /\ y.local = address
         /\ (y.gateway <=> v.gateway)
    BY <1>9 DEF Networks
  <1> HIDE DEF y
  <1>15. Base(y) /\ Served(y) /\ Steady(v, y)
    BY <1>12, <1>13, <1>14 DEF Good, Base, Served, Steady
  <1>16. Leave(y) = Leave(v)
    BY <1>14 DEF Leave
  <1>17. ASSUME Calm, changed
         PROVE  Tidy(y) /\ y.connected /\ (y.acd => y.kernel \subseteq Leave(y))
    <2>1. Tidy(v) /\ v.connected /\ (v.acd => v.local = NoAddress)
      BY <1>8, <1>10, <1>12, <1>17, ZenonT(30) DEF Good, Tidy
    <2>2. v.kernel \ {v.local} \subseteq Leave(v)
      BY <2>1 DEF Tidy
    <2>3. NoAddress \notin v.kernel
      BY <1>9, AcdAssumption DEF Networks
    <2>4. v.acd => v.kernel \subseteq Leave(v)
      BY <2>1, <2>2, <2>3
    <2>5. v.kernel \ {address} \subseteq Leave(v)
      BY <1>3, <1>10, <2>2, <2>3
    <2>6. ~v.acd => ~Probing(v.host) /\ ~v.ipv4ll_timeout
      BY <1>12, <2>1 DEF Tidy, Good, Base, HostOK, Probing
    <2>7. Probing(v.host) \/ v.ipv4ll_timeout => v.kernel \subseteq Leave(v)
      BY <2>4, <2>6
    <2> QED
      BY <1>10, <1>14, <1>16, <2>1, <2>4, <2>5, <2>7, Zenon DEF Tidy
  <1>18. changed => Good(r) /\ Steady(y, r)
    BY <1>15, <1>17, ValidGood
  <1> HIDE DEF r
  <1> QED
    BY <1>5, <1>11, <1>12, <1>15, <1>18, SteadyTrans

\* lease_available_cb() ends the link-local client before it configures the lease.
LEMMA LeaseAvailableGood ==
    ASSUME NEW w, Good(w), w.dhcp, NEW address \in Addresses, NEW router \in MaybeRouter,
           NEW resized, NEW e \in Environments,
           Calm /\ w.acd /\ w.local = address => router = w.router /\ ~resized
    PROVE  LET r == lease_available_cb(w, address, router, resized, e)
           IN  Good(r) /\ Steady(w, r)
  <1> DEFINE s == dhcp_invalidate(ipv4ll_stop_client(w), FALSE)
             u == IF w.ll_running THEN s ELSE w
             g == IF u.local \notin {address, NoAddress} /\ u.method \in {"AUTO", "DHCP"}
                  THEN NoAddress ELSE u.router
             r == LeaseRouter(u, address, router, resized, g, e)
  <1>0. address # NoAddress
    BY AcdAssumption
  <1>1. Good(s) /\ Steady(w, s) /\ ~s.ll_running /\ (s.dhcp <=> w.dhcp) /\ s.local = NoAddress
    BY InvalidateGood, ZenonT(30)
  <1> HIDE DEF s
  <1>2. Good(u) /\ Steady(w, u) /\ ~u.ll_running /\ u.dhcp
    BY <1>1 DEF Steady
  <1>3. lease_available_cb(w, address, router, resized, e) = r
    BY DEF lease_available_cb, LeaseAddress, u, s
  <1>u. u.local = address => u = w
    BY <1>0, <1>1
  <1> HIDE DEF u
  <1>4. g \in MaybeRouter
    BY <1>2 DEF Good, Base, Networks, MaybeRouter
  <1>g. Calm /\ u.acd /\ u.local = address => router = g /\ ~resized
    BY <1>u
  <1> HIDE DEF g
  <1>5. Good(r) /\ Steady(u, r)
    BY <1>2, <1>4, <1>g, LeaseRouterGood
  <1> QED
    BY <1>2, <1>3, <1>5, SteadyTrans

-----------------------------------------------------------------------------
(***************************************************************************)
(* The link-local client and its callbacks.                                *)
(***************************************************************************)

\* A link-local client that is not new is one that runs, and DHCP runs with it.
LEMMA LinkLocalRuns ==
    ASSUME NEW w, Good(w), w.ll # NewLinkLocal
    PROVE  w.dhcp /\ (Calm => w.ll_running /\ w.connected)
  BY DEF Good, Base, Tidy

\* A step of the link-local client that makes no callback.
LEMMA LinkLocalStep ==
    ASSUME NEW w, Good(w), w.ll # NewLinkLocal, NEW c \in Clients,
           Calm => /\ LinkLocalOK(c)
                   /\ c.state \notin {"IPV4LL_MONITOR", "IPV4LL_DEFEND"} =>
                         w.ll.state \notin {"IPV4LL_MONITOR", "IPV4LL_DEFEND"}
    PROVE  Good([w EXCEPT !.ll = c]) /\ Steady(w, [w EXCEPT !.ll = c])
  <1> DEFINE v == [w EXCEPT !.ll = c]
  <1>1. w \in Networks /\ w.dhcp /\ (Calm => w.ll_running /\ w.connected)
    BY LinkLocalRuns DEF Good, Base
  <1>2. v \in Networks
    BY <1>1 DEF Networks
  <1>3. /\ (v.acd <=> w.acd) /\ (v.connected <=> w.connected) /\ (v.active <=> w.active)
        /\ v.method = w.method /\ (v.dhcp <=> w.dhcp)
        /\ v.ll = c /\ (v.ll_running <=> w.ll_running)
        /\ (v.dhcp_timeout <=> w.dhcp_timeout) /\ (v.ipv4ll_timeout <=> w.ipv4ll_timeout)
        /\ v.host = w.host /\ v.kernel = w.kernel /\ v.local = w.local
        /\ (v.gateway <=> w.gateway)
    BY <1>1 DEF Networks
  <1> HIDE DEF v
  <1>4. Base(v) /\ Bonded(v) /\ Served(v) /\ Steady(w, v)
    BY <1>1, <1>2, <1>3 DEF Good, Base, Bonded, Served, Steady
  <1>5. Leave(v) = Leave(w)
    BY <1>3 DEF Leave
  <1>6. Calm => Tidy(v)
    BY <1>1, <1>3, <1>5 DEF Good, Tidy
  <1>7. Good(v) /\ Steady(w, v)
    BY <1>4, <1>6 DEF Good
  <1> QED
    BY <1>7 DEF v

\* ipv4ll_available_cb() finds no address but a link-local one, and configures the one
\* the client has got.
LEMMA LinkLocalAvailableGood ==
    ASSUME NEW w, Good(w), w.ll # NewLinkLocal, NEW c \in Clients, Calm => LinkLocalOK(c),
           c.state = "IPV4LL_MONITOR",
           Calm => w.ll.state \notin {"IPV4LL_MONITOR", "IPV4LL_DEFEND"},
           NEW e \in Environments
    PROVE  LET r == ipv4ll_available_cb([w EXCEPT !.ll = c], e)
           IN  Good(r) /\ Steady(w, r)
  <1> DEFINE v == [w EXCEPT !.ll = c]
             y == [v EXCEPT !.method = "AUTO", !.local = v.ll.assigned_ip, !.router = NoAddress]
             r == dhcp_valid(y, e)
  <1>1. w \in Networks /\ w.dhcp /\ (Calm => w.ll_running /\ w.connected)
        /\ c.assigned_ip \in MaybeAddress
    BY LinkLocalRuns DEF Good, Base, Clients
  <1>2. v \in Networks /\ v.ll = c
    BY <1>1 DEF Networks
  <1>3. y \in Networks
    BY <1>1, <1>2, MaybeFacts, ZenonT(30) DEF Networks, Methods, MaybeRouter
  <1>4. /\ (y.acd <=> w.acd) /\ (y.connected <=> w.connected) /\ (y.active <=> w.active)
        /\ y.method = "AUTO" /\ (y.dhcp <=> w.dhcp)
        /\ y.ll = c /\ (y.ll_running <=> w.ll_running)
        /\ (y.dhcp_timeout <=> w.dhcp_timeout) /\ (y.ipv4ll_timeout <=> w.ipv4ll_timeout)
        /\ y.host = w.host /\ y.kernel = w.kernel /\ y.local = c.assigned_ip
        /\ (y.gateway <=> w.gateway)
    BY <1>1 DEF Networks
  <1>5. ipv4ll_available_cb(v, e) = r
    BY DEF ipv4ll_available_cb
  <1> HIDE DEF y
  <1>6. Base(y) /\ Served(y) /\ Steady(w, y)
    BY <1>1, <1>3, <1>4 DEF Good, Base, Served, Steady
  <1>7. Leave(y) = Leave(w) /\ Leave(w) = IF w.acd THEN LinkLocal ELSE {}
    BY <1>4 DEF Leave
  <1>8. ASSUME Calm PROVE Tidy(y) /\ y.connected /\ y.kernel \subseteq Leave(y)
    <2>1. Tidy(w)
      BY <1>8 DEF Good
    <2>2. w.kernel \subseteq Leave(w)
      BY <1>1, <1>7, <1>8, <2>1, AcdAssumption DEF Tidy, Networks
    <2> QED
      BY <1>1, <1>4, <1>7, <1>8, <2>1, <2>2 DEF Tidy, LinkLocalOK
  <1>9. Good(r) /\ Steady(y, r)
    BY <1>6, <1>8, ValidGood
  <1> QED
    BY <1>5, <1>6, <1>9, SteadyTrans

\* ipv4ll_lost_cb() stops the client and takes the address off.
LEMMA LinkLocalLostGood ==
    ASSUME NEW w, Good(w), NEW c \in Clients
    PROVE  LET r == ipv4ll_lost_cb([w EXCEPT !.ll = c])
           IN  Good(r) /\ Steady(w, r)
  <1> DEFINE v == [w EXCEPT !.ll = c]
  <1>1. w \in Networks
    BY DEF Good, Base
  <1>2. ipv4ll_stop_client(v) = ipv4ll_stop_client(w)
    BY <1>1, Zenon DEF ipv4ll_stop_client, Networks
  <1>3. ipv4ll_lost_cb(v) = dhcp_invalidate(ipv4ll_stop_client(w), TRUE)
    BY <1>2 DEF ipv4ll_lost_cb
  <1> QED
    BY <1>3, InvalidateGood, ZenonT(30)

-----------------------------------------------------------------------------
\* A probe of the link-local client: it has no address yet.
LEMMA LinkLocalProbeOK ==
    ASSUME NEW c \in Clients, LinkLocalOK(c), NEW random \in LinkLocal, NEW opened \in BOOLEAN,
           c.state \notin {"IPV4LL_MONITOR", "IPV4LL_DEFEND"}
    PROVE  LET r == ipv4ll_send_probe(c, random, opened)
           IN  LinkLocalOK(r)
  <1> DEFINE p == IF c.requested_ip = NoAddress THEN [c EXCEPT !.requested_ip = random] ELSE c
             q == [p EXCEPT !.state = "IPV4LL_PROBE"]
             s == switch_listening_mode(q, "L_ARP", opened)
             l == IF p.retry_times = 1 THEN s ELSE p
             r == [l EXCEPT !.timeout = "ipv4ll_probe_timeout"]
  <1>1. p \in Clients /\ p.requested_ip \in LinkLocal \union {NoAddress}
        /\ p.assigned_ip = c.assigned_ip /\ p.state = c.state
    BY MaybeFacts DEF Clients, LinkLocalOK
  <1> HIDE DEF p
  <1>2. q \in Clients /\ q.requested_ip = p.requested_ip /\ q.assigned_ip = p.assigned_ip
        /\ q.state = "IPV4LL_PROBE"
    <2>1. q \in Clients
      BY <1>1 DEF Clients, ClientStates
    <2> QED
      BY <1>1, <2>1 DEF Clients
  <1> HIDE DEF q
  <1>3. s \in Clients
    BY <1>2, SwitchEffect DEF SameLease
  <1>4. s.requested_ip = q.requested_ip /\ s.assigned_ip = q.assigned_ip /\ s.state = q.state
    BY <1>2 DEF Clients, switch_listening_mode
  <1> HIDE DEF s
  <1>5. l \in Clients /\ l.requested_ip = p.requested_ip /\ l.assigned_ip = p.assigned_ip
        /\ l.state \notin {"IPV4LL_MONITOR", "IPV4LL_DEFEND"}
    BY <1>1, <1>2, <1>3, <1>4
  <1> HIDE DEF l
  <1>6. r.requested_ip = l.requested_ip /\ r.assigned_ip = l.assigned_ip /\ r.state = l.state
    BY <1>5 DEF Clients
  <1>7. ipv4ll_send_probe(c, random, opened) = r
    BY DEF ipv4ll_send_probe, l, s, q, p
  <1> HIDE DEF r
  <1>8. LinkLocalOK(r)
    BY <1>1, <1>5, <1>6 DEF LinkLocalOK
  <1> QED
    BY <1>7, <1>8

\* The timers of the link-local client.
LEMMA LinkLocalTimersOK ==
    ASSUME NEW c \in Clients, LinkLocalOK(c), NEW random \in LinkLocal, NEW opened \in BOOLEAN
    PROVE  /\ c.timeout \in {"send_probe_packet", "ipv4ll_probe_timeout"} =>
                 /\ LinkLocalOK(ipv4ll_send_probe(c, random, opened))
                 /\ LinkLocalOK(ipv4ll_probe_timeout(c, random, opened))
           /\ c.timeout = "ipv4ll_announce_timeout" =>
                 LinkLocalOK(ipv4ll_announce_timeout(c).client)
           /\ LinkLocalOK(ipv4ll_defend_timeout(c))
  <1>1. ASSUME c.timeout \in {"send_probe_packet", "ipv4ll_probe_timeout"}
        PROVE  LinkLocalOK(ipv4ll_send_probe(c, random, opened))
    BY <1>1, LinkLocalProbeOK DEF LinkLocalOK
  <1>2. ASSUME c.timeout \in {"send_probe_packet", "ipv4ll_probe_timeout"}
        PROVE  LinkLocalOK(ipv4ll_probe_timeout(c, random, opened))
    <2> DEFINE a == [c EXCEPT !.state = "IPV4LL_ANNOUNCE", !.retry_times = 1]
               b == [c EXCEPT !.retry_times = @ + 1]
               s == ipv4ll_send_announce(a)
    <2>1. b \in Clients /\ LinkLocalOK(b) /\ b.state = c.state
      BY DEF Clients, LinkLocalOK
    <2>2. a \in Clients /\ a.state = "IPV4LL_ANNOUNCE" /\ a.requested_ip = c.requested_ip
          /\ a.assigned_ip = c.assigned_ip
      <3>1. a \in Clients
        BY Zenon DEF Clients, ClientStates
      <3> QED
        BY <3>1 DEF Clients
    <2> HIDE DEF a, b
    <2>3. LinkLocalOK(ipv4ll_send_probe(b, random, opened))
      BY <1>2, <2>1, LinkLocalProbeOK DEF LinkLocalOK
    <2>4. s.state = "IPV4LL_ANNOUNCE" /\ s.requested_ip = c.requested_ip
          /\ s.assigned_ip = c.assigned_ip
      BY <2>2 DEF Clients, ipv4ll_send_announce, remove_timeouts
    <2> HIDE DEF s
    <2>5. LinkLocalOK(s)
      BY <2>4 DEF LinkLocalOK
    <2> QED
      BY <2>3, <2>5 DEF ipv4ll_probe_timeout, a, b, s
  <1>3. ASSUME c.timeout = "ipv4ll_announce_timeout"
        PROVE  LinkLocalOK(ipv4ll_announce_timeout(c).client)
    <2> DEFINE a == [c EXCEPT !.retry_times = @ + 1]
               s == ipv4ll_send_announce(a)
               m == [c EXCEPT !.state = "IPV4LL_MONITOR", !.timeout = "none",
                              !.assigned_ip = c.requested_ip]
    <2>1. a \in Clients /\ a.state = c.state /\ a.requested_ip = c.requested_ip
          /\ a.assigned_ip = c.assigned_ip
      BY DEF Clients
    <2>2. LinkLocalOK(m)
      BY DEF Clients, LinkLocalOK
    <2> HIDE DEF a, m
    <2>3. s.state = c.state /\ s.requested_ip = c.requested_ip /\ s.assigned_ip = c.assigned_ip
      BY <2>1 DEF Clients, ipv4ll_send_announce, remove_timeouts
    <2> HIDE DEF s
    <2>4. LinkLocalOK(s)
      BY <1>3, <2>3 DEF LinkLocalOK
    <2>5. ipv4ll_announce_timeout(c).client = IF c.retry_times # ANNOUNCE_NUM THEN s ELSE m
      BY DEF ipv4ll_announce_timeout, s, a, m
    <2> QED
      BY <2>2, <2>4, <2>5
  <1>4. LinkLocalOK(ipv4ll_defend_timeout(c))
    BY DEF Clients, LinkLocalOK, ipv4ll_defend_timeout
  <1> QED
    BY <1>1, <1>2, <1>3, <1>4

\* An ARP packet about the address of the link-local client: it is given up, unless it
\* is held and can be defended.
LEMMA LinkLocalReceiveOK ==
    ASSUME NEW c \in Clients, LinkLocalOK(c), NEW source \in BOOLEAN
    PROVE  LET r == ipv4ll_recv_arp_packet(c, source)
           IN  /\ LinkLocalOK(r.client)
               /\ r.event # "ipv4ll_lost" =>
                     \/ r.client.state \in {"IPV4LL_MONITOR", "IPV4LL_DEFEND"}
                     \/ c.state \notin {"IPV4LL_MONITOR", "IPV4LL_DEFEND"}
  <1> DEFINE d == [c EXCEPT !.state = "IPV4LL_DEFEND"]
             a == ipv4ll_send_announce(d)
             l == switch_listening_mode(c, "L_NONE", TRUE)
             t == remove_timeouts(l)
             s == [t EXCEPT !.listener_watch = FALSE, !.state = "IPV4LL_PROBE",
                            !.retry_times = 0, !.requested_ip = NoAddress,
                            !.assigned_ip = NoAddress]
             p == [s EXCEPT !.retry_times = 1, !.timeout = "send_probe_packet"]
             r == ipv4ll_recv_arp_packet(c, source)
  <1>1. r = IF c.state = "IPV4LL_MONITOR" \/ (c.state = "IPV4LL_DEFEND" /\ ~source)
            THEN [client |-> IF source THEN a ELSE c, event |-> "none"]
            ELSE [client |-> p,
                  event |-> IF c.state = "IPV4LL_DEFEND" THEN "ipv4ll_lost" ELSE "none"]
    BY DEF ipv4ll_recv_arp_packet, ipv4ll_stop
  <1>2. d \in Clients /\ d.state = "IPV4LL_DEFEND" /\ d.requested_ip = c.requested_ip
        /\ d.assigned_ip = c.assigned_ip
    <2>1. d \in Clients
      BY DEF Clients, ClientStates
    <2> QED
      BY <2>1 DEF Clients
  <1> HIDE DEF d
  <1>3. a.state = "IPV4LL_DEFEND" /\ a.requested_ip = c.requested_ip
        /\ a.assigned_ip = c.assigned_ip /\ a.timeout = "ipv4ll_defend_timeout"
    BY <1>2 DEF Clients, ipv4ll_send_announce, remove_timeouts
  <1> HIDE DEF a
  <1>4. LinkLocalOK(a)
    BY <1>3 DEF LinkLocalOK
  <1>5. t \in Clients
    BY ClearedTyped, Zenon
  <1> HIDE DEF t
  <1>6. s \in Clients /\ s.state = "IPV4LL_PROBE" /\ s.requested_ip = NoAddress
        /\ s.assigned_ip = NoAddress
    <2>1. s \in Clients
      BY <1>5, MaybeFacts, Zenon DEF Clients, ClientStates
    <2> QED
      BY <1>5, <2>1 DEF Clients
  <1> HIDE DEF s
  <1>7. p.state = "IPV4LL_PROBE" /\ p.requested_ip = NoAddress /\ p.assigned_ip = NoAddress
    BY <1>6 DEF Clients
  <1> HIDE DEF p
  <1>8. LinkLocalOK(p)
    BY <1>7 DEF LinkLocalOK
  <1> HIDE DEF r
  <1>9. LinkLocalOK(r.client)
        /\ (r.event # "ipv4ll_lost" =>
               \/ r.client.state \in {"IPV4LL_MONITOR", "IPV4LL_DEFEND"}
               \/ c.state \notin {"IPV4LL_MONITOR", "IPV4LL_DEFEND"})
    BY <1>1, <1>3, <1>4, <1>8
  <1> QED
    BY <1>9 DEF r

\* The callbacks of the ACD host.  A step of the host itself, that starts no probe.
LEMMA HostStep ==
    ASSUME NEW w, Good(w), NEW h \in Hosts, HostOK(h), w.host.listen_on,
           Probing(h) => Probing(w.host) /\ h.requested_ip = w.host.requested_ip
    PROVE  LET v == [w EXCEPT !.host = h]
           IN  /\ Good(v) /\ Steady(w, v) /\ v.kernel = w.kernel /\ v.local = w.local
               /\ v.host = h /\ v.method = w.method /\ (v.connected <=> w.connected)
               /\ v.client = w.client /\ (v.ipv4ll_timeout <=> w.ipv4ll_timeout)
               /\ (v.dhcp <=> w.dhcp) /\ v \in Networks
               /\ Calm => w.acd
  <1> DEFINE v == [w EXCEPT !.host = h]
  <1>1. w \in Networks
    BY DEF Good, Base
  <1>2. v \in Networks
    BY <1>1 DEF Networks
  <1>3. /\ (v.acd <=> w.acd) /\ (v.connected <=> w.connected) /\ (v.active <=> w.active)
        /\ v.method = w.method /\ (v.dhcp <=> w.dhcp) /\ v.client = w.client
        /\ v.ll = w.ll /\ (v.ll_running <=> w.ll_running)
        /\ (v.dhcp_timeout <=> w.dhcp_timeout) /\ (v.ipv4ll_timeout <=> w.ipv4ll_timeout)
        /\ v.host = h /\ v.kernel = w.kernel /\ v.local = w.local
        /\ (v.gateway <=> w.gateway)
    BY <1>1 DEF Networks
  <1> HIDE DEF v
  <1>4. Base(v) /\ Served(v) /\ Steady(w, v)
    BY <1>2, <1>3 DEF Good, Base, Served, Steady
  <1>5. Bonded(v)
    BY <1>3 DEF Good, Bonded
  <1>6. Leave(v) = Leave(w)
    BY <1>3 DEF Leave
  <1>7. Calm => w.acd
    BY DEF Good, Tidy
  <1>8. Calm => Tidy(v)
    BY <1>3, <1>6, <1>7, Zenon DEF Good, Tidy
  <1>9. Good(v) /\ Steady(w, v)
    BY <1>4, <1>5, <1>8 DEF Good
  <1> QED
    BY <1>2, <1>3, <1>7, <1>9 DEF v

\* An address may appear only when the host ends the announcement of it.
Probed(w, r) ==
    /\ r.acd <=> w.acd
    /\ w.acd => \A a \in r.kernel \ w.kernel :
                   w.host.state = "ANNOUNCE" /\ w.host.requested_ip = a

\* No address appears: in particular none that was not probed.
LEMMA SteadyProbed ==
    ASSUME NEW w, NEW r, Steady(w, r)
    PROVE  Probed(w, r)
  BY DEF Steady, Probed

\* acd_host_ipv4_available(): by the bond the local address is the one announced.
LEMMA AvailableGood ==
    ASSUME NEW w, Good(w), w.host.timeout = "announce", w.connected \/ LateAcd,
           NEW h \in Hosts, HostOK(h), ~Probing(h)
    PROVE  LET r == acd_host_ipv4_available([w EXCEPT !.host = h])
           IN  Good(r) /\ (~LateAcd => Probed(w, r))
  <1> DEFINE v == [w EXCEPT !.host = h]
             a == AddAddress(v)
             f == connman_network_set_error(v)
  <1>1. w.host.listen_on /\ w.host.state = "ANNOUNCE" /\ w \in Networks
    BY DEF Good, Base, HostOK
  <1>2. /\ Good(v) /\ Steady(w, v) /\ v.kernel = w.kernel /\ v.local = w.local /\ v.host = h
        /\ v.method = w.method /\ (v.connected <=> w.connected) /\ v \in Networks
        /\ (v.ipv4ll_timeout <=> w.ipv4ll_timeout)
    BY <1>1, HostStep
  <1>3. acd_host_ipv4_available(v) = IF CanAdd(v) THEN a ELSE f
    BY DEF acd_host_ipv4_available, Install
  <1> HIDE DEF v
  <1>4. CASE CanAdd(v)
    <2>1. Leave(v) = Leave(w)
      BY <1>2 DEF Leave, Steady
    <2>2. Calm => /\ Tidy(v) /\ v.connected
                  /\ v.kernel \subseteq Leave(v) /\ ~Probing(v.host) /\ ~v.ipv4ll_timeout
      BY <1>2, <2>1, ZenonT(30) DEF Good, Tidy, Calm, Probing
    <2>3. Good(a) /\ (a.acd <=> v.acd) /\ a.kernel \subseteq v.kernel \union {v.local}
      BY <1>2, <1>4, <2>2, AddGood, ZenonT(30) DEF Good
    <2>4. ASSUME ~LateAcd PROVE Probed(w, a)
      <3>1. w.acd => w.local \in {w.host.requested_ip, NoAddress}
        BY <2>4 DEF Good, Bonded, Probing
      <3>2. NoAddress \notin a.kernel
        BY <2>3, AcdAssumption DEF Good, Base, Networks
      <3> QED
        BY <1>1, <1>2, <2>3, <3>1, <3>2 DEF Probed, Steady
    <2> QED
      BY <1>3, <1>4, <2>3, <2>4 DEF v
  <1>5. CASE ~CanAdd(v)
    <2>1. Quieter(v, f) /\ ~f.connected /\ Stopped(f.host)
      BY <1>2, SetErrorQuieter
    <2> HIDE DEF f
    <2>2. Good(f) /\ Steady(v, f)
      BY <1>2, <2>1, FailedGood DEF Good
    <2>3. Probed(w, f)
      BY <1>2, <2>2, SteadyTrans, SteadyProbed
    <2> QED
      BY <1>3, <1>5, <2>2, <2>3 DEF v
  <1> QED
    BY <1>4, <1>5

\* acd_host_ipv4_lost() takes the address off before it looks for another.
LEMMA LostGood ==
    ASSUME NEW w, Good(w), ClientOK(w.client), w.host.listen_on, w.connected \/ LateAcd,
           NEW h \in Hosts, HostOK(h), ~Probing(h), NEW e \in Environments
    PROVE  LET r == acd_host_ipv4_lost([w EXCEPT !.host = h], e)
           IN  Good(r) /\ Steady(w, r)
  <1> DEFINE v == [w EXCEPT !.host = h]
             u == address_remove(v)
             r == acd_host_ipv4_lost(v, e)
  <1>1. /\ Good(v) /\ Steady(w, v) /\ (v.connected <=> w.connected) /\ v \in Networks
        /\ v.client = w.client /\ (Calm => w.acd)
    BY HostStep
  <1> HIDE DEF v
  <1>2. AddressOnly(v, u) /\ (v.method # "OFF" => v.local \notin u.kernel)
    BY <1>1, RemoveAddressEffect
  <1>3. r = IF v.method = "DHCP" THEN __connman_network_enable_ipconfig(u, e)
                                 ELSE start_ipv4ll(u, e)
    BY DEF acd_host_ipv4_lost
  <1> HIDE DEF u
  <1>4. Good(u) /\ Steady(v, u)
    BY <1>1, <1>2, AddressOnlyQuieter, QuieterGood DEF AddressOnly
  <1>5. CASE v.method = "DHCP"
    <2>1. Good(r) /\ Steady(u, r)
      BY <1>1, <1>2, <1>3, <1>4, <1>5, EnableGood, ZenonT(30) DEF Good, AddressOnly, Calm
    <2> QED
      BY <1>1, <1>4, <2>1, SteadyTrans DEF v
  <1>6. CASE v.method # "DHCP"
    <2>1. Leave(u) = Leave(v)
      BY <1>2 DEF Leave, AddressOnly
    <2>2. Calm => u.kernel \subseteq Leave(u)
      <3>1. u.kernel \subseteq v.kernel /\ NoAddress \notin v.kernel
        BY <1>1, <1>2, AcdAssumption DEF Networks, AddressOnly
      <3>2. Calm => /\ v.kernel \ {v.local} \subseteq Leave(v)
                    /\ v.method = "OFF" => v.local \in Leave(v) \union {NoAddress}
        BY <1>1, Zenon DEF Good, Tidy
      <3> QED
        BY <1>2, <2>1, <3>1, <3>2
    <2>3. Base(u) /\ Served(u) /\ (Calm => Tidy(u)) /\ (Calm => u.acd)
      BY <1>1, <1>2, <1>4, ZenonT(30) DEF Good, AddressOnly, Steady
    <2>4. Good(start_ipv4ll(u, e)) /\ Steady(u, start_ipv4ll(u, e))
      BY <2>2, <2>3, StartLinkLocalGood
    <2>5. Good(r) /\ Steady(u, r)
      BY <1>3, <1>6, <2>4
    <2> QED
      BY <1>1, <1>4, <2>5, SteadyTrans DEF v
  <1> QED
    BY <1>5, <1>6

\* __connman_dhcp_decline() touches the client only.
LEMMA DeclineSame ==
    ASSUME NEW w \in Networks, ClientOK(w.client)
    PROVE  SameConfig(w, dhcp_decline(w))
  <1> DEFINE v == [w EXCEPT !.client = g_dhcp_client_decline(w.client)]
  <1>1. g_dhcp_client_decline(w.client) \in Clients
    BY DeclineOK DEF ClientOK
  <1>2. v \in Networks
    BY <1>1 DEF Networks
  <1>3. SameConfig(w, v) /\ SameConfig(w, w)
    BY <1>2 DEF SameConfig, Networks
  <1> HIDE DEF v
  <1>4. dhcp_decline(w) = IF w.dhcp /\ w.local # NoAddress THEN v ELSE w
    BY DEF dhcp_decline, v
  <1> QED
    BY <1>3, <1>4

\* acd_host_ipv4_conflict(): the address that was probed was not in use.
LEMMA ConflictGood ==
    ASSUME NEW w, Good(w), ClientOK(w.client), Probing(w.host), w.connected \/ LateAcd,
           NEW h \in Hosts, HostOK(h), ~Probing(h), NEW e \in Environments
    PROVE  LET r == acd_host_ipv4_conflict([w EXCEPT !.host = h], e)
           IN  Good(r) /\ Steady(w, r)
  <1> DEFINE v == [w EXCEPT !.host = h]
             d == dhcp_decline(v)
             p == [d EXCEPT !.dhcp_timeout = TRUE, !.local = NoAddress]
             m == [v EXCEPT !.method = "AUTO"]
             a == dhcp_decline(m)
             r == acd_host_ipv4_conflict(v, e)
  <1>1. w.host.listen_on
    BY DEF Good, Base, HostOK, Probing
  <1>2. /\ Good(v) /\ Steady(w, v) /\ (v.connected <=> w.connected) /\ v \in Networks
        /\ v.kernel = w.kernel /\ v.client = w.client /\ v.host = h /\ (Calm => w.acd)
    BY <1>1, HostStep
  <1> HIDE DEF v
  <1>3. Leave(v) = Leave(w)
    BY <1>2 DEF Leave, Steady
  <1>4. Calm => Tidy(v) /\ v.kernel \subseteq Leave(v) /\ v.acd /\ v.connected
    BY <1>2, <1>3, Zenon DEF Good, Tidy, Steady, Calm
  <1>5. CASE v.method = "DHCP" /\ v.host.conflicts < 2
    <2>1. r = p
      BY <1>5 DEF acd_host_ipv4_conflict
    <2>2. SameConfig(v, d) /\ d \in Networks
      BY <1>2, DeclineSame DEF SameConfig
    <2> HIDE DEF d
    <2>3. p \in Networks
      BY <2>2, MaybeFacts, ZenonT(30) DEF Networks
    <2>4. /\ (p.acd <=> d.acd) /\ (p.connected <=> d.connected) /\ (p.active <=> d.active)
          /\ p.method = d.method /\ (p.dhcp <=> d.dhcp)
          /\ p.ll = d.ll /\ (p.ll_running <=> d.ll_running)
          /\ (p.ipv4ll_timeout <=> d.ipv4ll_timeout)
          /\ p.host = d.host /\ p.kernel = d.kernel /\ p.local = NoAddress
          /\ (p.gateway <=> d.gateway)
      BY <2>2 DEF Networks
    <2> HIDE DEF p
    <2>5. Good(d) /\ Steady(v, d) /\ (Calm => d.kernel \subseteq Leave(d))
      BY <1>2, <1>4, <2>2, SameConfigParts
    <2>6. Base(p) /\ Bonded(p) /\ Served(p) /\ Steady(d, p)
      BY <2>3, <2>4, <2>5, ZenonT(30) DEF Good, Base, Bonded, Served, Steady
    <2>7. Leave(p) = Leave(d)
      BY <2>4 DEF Leave
    <2>8. Calm => Tidy(p)
      BY <1>4, <1>5, <2>2, <2>4, <2>5, <2>7, ZenonT(30) DEF Good, Tidy, SameConfig
    <2>9. Good(p) /\ Steady(w, p)
      BY <1>2, <2>5, <2>6, <2>8, SteadyTrans, Zenon DEF Good
    <2> QED
      BY <2>1, <2>9 DEF v
  <1>6. CASE v.method = "DHCP" /\ ~(v.host.conflicts < 2)
    <2>1. r = start_ipv4ll(a, e)
      BY <1>6 DEF acd_host_ipv4_conflict
    <2>2. m \in Networks
      BY <1>2 DEF Networks, Methods
    <2>3. /\ (m.acd <=> v.acd) /\ (m.connected <=> v.connected) /\ (m.active <=> v.active)
          /\ m.method = "AUTO" /\ (m.dhcp <=> v.dhcp) /\ m.client = v.client
          /\ m.ll = v.ll /\ (m.ll_running <=> v.ll_running)
          /\ (m.dhcp_timeout <=> v.dhcp_timeout) /\ (m.ipv4ll_timeout <=> v.ipv4ll_timeout)
          /\ m.host = v.host /\ m.kernel = v.kernel /\ m.local = v.local
          /\ (m.gateway <=> v.gateway)
      BY <1>2 DEF Networks
    <2> HIDE DEF m
    <2>4. Base(m) /\ Served(m) /\ Steady(v, m)
      BY <1>2, <1>6, <2>2, <2>3 DEF Good, Base, Served, Steady
    <2>5. Leave(m) = Leave(v)
      BY <2>3 DEF Leave
    <2>6. Calm => Tidy(m) /\ m.kernel \subseteq Leave(m) /\ m.acd
      BY <1>4, <2>3, <2>5 DEF Tidy
    <2>7. SameConfig(m, a)
      BY <1>2, <2>2, <2>3, DeclineSame
    <2> HIDE DEF a
    <2>8. Base(a) /\ Served(a) /\ Steady(m, a)
          /\ (Calm => Tidy(a) /\ a.kernel \subseteq Leave(a) /\ a.acd)
      BY <2>4, <2>6, <2>7, SameConfigParts, ZenonT(30) DEF SameConfig
    <2>9. Good(r) /\ Steady(a, r)
      BY <2>1, <2>8, StartLinkLocalGood, Zenon
    <2> QED
      BY <1>2, <2>4, <2>8, <2>9, SteadyTrans DEF v
  <1>7. CASE v.method # "DHCP"
    <2>1. r = start_ipv4ll(v, e)
      BY <1>7 DEF acd_host_ipv4_conflict
    <2>2. Good(r) /\ Steady(v, r)
      BY <1>2, <1>4, <2>1, StartLinkLocalGood DEF Good
    <2> QED
      BY <1>2, <2>2, SteadyTrans DEF v
  <1> QED
    BY <1>5, <1>6, <1>7

\* acd_host_ipv4_maxconflict(): a pause, with no address in use.
LEMMA MaxConflictGood ==
    ASSUME NEW w, Good(w), Probing(w.host), NEW h \in Hosts, HostOK(h), ~Probing(h)
    PROVE  LET r == acd_host_ipv4_maxconflict([w EXCEPT !.host = h])
           IN  Good(r) /\ Steady(w, r)
  <1> DEFINE v == [w EXCEPT !.host = h]
             r == [v EXCEPT !.ipv4ll_timeout = TRUE]
  <1>1. w.host.listen_on
    BY DEF Good, Base, HostOK, Probing
  <1>2. /\ Good(v) /\ Steady(w, v) /\ v \in Networks
        /\ v.kernel = w.kernel /\ v.host = h /\ (Calm => w.acd)
    BY <1>1, HostStep
  <1>3. acd_host_ipv4_maxconflict(v) = r
    BY DEF acd_host_ipv4_maxconflict
  <1> HIDE DEF v
  <1>4. Leave(v) = Leave(w)
    BY <1>2 DEF Leave, Steady
  <1>5. Calm => Tidy(v) /\ v.kernel \subseteq Leave(v) /\ v.acd
    BY <1>2, <1>4, Zenon DEF Good, Tidy, Steady
  <1>6. r \in Networks
    BY <1>2, Zenon DEF Networks
  <1>7. /\ (r.acd <=> v.acd) /\ (r.connected <=> v.connected) /\ (r.active <=> v.active)
        /\ r.method = v.method /\ (r.dhcp <=> v.dhcp)
        /\ r.ll = v.ll /\ (r.ll_running <=> v.ll_running)
        /\ (r.dhcp_timeout <=> v.dhcp_timeout)
        /\ r.host = v.host /\ r.kernel = v.kernel /\ r.local = v.local
        /\ (r.gateway <=> v.gateway)
    BY <1>2 DEF Networks
  <1> HIDE DEF r
  <1>8. Base(r) /\ Bonded(r) /\ Served(r) /\ Steady(v, r)
    BY <1>2, <1>6, <1>7 DEF Good, Base, Bonded, Served, Steady
  <1>9. Leave(r) = Leave(v)
    BY <1>7 DEF Leave
  <1>10. Calm => Tidy(r)
    BY <1>2, <1>5, <1>7, <1>9 DEF Tidy
  <1> QED
    BY <1>2, <1>3, <1>8, <1>10, SteadyTrans DEF Good, v

\* What __connman_network_clear_ipconfig() leaves of a connected network: no address
\* but leftovers, and no DHCP.
LEMMA ClearGood ==
    ASSUME NEW w, Good(w), ClientOK(w.client)
    PROVE  LET c == clear_ipconfig(w)
           IN  /\ Quieter(w, c) /\ Base(c) /\ ClientOK(c.client) /\ ~c.dhcp
               /\ (c.connected <=> w.connected)
               /\ Calm /\ w.connected =>
                     Tidy(c) /\ c.kernel \subseteq Leave(c) /\ ~c.dhcp_timeout
  <1> DEFINE t == [w EXCEPT !.dhcp_timeout = FALSE]
             d == dhcp_stop(t)
             a == address_remove(w)
             c == clear_ipconfig(w)
  <1>1. w \in Networks /\ w.method \in Methods
    BY DEF Good, Base, Networks
  <1>2. Base(w) /\ Served(w) /\ (Calm => Tidy(w))
    BY DEF Good
  <1>3. CASE w.method = "OFF"
    <2>1. c = w
      BY <1>3 DEF clear_ipconfig
    <2>2. Quieter(w, c) /\ ~c.dhcp
      BY <1>1, <1>2, <1>3, <2>1, QuietRefl DEF Base
    <2>3. Calm => Tidy(c) /\ c.kernel \subseteq Leave(c) /\ ~c.dhcp_timeout
      BY <1>1, <1>2, <1>3, <2>1, AcdAssumption DEF Tidy, Networks
    <2> QED
      BY <1>2, <2>1, <2>2, <2>3
  <1>4. CASE w.method = "MANUAL"
    <2>1. c = a
      BY <1>4 DEF clear_ipconfig
    <2>2. AddressOnly(w, c) /\ w.local \notin c.kernel
      BY <1>1, <1>4, <2>1, RemoveAddressEffect
    <2> HIDE DEF c
    <2>3. Quieter(w, c) /\ ~c.dhcp /\ (c.connected <=> w.connected) /\ c.client = w.client
          /\ (c.dhcp_timeout <=> w.dhcp_timeout) /\ c.kernel \subseteq w.kernel \ {w.local}
          /\ (c.acd <=> w.acd)
      BY <1>2, <1>4, <2>2, AddressOnlyQuieter DEF Base, AddressOnly
    <2>4. Base(c) /\ (Calm => Tidy(c))
      BY <1>2, <2>3, QuieterParts, ZenonT(30)
    <2>5. Calm => c.kernel \subseteq Leave(c) /\ ~c.dhcp_timeout
      BY <1>2, <1>4, <2>3 DEF Tidy, Leave
    <2> QED
      BY <2>3, <2>4, <2>5, Zenon DEF c
  <1>5. CASE w.method \in {"AUTO", "DHCP"}
    <2>1. c = d
      BY <1>5 DEF clear_ipconfig
    <2>2. t \in Networks
      BY <1>1, ZenonT(30) DEF Networks
    <2>3. /\ Quieter(w, t) /\ ~t.dhcp_timeout /\ (t.connected <=> w.connected)
          /\ (t.dhcp <=> w.dhcp) /\ t.local = w.local /\ t.method = w.method
      BY <1>1, <2>2 DEF Quieter, Networks
    <2> HIDE DEF t
    <2>4. /\ Quieter(t, d) /\ ~d.dhcp /\ (d.connected <=> t.connected)
          /\ (t.dhcp /\ t.method # "OFF" => t.local \notin d.kernel)
      BY <2>2, DhcpStopEffect
    <2> HIDE DEF d
    <2>5. Quieter(w, d) /\ ~d.dhcp_timeout
      <3>1. Quieter(w, d)
        BY <2>3, <2>4, QuieterTrans
      <3>2. ~d.dhcp_timeout
        BY <2>3, <2>4 DEF Quieter
      <3> QED
        BY <3>1, <3>2
    <2>6. Base(d) /\ (Calm => Tidy(d))
      BY <1>2, <2>5, QuieterParts
    <2>7. ClientOK(d.client) /\ d.kernel \subseteq w.kernel /\ (d.acd <=> w.acd)
      BY <2>5, NewClient DEF Quieter, NewClient4
    <2>8. ASSUME Calm, w.connected PROVE d.kernel \subseteq Leave(d)
      <3>1. w.local \notin d.kernel
        BY <1>2, <1>5, <2>3, <2>4, <2>8 DEF Served
      <3>2. w.kernel \ {w.local} \subseteq Leave(w)
        BY <1>2, <2>8 DEF Tidy
      <3> QED
        BY <2>7, <3>1, <3>2 DEF Leave
    <2> QED
      BY <2>1, <2>3, <2>4, <2>5, <2>6, <2>7, <2>8
  <1> QED
    BY <1>1, <1>3, <1>4, <1>5 DEF Methods

=============================================================================

---------------------------- MODULE MCInternet ----------------------------
(* What connects the host to the Internet beyond an IPv4 address, checked in  *)
(* one run: the DNS proxy and its cache, the online check, DHCPv6 and prefix  *)
(* delegation, the HTTP client with the lookups under it, time and time zone. *)
(* The parts meet only through inputs that each model chooses freely, so a    *)
(* behaviour is one of a single part, chosen in Init: part names it and s is  *)
(* its state.                                                                 *)
EXTENDS Integers, Sequences, TLC

VARIABLES part, s

vars == <<part, s>>

VpnOver == [i \in {1, 2} |-> IF i = 1 THEN 2 ELSE 0]
Resolving == {[queries |-> {"u"}, indexes |-> {1}], [queries |-> {"t"}, indexes |-> {1}],
              [queries |-> {}, indexes |-> {1, 2}]}
Proxy == INSTANCE DnsProxy WITH UdpQueries <- {"u"}, TcpQueries <- {"t"}, Indexes <- {1, 2},
             SplitRouting <- {2}, VpnIndex <- VpnOver, Scenarios <- Resolving, TcpSlots <- {1, 2},
             MaxSends <- 2,
             Names <- {"n1", "n2"}, MAX_CACHE_SIZE <- 1, Ttls <- {5, 3000}, Ticks <- {17},
             CacheStart <- 13, MaxTime <- 64, MaxRefs <- 2

AThenB == <<"a", "b">>
FamiliesOf == {[a |-> {"ipv4"}, b |-> {"ipv4"}], [a |-> {"ipv4", "ipv6"}, b |-> {}]}
Online == INSTANCE OnlineCheck WITH Seniority <- AThenB, Layouts <- FamiliesOf, NoNameservers <- {},
              Modes <- {"continuous", "one-shot"}, Failures <- 2, Successes <- 2,
              InitialInterval <- 1, MaxInterval <- 2

V6 == INSTANCE Dhcpv6 WITH REQ_MAX_RC <- 3, RTR_SOLICITATIONS <- 3, RS_REFRESH_COUNT <- 2,
          MaxRs <- 2, Late <- FALSE, StartsFail <- FALSE, Repeats <- FALSE
V6Rough == INSTANCE Dhcpv6 WITH REQ_MAX_RC <- 2, RTR_SOLICITATIONS <- 2, RS_REFRESH_COUNT <- 1,
          MaxRs <- 2, Late <- FALSE, StartsFail <- TRUE, Repeats <- TRUE
PD == INSTANCE Ipv6Pd WITH Services <- {"a", "b"}, REQ_MAX_RC <- 2, Toggles <- FALSE, Late <- FALSE,
          Unplugs <- FALSE

Web == INSTANCE GWeb WITH Requests <- {"p", "q"}, Servers <- {1, 2}, ConnectTimeouts <- BOOLEAN,
           Families <- {"unspec", "inet"}

\* A chunked answer whose fields are repeated and continued on the next line and whose
\* tokens lie across chunks, and one without chunks.
Chunked == [lines |-> << <<"H", "2">>, <<"T", ":", " ", "c">>, <<"A", ":", "v">>, <<" ", "w">>,
                         <<"A", ":", "u">> >>,
            chunks |-> << <<"x", "<", "b">>, <<"d", "b">>, <<">">> >>, chunked |-> TRUE,
            fields |-> (<<"T">> :> <<"c">>) @@ (<<"A">> :> <<"v", " ", "w", ";", " ", "u">>),
            items |-> << <<"<", "b", "d", "b", ">">> >>]
Plain == [lines |-> << <<"H", "2">>, <<"A", ":", " ", "v">> >>,
          chunks |-> << <<"<", "b", "d">>, <<"b", ">", "<">>, <<"b", "b", ">">> >>,
          chunked |-> FALSE, fields |-> (<<"A">> :> <<"v">>),
          items |-> << <<"<", "b", "d", "b", ">">>, <<"<", "b", "b", ">">> >>]
Sent == {Chunked, Plain}
Opening == <<"<", "b">>
Closing == <<"b", ">">>
SchemeWords == {<<>>, <<"http">>, <<"https">>}
HostWords == {<<"name">>, <<"10.0.0.1">>, <<"fe80", ":", ":", "1">>}
PortWords == {<<>>, <<"0">>, <<"80">>, <<"32768">>, <<"65534">>, <<"65536">>}
PortNumber == ("0" :> 0) @@ ("80" :> 80) @@ ("32768" :> 32768) @@ ("65534" :> 65534) @@ ("65536" :> 65536)
PathWords == {<<>>, <<"/">>, <<"/", "a">>, <<"/", "a", "/", "b">>}
ProxyUrls == {[scheme |-> <<>>, host |-> <<>>, port |-> <<>>],
              [scheme |-> <<"http">>, host |-> <<"proxy">>, port |-> <<"80">>],
              [scheme |-> <<>>, host |-> <<"fe80", ":", ":", "2">>, port |-> <<>>]}
Stream == INSTANCE WebStream WITH Answers <- Sent, BeginToken <- Opening, EndToken <- Closing,
              MaxRead <- 60, SplitLines <- FALSE, Schemes <- SchemeWords, Hosts <- HostWords,
              Ports <- PortWords, PortValue <- PortNumber, Paths <- PathWords, Proxies <- ProxyUrls

Announced == ("a" :> <<"ip1">>) @@ ("b" :> <<>>)
SetByUser == {<<>>, <<"ip2">>, <<"ip3", "host">>}
Resolves == "host" :> {<<"ip1", "ip3">>}
Unreachable == {{}, {"ip1"}, {"ip1", "ip2"}}
ZoneFiles == <<"Berlin", "Stockholm", "Paris", "Oslo">>
SameRules == ("Berlin" :> 1) @@ ("Stockholm" :> 1) @@ ("Paris" :> 2) @@ ("Oslo" :> 3)
Links == "Lutetia" :> "Paris"
ZoneNow == <<[codes |-> <<"DE", "DK", "SE">>, zone |-> "Berlin"],
             [codes |-> <<"FR", "MC">>, zone |-> "Paris"]>>
ZoneTab == <<[codes |-> <<"SE">>, zone |-> "Stockholm"], [codes |-> <<"FR">>, zone |-> "Paris"],
             [codes |-> <<"NO">>, zone |-> "Oslo"]>>
Time == INSTANCE TimeSync WITH Services <- {"a", "b"}, OwnServers <- Announced, Lists <- SetByUser,
            Addresses <- {"ip1", "ip2", "ip3"}, ResultsOf <- Resolves, NTP_SEND_RETRIES <- 1,
            Broken <- Unreachable, Calm <- TRUE,
            Directory <- ZoneFiles, ContentOf <- SameRules, Aliases <- Links, OfficialMap <- ZoneNow,
            DeprecatedMap <- ZoneTab, SysconfigZones <- {"none", "Stockholm", "Paris"}, MaxEvents <- 2
-----------------------------------------------------------------------------
Init == \/ part = "cache" /\ Proxy!CacheInit
        \/ part = "proxy" /\ Proxy!Init
        \/ part = "online" /\ Online!Init
        \/ part \in {"dhcpv6", "rough"} /\ V6!Init
        \/ part = "delegation" /\ PD!Init
        \/ part = "web" /\ Web!Init
        \/ part = "stream" /\ Stream!Init
        \/ part = "url" /\ Stream!UrlInit
        \/ part = "time" /\ Time!Init
        \/ part = "zone" /\ Time!ZoneInit

In(p) == part = p /\ UNCHANGED part

Next == \/ In("cache") /\ Proxy!CacheNext
        \/ In("proxy") /\ Proxy!Next
        \/ In("online") /\ Online!Next
        \/ In("dhcpv6") /\ V6!Next
        \/ In("rough") /\ V6Rough!Next
        \/ In("delegation") /\ PD!Next
        \/ In("web") /\ Web!Next
        \/ In("stream") /\ Stream!Next
        \/ In("url") /\ Stream!UrlNext
        \/ In("time") /\ Time!Next
        \/ In("zone") /\ Time!ZoneNext

\* A timer of the DNS proxy that was started runs out in the end.
Timers == \A r \in {"u", "t"} : WF_vars(In("proxy") /\ Proxy!TimerFires(r))

Spec == Init /\ [][Next]_vars /\ Timers
-----------------------------------------------------------------------------
(* dnsproxy.c: an answer from the cache has not outlived its records, of      *)
(* which each is taken to live for 30 s at least, and was stored since the    *)
(* default service last changed; the cache, its size and its references stay  *)
(* in step; resolver.c: the fallback name servers are servers for UDP only    *)
(* while no service has given any.                                            *)
NamesServed == /\ part = "cache" => Proxy!ServedFresh /\ Proxy!CacheCounted
               /\ part = "proxy" => Proxy!FallbackOnlyAlone

(* dnsproxy.c: every query is answered in the end, at the latest by its timer. *)
EveryQueryAnswered == \A r \in {"u", "t"} :
    (part = "proxy" /\ Proxy!Awaited(r)) ~> (part = "proxy" /\ Proxy!Settled(r))

(* service.c, wispr.c: a service has one chain of checks per family, and a    *)
(* service that is online in the continuous mode goes on being checked unless *)
(* a portal's answer ended its check without a result.                        *)
OnlineWatched == part = "online" => Online!OneChain /\ Online!OnlineIsWatched

(* dhcpv6.c, ipv6pd.c: a lease has a timer that renews, rebinds or ends it,   *)
(* and one delegation serves the tethering clients of one uplink.             *)
LeasesFollowed == /\ part = "dhcpv6" => V6!LeaseFollowed
                  /\ part = "rough" => V6Rough!LeaseFollowed
                  /\ part = "delegation" => PD!OneDelegation

(* gweb.c, gresolv.c: a request ends exactly once with nothing of it left, up *)
(* to a write to a session that its client freed; what its callbacks see does *)
(* not depend on how the answer was cut into reads; and a session has the     *)
(* host, port and path its URL was written with, or the port of a proxy.      *)
RequestEndsOnce == /\ part = "web" => Web!RequestEndsOnce
                   /\ part = "stream" => Stream!SplitsDoNotMatter
                   /\ part = "url" => Stream!UrlRoundTrip

(* timeserver.c, ntp.c, timezone.c: one chain of lookup, exchange and wait    *)
(* keeps the time, until a default service without servers ends it; the zone  *)
(* shown is the one the file names.                                           *)
TimeKept == /\ part = "time" => Time!OneSync
            /\ part = "zone" => Time!ZoneFollowsFile
=============================================================================

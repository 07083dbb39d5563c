------------------------------ MODULE MCHost ------------------------------
(* What the daemon does for programs and for other hosts, checked in one run: *)
(* tethering with its address pool and its DHCP server, sessions and their    *)
(* policy files, usage counters and their files, packet-filter rules,         *)
(* provisioning files, and the D-Bus library under all of them.  The parts    *)
(* meet only through inputs that each model chooses freely, so a behaviour is *)
(* one of a single part, chosen in Init: part names it and s is its state.    *)
EXTENDS Integers, Sequences

VARIABLES part, s

vars == <<part, s>>
-----------------------------------------------------------------------------
Net(a, b, c) == ((a * 256 + b) * 256 + c) * 4      \* a network in units of 64 addresses
Block(c) == [index |-> 101, u |-> Net(192, 168, c), len |-> 24]
Wide == [Block(0) EXCEPT !.len = 22]
Host == [Block(0) EXCEPT !.len = 32]
Public == [index |-> 102, u |-> Net(8, 8, 0), len |-> 24]
Tethered(techs, nets, defaults, private) ==
    [techs |-> techs, nets |-> nets, defaults |-> defaults, private |-> private]
Tetherings == {Tethered({"ethernet", "bluetooth"}, {}, {}, FALSE),
               Tethered({"bluetooth", "wifi"}, {}, {}, FALSE),
               Tethered({"ethernet"}, {Block(0), Block(1)}, {}, FALSE),
               Tethered({"bluetooth"}, {Wide, Public}, {"none", "uplink"}, FALSE),
               Tethered({}, {Block(0), Host}, {"none", "uplink"}, TRUE),
               Tethered({"bluetooth"}, {}, {}, TRUE)}
Teth == INSTANCE Tether WITH Scenarios <- Tetherings, Interfaces <- {"e1", "e2"}, Clients <- {"c1"},
            Failures <- {"bridge", "address", "listener"}, MaxGen <- 2, MaxLost <- 1, MaxUse <- 2,
            MaxQueue <- 2

Leases == INSTANCE DhcpServer WITH Clients <- {"c", "d"}, StartIp <- 1, EndIp <- 1, LeaseTime <- 1,
              OfferTime <- 1, Now <- 2, MaxTime <- 4, Reorder <- FALSE, MaxExchanges <- 2,
              MaxQueue <- 2
-----------------------------------------------------------------------------
Bearer == [eth |-> "ethernet", wlan |-> "wifi"]
Wired == <<"ethernet", "wifi">>
Default == [id |-> "unknown", ecall |-> FALSE, type |-> "any", bearers |-> Wired]
User == [id |-> "uid", ecall |-> FALSE, type |-> "local", bearers |-> <<"wifi">>]
Emergency == [Default EXCEPT !.ecall = TRUE]
SessionsOf == {[sessions |-> {"x"}, configs |-> {Default, User}, bearers |-> {Wired, <<>>},
                types |-> {"any", "internet"}, ifaces |-> {"*", "wlan"}, srcips |-> BOOLEAN,
                addresses |-> {1}],
               [sessions |-> {"x", "y"}, configs |-> {Default}, bearers |-> {Wired},
                types |-> {"any"}, ifaces |-> {}, srcips |-> {FALSE}, addresses |-> {1}],
               [sessions |-> {"x"}, configs |-> {Default}, bearers |-> {Wired},
                types |-> {"any"}, ifaces |-> {}, srcips |-> {TRUE}, addresses |-> {0, 1}],
               [sessions |-> {"x", "y"}, configs |-> {Emergency}, bearers |-> {<<"wifi">>},
                types |-> {"any"}, ifaces |-> {}, srcips |-> {TRUE}, addresses |-> {1}]}
Group(kind, name, config) == [key |-> <<kind, name>>, config |-> config]
Nobody == [key |-> <<"none", "none">>, config |-> "c2"]
App(uid, gids) == [selinux |-> <<"selinux", "t">>, uid |-> <<"uid", uid>>, gids |-> gids]
GidG == <<"gid", "g">>
GidH == <<"gid", "h">>
PoliciesOf == {[who |-> [x |-> App("u", <<GidG, GidH>>), y |-> App("v", <<GidH>>)],
              texts |-> [f |-> {<<Group("uid", "u", "c1")>>, <<Group("uid", "u", "c2")>>,
                                <<Group("uid", "u", "c3"), Nobody>>},
                         h |-> {<<>>, <<Group("uid", "v", "c1"), Group("gid", "z", "c3")>>}]],
             [who |-> [x |-> App("u", <<GidG, GidH>>), y |-> App("v", <<>>)],
              texts |-> [f |-> {<<Group("uid", "u", "c1")>>, <<Group("gid", "g", "c2")>>,
                                <<Group("gid", "g", "c1")>>, <<Group("selinux", "t", "c2")>>},
                         h |-> {}]]}
Sess == INSTANCE Session WITH Sessions <- {"x", "y"}, Services <- {"eth", "wlan"}, TypeOf <- Bearer,
            Scenarios <- SessionsOf, MaxListed <- 2,
            PolicySessions <- {"x", "y"}, Files <- {"f", "h"}, Policies <- PoliciesOf
-----------------------------------------------------------------------------
Registered == [p |-> [owner |-> "a", interval |-> 5], q |-> [owner |-> "a", interval |-> 9],
               r |-> [owner |-> "b", interval |-> 5]]
Used(cs, days, traffic, events) ==
    [counters |-> cs, days |-> days, traffic |-> traffic, events |-> events]
Usages == {Used({}, 5, 1, {}), Used({}, 2, 1, {"roam"}), Used({"p", "q", "r"}, 0, 1, {"drop"}),
           Used({"p"}, 0, 2, {"roam"}), Used({}, 0, 2, {"drop", "reset"}),
           Used({}, 0, 2, {"roam", "restart"})}
Use == INSTANCE Usage WITH PageRecords <- 2, MaxPages <- 2, DaysPerMonth <- 2,
           Counters <- Registered, Scenarios <- Usages, Calm <- TRUE
-----------------------------------------------------------------------------
Rule(match, target, data) == [match |-> match, target |-> target, data |-> data]
Marks(mark, rules) == [mark |-> mark, rules |-> rules]
NatContexts == [a |-> Marks(FALSE, << <<"POSTROUTING", Rule("source", "MASQUERADE", 1)>> >>),
                b |-> Marks(FALSE, << <<"POSTROUTING", Rule("output", "SNAT", 1)>> >>)]
MarkContexts == [a |-> Marks(TRUE, << <<"OUTPUT", Rule("owner", "MARK", 1)>>,
                                      <<"OUTPUT", Rule("source", "MARK", 1)>> >>),
                 b |-> Marks(TRUE, << <<"OUTPUT", Rule("owner2", "MARK", 2)>> >>)]
TablesUsed == {[tool |-> FALSE, hooks |-> <<"OUTPUT", "POSTROUTING">>, contexts |-> NatContexts,
                foreign |-> {Rule("any", "ACCEPT", 0), Rule("source", "u", 0)}, users |-> <<"u">>,
                calls |-> {}],
               [tool |-> FALSE, hooks |-> <<"INPUT", "OUTPUT", "POSTROUTING">>,
                contexts |-> MarkContexts, foreign |-> {Rule("owner", "DROP", 0)}, users |-> <<>>,
                calls |-> {}],
               [tool |-> TRUE, hooks |-> <<"INPUT", "OUTPUT">>, contexts |-> <<>>, foreign |-> {},
                users |-> <<"u", "v">>, calls |-> {Rule("any", "v", 0), Rule("owner", "", 0)}]}
Fire == INSTANCE Firewall WITH Tables <- TablesUsed, MaxRules <- 1, Calm <- TRUE
-----------------------------------------------------------------------------
Wifi(ssid, security) == [type |-> "wifi", ssid |-> ssid, security |-> security, dev |-> "wlan"]
KindOf == [w1 |-> Wifi("home", "psk"), w2 |-> Wifi("cafe", "none"),
           e |-> [type |-> "ethernet", ssid |-> "none", security |-> "none", dev |-> "eth"]]
Section(type, ssid, pass, v4) ==
    [type |-> type, ssid |-> ssid, security |-> "none", eap |-> FALSE, pass |-> pass,
     dev |-> "none", ip |-> [v4 |-> v4, v6 |-> "none"]]
Nothing == Section("none", "none", "none", "none")
File(x, y) == [x |-> x, y |-> y]
HomeA == Section("wifi", "home", "p1", "none")
HomeB == Section("wifi", "home", "p2", "static")
Cafe == Section("wifi", "cafe", "none", "off")
Eth == Section("ethernet", "none", "none", "static")
EthOff == [Section("ethernet", "none", "none", "off") EXCEPT !.dev = "eth"]
BadAddress == [HomeA EXCEPT !.ip.v6 = "bad"]
FilesUsed == {[who |-> {"w1"}, tokens |-> {},
               contents |-> [f |-> {File(HomeA, Nothing), File(HomeB, Eth), File(BadAddress, Nothing)},
                             g |-> {}]],
              [who |-> {"e"}, tokens |-> {},
               contents |-> [f |-> {File(Eth, Nothing), File(EthOff, HomeA), File(Nothing, Eth)},
                             g |-> {}]],
              [who |-> {"w2", "e"}, tokens |-> {},
               contents |-> [f |-> {File(Eth, Nothing)}, g |-> {File(Nothing, Cafe)}]],
              [who |-> {"w1", "w2"}, tokens |-> {Section("wifi", "home", "tok", "none")},
               contents |-> [f |-> {File(Cafe, Nothing)}, g |-> {}]]}
Prov == INSTANCE Provision WITH Kind <- KindOf, Files <- {"f", "g"}, Sections <- {"x", "y"},
            Scenarios <- FilesUsed, MaxQueue <- 2, Calm <- TRUE
-----------------------------------------------------------------------------
\* One interface on an object and one below it; two interfaces on one object.
Parent == [p \in {"a", "ab"} |-> IF p = "a" THEN "/" ELSE "a"]
OneLevel == [p \in {"a"} |-> "/"]
Tree == INSTANCE Gdbus WITH Paths <- {"a", "ab"}, Root <- "/", Dir <- Parent, Ifaces <- {"I"},
            Values <- {1}, Data <- << >>, Groups <- {}, MaxQueue <- 2, Calm <- TRUE
Pair == INSTANCE Gdbus WITH Paths <- {"a"}, Root <- "/", Dir <- OneLevel, Ifaces <- {"I", "J"},
            Values <- {1}, Data <- << >>, Groups <- {}, MaxQueue <- 2, Calm <- TRUE

Watch(kind, path, how, other) == [kind |-> kind, path |-> path, how |-> how, other |-> other]
WatchData == <<Watch("service", "none", "keep", 1), Watch("signal", "p", "add", 1),
               Watch("signal", "none", "false", 3), Watch("gone", "none", "keep", 4),
               Watch("signal", "p", "remove", 2)>>
WatchGroups == {{1, 2, 3}, {1, 2, 5}, {2, 4}, {3, 4}, {1, 4}}
Watches == INSTANCE Gdbus WITH Paths <- {}, Root <- "/", Dir <- << >>, Ifaces <- {}, Values <- {},
               Data <- WatchData, Groups <- WatchGroups, MaxQueue <- 2, Calm <- TRUE
-----------------------------------------------------------------------------
Init == \/ part = "tethering" /\ Teth!Init
        \/ part = "leases" /\ Leases!Init
        \/ part = "sessions" /\ Sess!Init
        \/ part = "policies" /\ Sess!PolicyInit
        \/ part = "usage" /\ Use!Init
        \/ part = "firewall" /\ Fire!Init
        \/ part = "files" /\ Prov!Init
        \/ part = "tree" /\ Tree!Init
        \/ part = "pair" /\ Pair!Init
        \/ part = "watches" /\ Watches!WatchInit

In(p) == part = p /\ UNCHANGED part

Next == \/ In("tethering") /\ Teth!Next
        \/ In("leases") /\ Leases!Next
        \/ In("sessions") /\ Sess!Next
        \/ In("policies") /\ Sess!PolicyNext
        \/ In("usage") /\ Use!Next
        \/ In("firewall") /\ Fire!Next
        \/ In("files") /\ Prov!Next
        \/ In("tree") /\ Tree!Next
        \/ In("pair") /\ Pair!Next
        \/ In("watches") /\ Watches!WatchNext

Spec == Init /\ [][Next]_vars
-----------------------------------------------------------------------------
(* tethering.c, ippool.c, technology.c: a bridge with address, DHCP server    *)
(* and NAT is up exactly while something tethers and no restart has failed,   *)
(* on a block in which no known network of the host starts, and the stations  *)
(* that registered are the clients that were announced; gdhcp/server.c: no    *)
(* two clients hold an address at a time.                                     *)
TetheringServes == /\ part = "tethering" => Teth!Serving /\ Teth!PoolClear /\ Teth!ClientsTold
                   /\ part = "leases" => Leases!OneHolder

(* session.c, session_policy_local.c: an application was told what its        *)
(* session is, the routing rules are those of its service and address, the    *)
(* count of active sessions is right, and each session has the configuration  *)
(* of a policy group that names it, or the default one when none does; all    *)
(* until the program reads a session that was freed or never configured.      *)
SessionsServed == /\ part = "sessions" => Sess!AppTold /\ Sess!RulesFollow /\ Sess!ActiveCounted
                  /\ part = "policies" => Sess!PolicyApplied

(* service.c, stats.c, counter.c: the totals of a service are what its links  *)
(* counted, in the file as in memory, the counters were told as much, and a   *)
(* record remains of each day that is kept.                                   *)
UsageKept == part = "usage" => Use!TotalsKept /\ Use!UsageAgrees /\ Use!DailyRecordsKept

(* iptables.c, firewall-iptables.c: the kernel has exactly the rules that are *)
(* enabled, in chains whose entry points and jumps are consistent.            *)
TablesAgree == part = "firewall" => Fire!KernelHoldsEnabled /\ Fire!EntriesAreChains

(* config.c, service.c, inotify.c: when all file events are handled, every    *)
(* service has exactly the settings that the provisioning files give it.      *)
ServicesFollowFiles == part = "files" => Prov!ServicesFollowFiles

(* gdbus/object.c, client.c, watch.c: when no message is under way, a         *)
(* client's proxies are the objects the service exports, and every watch has  *)
(* been told what happened on its service.                                    *)
BusMirrors == /\ part = "tree" => Tree!ProxiesMirror
              /\ part = "pair" => Pair!ProxiesMirror
              /\ part = "watches" => Watches!WatchesServed
=============================================================================

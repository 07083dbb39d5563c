---------------------------- MODULE TimeSync ----------------------------
(* Synchronising the clock: the time servers of the default service are tried *)
(* one after the other (src/timeserver.c), host names after a lookup, each    *)
(* with the NTP client of src/ntp.c; when none works the list is started over *)
(* after a backoff of five seconds, and every two hours it is checked whether *)
(* the list still begins with the server in use.  TimeUpdates and Timeservers *)
(* are properties of src/clock.c.                                             *)
(*                                                                            *)
(* A time server is an address or a host name.  An NTP client that is started *)
(* may fail at once (socket, binding, sending); `broken' are the addresses    *)
(* for which it does during one event.                                        *)
EXTENDS Integers, Sequences, SequencesExt, FiniteSets

CONSTANTS
  Services,      \* that may be the default one
  OwnServers,    \* service -> the time servers its network announces
  Lists,         \* values of the Timeservers properties
  Addresses,     \* the servers that are addresses; the others are host names
  ResultsOf,     \* what looking up a host name may give: host name -> set of sequences
  NTP_SEND_RETRIES,
  Broken,        \* the sets of addresses whose client fails at once
  Calm           \* not all servers fail at once when the list is started over

VARIABLE s

vars == <<s>>

None == "none"
NoNtp == [server |-> None, timer |-> None, retries |-> 0, channel |-> FALSE]

Init ==
  s = [default |-> None, updates |-> "auto", system |-> << >>,
       config |-> [v \in Services |-> << >>],
       ts_service |-> None, astray |-> FALSE,
       timeservers_list |-> << >>, ts_list |-> << >>, ts_current |-> None,
       recheck |-> FALSE, backoffs |-> 0, backoff_id |-> FALSE, synced |-> FALSE,
       resolv |-> FALSE, lookup |-> FALSE, ntp |-> NoNtp]

-----------------------------------------------------------------------------
(* The list of servers.                                                       *)

__connman_timeserver_add_list(list, server) ==
  IF Contains(list, server) THEN list ELSE Append(list, server)

\* Lists are built by prepending and reversed in the end; here in their final order.
__connman_timeserver_get_all(t, service) ==
  IF t.updates = "manual" THEN << >>
  ELSE FoldLeft(__connman_timeserver_add_list, << >>,
                (IF service = None THEN << >> ELSE t.config[service] \o OwnServers[service])
                \o t.system)

__connman_timeserver_set_synced(t, status) == [t EXCEPT !.synced = status]

-----------------------------------------------------------------------------
(* The NTP client and the chain of servers.                                   *)

__connman_ntp_stop(t) == [t EXCEPT !.ntp = NoNtp]

\* The lookup under way is cancelled; the name servers are set anew.
ts_set_nameservers(t) == [t EXCEPT !.lookup = FALSE]

\* start_ntp() and send_packet(): the packet is out and its answer is awaited.
__connman_ntp_start(t, server) ==
  [t EXCEPT !.ntp = [server |-> server, timer |-> "answer", retries |-> 0, channel |-> TRUE]]

Backoff(t) == [t EXCEPT !.backoffs = @ + 1, !.backoff_id = TRUE]

RECURSIVE sync_next(_, _)

\* Faulty variant: after the last server nothing more is tried.
sync_next_NoBackoff(t, broken) ==
  LET u == ts_set_nameservers(__connman_ntp_stop([t EXCEPT !.ts_current = None]))
      server == Head(u.ts_list)
      next == [u EXCEPT !.ts_current = server, !.ts_list = Tail(@)]
  IN IF u.ts_list = << >> THEN u
     ELSE IF server \notin Addresses THEN [next EXCEPT !.lookup = TRUE]
     ELSE IF server \in broken
     THEN sync_next(__connman_timeserver_set_synced(__connman_ntp_start(next, server), FALSE), broken)
     ELSE __connman_ntp_start(next, server)

\* The next server of the working list; one whose client fails at once makes
\* ntp_callback() select the one after it.
sync_next(t, broken) ==
  LET u == ts_set_nameservers(__connman_ntp_stop([t EXCEPT !.ts_current = None]))
      server == Head(u.ts_list)
      next == [u EXCEPT !.ts_current = server, !.ts_list = Tail(@)]
  IN IF u.ts_list = << >> THEN Backoff(u)
     ELSE IF server \notin Addresses THEN [next EXCEPT !.lookup = TRUE]
     ELSE IF server \in broken
     THEN sync_next(__connman_timeserver_set_synced(__connman_ntp_start(next, server), FALSE), broken)
     ELSE __connman_ntp_start(next, server)

ntp_callback(t, success, broken) ==
  LET u == __connman_timeserver_set_synced(t, success)
  IN IF success THEN u ELSE sync_next(u, broken)

timeserver_sync_start(t, broken) ==
  sync_next([t EXCEPT !.ts_list = @ \o t.timeservers_list], broken)

\* The id of the timer that fired is cleared after the list was started over.
timeserver_sync_restart(t, broken) ==
  [timeserver_sync_start([t EXCEPT !.backoffs = @ - 1], broken) EXCEPT !.backoff_id = FALSE]

-----------------------------------------------------------------------------
(* Starting over.                                                             *)

\* Faulty variant: the backoff timer goes on.
ts_recheck_disable_KeepBackoff(t) ==
  IF ~t.recheck THEN t ELSE [t EXCEPT !.recheck = FALSE, !.ts_current = None]

\* Only when the recheck was enabled does this also end a backoff.
ts_recheck_disable(t) ==
  IF ~t.recheck THEN t
  ELSE [t EXCEPT !.recheck = FALSE, !.ts_current = None,
                 !.backoffs = IF t.backoff_id THEN @ - 1 ELSE @, !.backoff_id = FALSE]

\* `astray' marks a reset that does not leave ts_service at the default service: one
\* without servers leaves the service before it there, and then the settings of
\* another service than the default one start the synchronisation.
ts_reset(t, service, broken) ==
  LET stopped == ts_set_nameservers(ts_recheck_disable(__connman_ntp_stop(
                   __connman_timeserver_set_synced(t, FALSE))))
      listed == [stopped EXCEPT !.ts_list = << >>,
                                !.timeservers_list = __connman_timeserver_get_all(t, service)]
  IN IF ~t.resolv THEN t
     ELSE IF listed.timeservers_list = << >>
     THEN [listed EXCEPT !.astray = service /= t.default \/ t.ts_service \notin {None, service}]
     ELSE timeserver_sync_start([listed EXCEPT !.recheck = TRUE, !.ts_service = service,
                                               !.astray = service /= t.default], broken)

__connman_timeserver_sync(t, service, reason, broken) ==
  IF \/ service = None
     \/ reason \in {"start", "state"} /\ t.ts_service = service
     \/ reason \in {"address", "changed"} /\ t.ts_service /= service
  THEN t ELSE ts_reset(t, service, broken)

__connman_timeserver_conf_update(t, service, broken) ==
  IF service = None \/ (t.ts_service /= None /\ t.ts_service /= service) THEN t
  ELSE ts_reset(t, service, broken)

timeserver_start(t, service, broken) ==
  __connman_timeserver_sync([t EXCEPT !.resolv = TRUE, !.lookup = FALSE], service, "start", broken)

timeserver_stop(t) ==
  ts_recheck_disable(__connman_ntp_stop(
    [t EXCEPT !.ts_service = None, !.astray = FALSE, !.resolv = FALSE, !.lookup = FALSE,
              !.timeservers_list = << >>, !.ts_list = << >>]))

-----------------------------------------------------------------------------
(* Actions.                                                                   *)

\* The notifier's default_changed().
DefaultChanged(service) ==
  /\ service /= s.default
  /\ \E broken \in Broken :
       s' = IF service = None THEN timeserver_stop([s EXCEPT !.default = None])
            ELSE timeserver_start([s EXCEPT !.default = service], service, broken)

\* The default service got another address, or became ready.
ServiceUpdate ==
  /\ s.default /= None
  /\ \E reason \in {"address", "state"}, broken \in Broken :
       s' = __connman_timeserver_sync(s, s.default, reason, broken)

\* Timeservers.Configuration of a service.
ConfigureService(service) ==
  \E list \in Lists, broken \in Broken :
    s' = __connman_timeserver_conf_update([s EXCEPT !.config[service] = list], service, broken)

\* TimeUpdates and Timeservers of the clock.
SetTimeUpdates ==
  \E broken \in Broken :
    LET value == IF s.updates = "auto" THEN "manual" ELSE "auto"
    IN s' = __connman_timeserver_conf_update([s EXCEPT !.updates = value], s.default, broken)

__connman_timeserver_system_set(t, servers, broken) ==
  LET u == [t EXCEPT !.system = servers]
  IN IF t.default = None THEN u ELSE ts_reset(u, t.default, broken)

SetTimeservers ==
  \E list \in Lists, broken \in Broken :
    s' = __connman_timeserver_system_set(
           s, FoldLeft(__connman_timeserver_add_list, << >>, list), broken)

\* Setting the time by hand is allowed while TimeUpdates is manual.
SetTime ==
  /\ s.updates = "manual"
  /\ s' = __connman_timeserver_set_synced(s, FALSE)

\* resolv_result(): the addresses found come before the rest of the list.
resolv_result(t, results, broken) ==
  sync_next([t EXCEPT !.lookup = FALSE,
                      !.ts_list = SelectSeq(results, LAMBDA a : ~Contains(t.ts_list, a)) \o @], broken)

LookupResult ==
  /\ s.lookup
  /\ \E results \in ResultsOf[s.ts_current] \cup {<< >>}, broken \in Broken :
       s' = resolv_result(s, results, broken)

\* decode_msg(): a short message changes nothing, a refusal or a clock that
\* cannot be adjusted fails, and a good answer ends the wait and sets the poll.
decode_msg(t, answer, broken) ==
  LET heard == [t EXCEPT !.ntp.timer = "poll", !.ntp.retries = 0]
  IN CASE answer = "useless" -> t
       [] answer = "refusal" -> ntp_callback(t, FALSE, broken)
       [] answer = "unusable" -> ntp_callback(heard, FALSE, broken)
       [] answer = "good" -> ntp_callback(heard, TRUE, broken)

NtpAnswer ==
  /\ s.ntp.channel
  /\ \E answer \in {"useless", "refusal", "unusable", "good"}, broken \in Broken :
       s' = decode_msg(s, answer, broken)

\* received_data() on a socket that failed: no answer will come any more.
NtpHangup ==
  /\ s.ntp.channel
  /\ s' = [s EXCEPT !.ntp.channel = FALSE]

\* send_packet() for a retry or a poll, which may fail at once.
send_packet(t, broken) ==
  IF t.ntp.server \in broken THEN ntp_callback(t, FALSE, broken)
  ELSE [t EXCEPT !.ntp.timer = "answer"]

SendTimeout ==
  /\ s.ntp.timer = "answer"
  /\ \E broken \in Broken :
       LET u == [s EXCEPT !.ntp.retries = @ + 1]
       IN s' = IF s.ntp.retries = NTP_SEND_RETRIES THEN ntp_callback(u, FALSE, broken)
               ELSE send_packet(u, broken)

NextPoll ==
  /\ s.ntp.timer = "poll"
  /\ \E broken \in Broken : s' = send_packet(s, broken)

BackoffTimer ==
  /\ s.backoffs > 0
  /\ \E broken \in Broken : s' = timeserver_sync_restart(s, broken)
  /\ Calm => s'.backoffs = 0

\* ts_recheck(): restarts when the list no longer begins with the server in use.
Recheck ==
  /\ s.recheck
  /\ LET ts == __connman_timeserver_get_all(s, s.default)
     IN \E broken \in Broken :
          s' = IF ts = << >> \/ s.ts_current = Head(ts) THEN s
               ELSE __connman_timeserver_sync(s, s.default, "changed", broken)

Next ==
  \/ \E service \in Services \cup {None} : DefaultChanged(service)
  \/ \E service \in Services : ConfigureService(service)
  \/ ServiceUpdate \/ SetTimeUpdates \/ SetTimeservers \/ SetTime
  \/ LookupResult \/ NtpAnswer \/ NtpHangup \/ SendTimeout \/ NextPoll \/ BackoffTimer \/ Recheck

Spec == Init /\ [][Next]_vars

-----------------------------------------------------------------------------
(* Properties.                                                                *)

\* How many things are under way that carry the synchronisation on.
Chains(t) ==
  t.backoffs + Cardinality({x \in {"lookup", "ntp"} :
                              \/ x = "lookup" /\ t.lookup
                              \/ x = "ntp" /\ t.ntp.timer /= None})

\* While there is a default service with time servers and TimeUpdates is "auto", the
\* synchronisation goes on and is one: exactly one lookup, NTP client with a timer, or
\* backoff is under way, for that service, and the list is rechecked; otherwise
\* nothing is under way.  After a default service without servers, which leaves
\* ts_service at another one, only the following is claimed: there is never a second
\* chain, what is under way is rechecked, and TimeserverSynced is true only while an NTP
\* client polls a server.
OneSync ==
  LET wanted == s.default /= None /\ __connman_timeserver_get_all(s, s.default) /= << >>
  IN /\ ~s.astray => /\ Chains(s) = IF wanted THEN 1 ELSE 0
                     /\ s.recheck <=> wanted
                     /\ wanted => s.ts_service = s.default
     /\ Chains(s) <= IF s.recheck THEN 1 ELSE 0
     /\ s.synced /\ s.default /= None => s.ntp.timer /= None

-----------------------------------------------------------------------------
(* The time zone: src/timezone.c finds the name of the zone that the          *)
(* localtime file stands for, changes that file, and watches its directory;   *)
(* src/clock.c shows the zone as a property and lets it be set while          *)
(* TimezoneUpdates is manual.  The regulatory domain may follow the zone.     *)
(*                                                                            *)
(* A zone is a regular file of the zone directory, an alias a symbolic link   *)
(* to one; zones of equal content exist.  Of the maps of countries a line is  *)
(* a list of country codes and a zone.                                        *)

CONSTANTS
  Directory,   \* the zones in the order the directory lists them
  ContentOf,   \* zone -> content
  Aliases,     \* alias -> the zone it links to
  OfficialMap, \* sequences of [codes, zone]
  DeprecatedMap,
  SysconfigZones, \* what ZONE in /etc/sysconfig/clock may be; None for no file
  MaxEvents

Zones == Range(Directory)

\* localtime is a link to a zone, or a copy of one's content.
RealPath(zone) == IF zone \in DOMAIN Aliases THEN Aliases[zone] ELSE zone
Content(file) == ContentOf[RealPath(file.zone)]

-----------------------------------------------------------------------------
(* Finding the zone and its country.                                          *)

\* read_key_file(): the value of ZONE.
read_key_file(t) == t.sysconfig

\* compare_file() of localtime with a zone; `real_path' is None when not asked for.
compare_file(file, real_path, zone) ==
  /\ real_path = None \/ real_path = zone
  /\ Content(file) = ContentOf[RealPath(zone)]

\* find_origin(): the first regular file that matches; links are passed over.  The
\* real path of a copy is not in the directory at all.
find_origin(file) ==
  LET real_path == IF file.kind = "link" THEN RealPath(file.zone) ELSE "localtime"
      matching == SelectSeq(Directory, LAMBDA z : compare_file(file, real_path, z))
  IN IF matching = << >> THEN None ELSE Head(matching)

\* The zone of __connman_timezone_lookup().
ZoneOf(t) ==
  IF read_key_file(t) /= None /\ compare_file(t.localtime, None, read_key_file(t))
  THEN read_key_file(t)
  ELSE find_origin(t.localtime)

\* Lines of a map for a zone, and for a country.
ForZone(map, zone) == SelectSeq(map, LAMBDA l : l.zone = zone)
ForCountry(map, code) == SelectSeq(map, LAMBDA l : Contains(l.codes, code))

\* get_timezone_alpha2(): the first code of the first of the lines that match.
get_timezone_alpha2(lines) == IF lines = << >> THEN None ELSE Head(Head(lines).codes)

\* Faulty variant: the code of the deprecated map is used as it is.
try_get_timezone_alpha2_Old(zone) ==
  LET official == get_timezone_alpha2(ForZone(OfficialMap, zone))
  IN IF zone = None THEN None
     ELSE IF official /= None THEN official
     ELSE get_timezone_alpha2(ForZone(DeprecatedMap, zone))

try_get_timezone_alpha2(zone) ==
  LET official == get_timezone_alpha2(ForZone(OfficialMap, zone))
      old == get_timezone_alpha2(ForZone(DeprecatedMap, zone))
  IN IF zone = None THEN None
     ELSE IF official /= None THEN official
     ELSE IF old = None THEN None
     ELSE get_timezone_alpha2(ForCountry(OfficialMap, old))

\* With RegdomFollowsTimezone a lookup also sets the regulatory domain.
__connman_timezone_lookup(t) ==
  LET zone == ZoneOf(t)
      alpha2 == try_get_timezone_alpha2(zone)
  IN [t EXCEPT !.timezone_config = zone,
               !.regdom = IF t.follows /\ alpha2 /= None THEN alpha2 ELSE @]

-----------------------------------------------------------------------------
(* The clock's property and the watch on the directory.                       *)

\* Clients hear of a zone that is known.
__connman_clock_update_timezone(t) ==
  LET u == __connman_timezone_lookup(t)
  IN IF u.timezone_config = None THEN u ELSE [u EXCEPT !.told = u.timezone_config]

ZoneInit ==
  \E zone \in SysconfigZones, follows \in BOOLEAN, z \in Zones :
    LET t == [localtime |-> [kind |-> "link", zone |-> z], sysconfig |-> zone, follows |-> follows,
              updates |-> "auto", timezone_config |-> None, told |-> None, regdom |-> None,
              events |-> 0]
    IN s = [__connman_timezone_lookup(t) EXCEPT !.told = __connman_timezone_lookup(t).timezone_config]

\* write_symlink(): the old file is removed and a link to the zone created, which
\* the watch reports.
write_symlink(t, zone) ==
  [t EXCEPT !.localtime = [kind |-> "link", zone |-> zone], !.events = @ + 1]

\* Timezone of SetProperty.
SetTimezone(zone) ==
  /\ s.updates = "manual" /\ s.events < MaxEvents
  /\ s' = write_symlink(s, zone)

SetTimezoneUpdates ==
  s' = [s EXCEPT !.updates = IF @ = "auto" THEN "manual" ELSE "auto"]

\* Another program writes a copy of a zone, or moves a link into place.
OthersWrite ==
  /\ s.events < MaxEvents
  /\ \E kind \in {"link", "copy"}, zone \in Zones :
       s' = [s EXCEPT !.localtime = [kind |-> kind, zone |-> zone], !.events = @ + 1]

\* Faulty variant: the events are read but the zone is not looked up again.
inotify_data_Once(t) ==
  [t EXCEPT !.events = 0]

\* inotify_data(): every event of the buffer about localtime updates the zone.
inotify_data(t) == [__connman_clock_update_timezone(t) EXCEPT !.events = 0]

InotifyData ==
  /\ s.events > 0
  /\ s' = inotify_data(s)

ZoneNext ==
  \/ \E zone \in Zones \cup DOMAIN Aliases : SetTimezone(zone)
  \/ SetTimezoneUpdates \/ OthersWrite \/ InotifyData

ZoneSpec == ZoneInit /\ [][ZoneNext]_vars

-----------------------------------------------------------------------------
(* Properties.                                                                *)

\* Once the events of the directory were read, the zone shown has the content of
\* the localtime file, however the file was written and whatever other zone has
\* the same content; a file that links into the zone directory always has a zone.
\* A regulatory domain that follows the zone is the main code of a line of the
\* official map.
ZoneFollowsFile ==
  /\ s.events = 0 =>
       /\ s.timezone_config /= None =>
            ContentOf[RealPath(s.timezone_config)] = Content(s.localtime)
       /\ s.localtime.kind = "link" => s.timezone_config /= None /\ s.told = s.timezone_config
  /\ s.regdom /= None => \E l \in Range(OfficialMap) : Head(l.codes) = s.regdom

=============================================================================

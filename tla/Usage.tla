---------------------------- MODULE Usage ----------------------------
(* The file of traffic counters of a service, src/stats.c: a ring of records  *)
(* with a header that says where the ring begins and ends and which records   *)
(* are the last at home and while roaming, and a history of the records that  *)
(* the ring has lost.                                                         *)
(*                                                                            *)
(* A record is [day, roaming, data].  The file is [pages, ring, begin, end,   *)
(* home, roaming, history]; home and roaming are 0 where the header has       *)
(* UINT_MAX.  The history is a file of the same format that only grows: it is *)
(* the sequence of its records.                                               *)
EXTENDS Integers, Sequences, SequencesExt, FiniteSets, FiniteSetsExt

CONSTANTS
  PageRecords,   \* records in a page
  MaxPages,      \* STATS_MAX_FILE_SIZE
  DaysPerMonth

NoRecord == [day |-> -1, roaming |-> FALSE, data |-> 0]
Month(day) == day \div DaysPerMonth

Blanks(n) == SubSeq([k \in 1..n |-> NoRecord], 1, n)

last(f) == Len(f.ring)

stats_file_remap(f, pages) == [f EXCEPT !.ring = @ \o Blanks(pages * PageRecords - Len(@))]

\* A new file; one that exists has a header that is used as it is.
stats_file_setup ==
  stats_file_remap([ring |-> << >>, begin |-> 1, end |-> 1, home |-> 0, roaming |-> 0, history |-> << >>], 1)

get_next(f, k) == IF k + 1 > last(f) THEN 1 ELSE k + 1

\* What an iterator over the ring gives: the records after `begin' up to `end'.
Records(f) ==
  LET n == (f.end - f.begin) % last(f)
  IN SubSeq([i \in 1..n |-> f.ring[((f.begin + i - 1) % last(f)) + 1]], 1, n)

-----------------------------------------------------------------------------
(* The history.  Records from before `step' are thinned out to one a month,   *)
(* later ones to one a day, home and roaming apart.                           *)

\* Does the period that a record belongs to end with it?
PeriodEnds(cur, next, step) ==
  IF cur.day < step
  THEN cur.day % DaysPerMonth = next.day % DaysPerMonth /\ Month(cur.day) /= Month(next.day)
  ELSE next.day - cur.day > 0

\* A walk over records has the last of each kind in hand, and what it has written.
Walked == [home |-> << >>, roaming |-> << >>, out |-> << >>]
Holding(a, r) == IF r.roaming THEN [a EXCEPT !.roaming = <<r>>] ELSE [a EXCEPT !.home = <<r>>]
Written(a) == [Walked EXCEPT !.out = a.out \o a.home \o a.roaming]
Places(q) == IF q = << >> THEN << >> ELSE SubSeq([i \in 1..(Len(q) - 1) |-> i], 1, Len(q) - 1)
LastOf(q) == IF q = << >> THEN << >> ELSE <<Last(q)>>

\* Faulty variant: the days of two records are taken for one when they follow each other.
process_file_NextDay(q, step) ==
  LET One(a, i) == IF q[i + 1].day - q[i].day > 1 THEN Written(Holding(a, q[i])) ELSE Holding(a, q[i])
  IN [out |-> FoldLeft(One, Walked, Places(q)).out, cur |-> LastOf(q)]

\* The last record of each kind goes to the new file when its period ends; the last
\* is left for what follows.
process_file(q, step) ==
  LET One(a, i) == IF PeriodEnds(q[i], q[i + 1], step) THEN Written(Holding(a, q[i])) ELSE Holding(a, q[i])
  IN [out |-> FoldLeft(One, Walked, Places(q)).out, cur |-> LastOf(q)]

\* The first of the month two months ago; the account period begins on the first.
StepDay(today) == (Month(today) - 2) * DaysPerMonth

\* The new history.  Records of the ring older than the history's last are passed
\* over, and the first that is not.
From(data, newer) == IF newer = {} THEN << >> ELSE SubSeq(data, Min(newer) + 1, Len(data))
Newer(data, cur) ==
  IF cur = << >> THEN data ELSE From(data, {k \in DOMAIN data : cur[1].day <= data[k].day})
Joined(out, new) == out \o new.out \o new.cur
Continued(old, data, step) == Joined(old.out, process_file(old.cur \o Newer(data, old.cur), step))

summarize(f, today) ==
  Continued(process_file(f.history, StepDay(today)), Records(f), StepDay(today))

\* A new file with the summary replaces the history.
stats_file_history_update(f, today) == [f EXCEPT !.history = summarize(f, today)]

-----------------------------------------------------------------------------
(* The counters.                                                              *)

\* The ring grows up to its limit before it is full.
Grown(f) ==
  IF last(f) < MaxPages * PageRecords /\ last(f) = f.end
  THEN stats_file_remap(f, last(f) \div PageRecords + 1) ELSE f

MadeRoom(f, next, today) == IF next = f.begin THEN stats_file_history_update(f, today) ELSE f

\* Faulty variant: the record of each kind is not kept apart.
PutRecord_OneKind(f, next, roaming, data, today) ==
  [MadeRoom(f, next, today) EXCEPT
     !.ring[next] = [day |-> today, roaming |-> roaming, data |-> data],
     !.home = next, !.roaming = next, !.end = next]

PutRecord(f, next, roaming, data, today) ==
  [MadeRoom(f, next, today) EXCEPT
     !.ring[next] = [day |-> today, roaming |-> roaming, data |-> data],
     !.home = IF roaming THEN @ ELSE next, !.roaming = IF roaming THEN next ELSE @, !.end = next]

PutAfterEnd(f, roaming, data, today) == PutRecord(f, get_next(f, f.end), roaming, data, today)
__connman_stats_update(f, roaming, data, today) == PutAfterEnd(Grown(f), roaming, data, today)

\* What is there; the value given where there is nothing.
__connman_stats_get(f, roaming, data) ==
  LET k == IF roaming THEN f.roaming ELSE f.home IN IF k = 0 THEN data ELSE f.ring[k].data

-----------------------------------------------------------------------------
(* The traffic of a service: what the kernel counts on its link               *)
(* (src/ipconfig.c), the totals at home and while roaming (src/service.c),    *)
(* the file that keeps them (src/stats.c), the applications told of them      *)
(* (src/counter.c) and how often the kernel is asked for them (src/rtnl.c).   *)
(*                                                                            *)
(* One number stands for the eight of a link; the seconds online are left     *)
(* out.  A Usage call carries what changed since the one before.              *)

CONSTANTS
  Counters,     \* object path -> [owner, interval]
  Scenarios,    \* [counters, days, traffic, events]: the paths used, the last day, how much
                \* is counted on a link and in all, and which of "roam", "reset", "drop" and
                \* "restart" may happen
  Calm          \* see Spared

VARIABLE s

vars == <<s>>

Kinds == {"home", "roaming"}
NoInterval == 1000  \* G_MAXUINT
Unknown == -1       \* a number the application has not been told

stats_init == [k \in Kinds |-> [valid |-> FALSE, last |-> 0, data |-> 0]]

Init ==
  \E x \in Scenarios :
    s = [x |-> x, day |-> 0, f |-> stats_file_setup, reg |-> FALSE, conn |-> FALSE, roaming |-> FALSE,
         stats |-> stats_init, link |-> 0, recorded |-> [k \in Kinds |-> 0], reset |-> {}, fresh |-> FALSE,
         counters |-> [p \in {} |-> 0], app |-> [p \in {} |-> 0], list |-> << >>, interval |-> NoInterval,
         timer |-> FALSE]

stats_get(t) == IF t.roaming THEN "roaming" ELSE "home"

-----------------------------------------------------------------------------
(* Totals and the file.                                                       *)

\* A service that is registered already keeps what it has.
Register(t) ==
  IF t.reg THEN t
  ELSE [t EXCEPT !.reg = TRUE, !.reset = {}, !.fresh = FALSE,
                 !.stats = [k \in Kinds |-> [@[k] EXCEPT !.data = __connman_stats_get(t.f, k = "roaming", @)]]]

stats_update(t) ==
  LET k == stats_get(t)
  IN [t EXCEPT !.stats[k].data = IF t.stats[k].valid THEN @ + t.link - t.stats[k].last ELSE @,
               !.stats[k].valid = TRUE, !.stats[k].last = t.link]

-----------------------------------------------------------------------------
(* Applications.  A counter has a copy of the totals it was sent.             *)

\* What changed in the totals of a kind, or all of it, and the copy afterwards.
stats_append_counters(counter, stats, k) ==
  [sent |-> IF counter.all \/ counter[k] /= stats[k].data THEN {k} ELSE {},
   counter |-> [counter EXCEPT ![k] = stats[k].data]]

Reported(t, path, both, sent) ==
  [t EXCEPT !.counters[path] = [both.counter EXCEPT !.all = FALSE],
            !.app[path] = [k \in Kinds |-> IF k \in sent THEN t.stats[k].data ELSE @[k]]]
ReportBoth(t, path, home, both) == Reported(t, path, both, home.sent \cup both.sent)

\* Faulty variant: all of it is sent for the first kind only.
ReportRoaming_First(t, path, home) ==
  ReportBoth(t, path, home, stats_append_counters([home.counter EXCEPT !.all = FALSE], t.stats, "roaming"))

ReportRoaming(t, path, home) ==
  ReportBoth(t, path, home, stats_append_counters(home.counter, t.stats, "roaming"))

\* The application puts what it is sent in the place of what it knew.
stats_append(t, path) ==
  ReportRoaming(t, path, stats_append_counters(t.counters[path], t.stats, "home"))

\* Of a service that is connected.
Recorded(t, k) ==
  [t EXCEPT !.f = IF t.reg THEN __connman_stats_update(@, t.roaming, t.stats[k].data, t.day) ELSE @,
            !.recorded[k] = IF t.reg THEN t.stats[k].data ELSE @,
            !.reset = @ \ {k},
            !.fresh = TRUE]

__connman_service_notify(t) ==
  IF ~t.conn THEN t
  ELSE FoldLeft(stats_append, Recorded(stats_update(t), stats_get(t)), SetToSeq(DOMAIN t.counters))

Copy == [all |-> TRUE, home |-> 0, roaming |-> 0]
Nothing == [k \in Kinds |-> Unknown]
With(f, p, v) == [q \in DOMAIN f \cup {p} |-> IF q = p THEN v ELSE f[q]]
Without(f, p) == [q \in DOMAIN f \ {p} |-> f[q]]

__connman_service_counter_register(t, path) ==
  [t EXCEPT !.counters = With(@, path, Copy), !.app = With(@, path, Nothing), !.fresh = FALSE]

__connman_service_counter_unregister(t, path) ==
  [t EXCEPT !.counters = Without(@, path), !.app = Without(@, path)]

-----------------------------------------------------------------------------
(* How often the kernel is asked.                                             *)

update_interval_callback(t, min) == [t EXCEPT !.interval = min, !.timer = min < NoInterval]

Least(list) == IF list = << >> THEN NoInterval ELSE Head(list)

Sooner(t) == IF Least(t.list) < t.interval THEN update_interval_callback(t, Least(t.list)) ELSE t
__connman_rtnl_update_interval_add(t, interval) ==
  IF interval = 0 THEN t ELSE Sooner([t EXCEPT !.list = SortSeq(Append(@, interval), <)])

Removed(list, at) == IF at = {} THEN list ELSE RemoveAt(list, Min(at))

\* Faulty variant: the interval stays until the last counter goes.
Later_Keep(t) == IF t.list = << >> THEN update_interval_callback(t, NoInterval) ELSE t

Later(t) == IF Least(t.list) > t.interval THEN update_interval_callback(t, Least(t.list)) ELSE t
__connman_rtnl_update_interval_remove(t, interval) ==
  IF interval = 0 THEN t
  ELSE Later([t EXCEPT !.list = Removed(@, {k \in DOMAIN @ : @[k] = interval})])

remove_counter(t, path) ==
  __connman_service_counter_unregister(__connman_rtnl_update_interval_remove(t, Counters[path].interval), path)

-----------------------------------------------------------------------------
(* Steps.                                                                     *)

\* __connman_service_connect() and what makes the service ready
Connect == ~s.conn /\ s' = [Register(s) EXCEPT !.conn = TRUE]

Disconnect == s.conn /\ "drop" \in s.x.events /\ s' = [s EXCEPT !.conn = FALSE, !.reg = FALSE]

\* The connection is lost; the file stays open.
Lost == s.conn /\ "drop" \in s.x.events /\ s' = [s EXCEPT !.conn = FALSE]

service_up == ~s.conn /\ s' = [s EXCEPT !.link = 0, !.stats = [k \in Kinds |-> [@[k] EXCEPT !.valid = FALSE]]]

\* Calm: the last record of the other kind is not overwritten.
Spared(t) ==
  LET next == get_next(Grown(t.f), t.f.end) IN t.reg => next /= (IF t.roaming THEN t.f.home ELSE t.f.roaming)

\* update_stats(): a link message with no packets says nothing.
update_stats ==
  \E n \in 0..s.x.traffic :
    /\ s.link + n \in 1..s.x.traffic
    /\ Calm => Spared(s)
    /\ s' = __connman_service_notify([s EXCEPT !.link = @ + n])
    /\ \A k \in Kinds : s'.stats[k].data <= s.x.traffic

Roam == "roam" \in s.x.events /\ s' = [s EXCEPT !.roaming = ~@]

reset_stats ==
  "reset" \in s.x.events /\ s' = [s EXCEPT !.stats = [k \in Kinds |-> [@[k] EXCEPT !.valid = FALSE, !.data = 0]],
                 !.reset = Kinds, !.fresh = FALSE]

NextDay == s.day < s.x.days /\ s' = [s EXCEPT !.day = @ + 1]

\* A path has one counter.
__connman_counter_register ==
  \E p \in s.x.counters \ DOMAIN s.counters :
    s' = __connman_rtnl_update_interval_add(__connman_service_counter_register(s, p), Counters[p].interval)

__connman_counter_unregister == \E p \in DOMAIN s.counters : s' = remove_counter(s, p)

\* An application goes with all of its counters.
owner_disconnect ==
  \E o \in {Counters[p].owner : p \in DOMAIN s.counters} :
    s' = FoldLeft(remove_counter, s, SetToSeq({p \in DOMAIN s.counters : Counters[p].owner = o}))

\* The daemon stops, or is killed between two steps, and starts: the file is what is left.
Restart ==
  "restart" \in s.x.events /\ s' = [s EXCEPT !.reg = FALSE, !.conn = FALSE, !.roaming = FALSE, !.stats = stats_init, !.reset = {},
                 !.counters = [p \in {} |-> 0], !.app = [p \in {} |-> 0], !.list = << >>,
                 !.interval = NoInterval, !.timer = FALSE, !.fresh = FALSE]

Next ==
  \/ Connect \/ Disconnect \/ Lost \/ service_up \/ update_stats \/ Roam \/ reset_stats \/ NextDay
  \/ __connman_counter_register \/ __connman_counter_unregister \/ owner_disconnect \/ Restart

Spec == Init /\ [][Next]_vars

-----------------------------------------------------------------------------
(* Properties.                                                                *)

\* The totals of a service in use are those last recorded (__connman_stats_update()),
\* across growth of the file, wrapping of the ring and restarts, unless they were reset
\* since (ResetCounters).
TotalsKept == s.reg => \A k \in Kinds \ s.reset : s.stats[k].data = s.recorded[k]

\* An application that only puts together the changes it is sent (stats_append()) knows
\* both totals after each report; the kernel is asked as often as the most impatient
\* counter wants (update_interval_callback()).
UsageAgrees ==
  /\ s.fresh => \A p \in DOMAIN s.app, k \in Kinds : s.app[p][k] = s.stats[k].data
  /\ s.interval = Min({NoInterval} \cup ({Counters[p].interval : p \in DOMAIN s.counters} \ {0}))
  /\ s.timer <=> s.interval < NoInterval

KeptIn(new, ring) ==
  LET days == {new[k].day : k \in DOMAIN new}
  IN /\ \A i, j \in DOMAIN ring :
          i < j /\ ring[i].day = ring[j].day /\ ring[i].day >= StepDay(s.day) => ring[i].day \in days
     /\ \A i \in DOMAIN s.f.history : s.f.history[i].day >= StepDay(s.day) => s.f.history[i].day \in days
     /\ \A i, j \in DOMAIN new : i < j => new[i].day <= new[j].day

\* Whenever the ring is summarised, no day of the last two months with two records in
\* the ring, and none the history had, is missing from the new history, which is in the
\* order of time (comment in src/stats.c: "For a period of at least 2 months daily records are
\* kept").
DailyRecordsKept == KeptIn(summarize(s.f, s.day), Records(s.f))

=============================================================================

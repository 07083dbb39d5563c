---------------------------- MODULE Firewall ----------------------------
(* The tables of the packet filter, src/iptables.c.  The kernel gives and     *)
(* takes a table as one block: entries of different sizes one after the       *)
(* other, where a jump is the offset of an entry, a built-in chain is the     *)
(* offset of its first entry and of its policy, and a user chain is an ERROR  *)
(* entry with its name, rules and a RETURN.  Rules and chains are added to    *)
(* and taken from a list of these entries, and the offsets moved along.       *)
(*                                                                            *)
(* A rule is [match, target, data]: the target a verdict, a chain, an         *)
(* extension or "" for none; data is the extension's.  Its text is not        *)
(* modelled.  An entry also carries the counter of packets, `cnt', and if it  *)
(* was in the table read the counter is its old one (counter_idx >= 0).       *)
EXTENDS Integers, Sequences, SequencesExt, FiniteSets, FiniteSetsExt

None == "none"
Error == "ERROR"
Return == -5  \* XT_RETURN

\* Sizes on a 64-bit machine: an entry without matches and target, the targets
\* and the match that is not a part of the entry itself.
EntrySize == 112
StdTarget == 40
ErrorTarget == 64
MatchSize(match) == IF match \in {"any", "source", "output"} THEN 0 ELSE 48
TargetSize(target) == CASE target \in {"MASQUERADE", "SNAT"} -> 56
                        [] target = "CONNMARK" -> 48
                        [] target = "MARK" -> 40
                        [] OTHER -> StdTarget

Extensions == {"MASQUERADE", "SNAT", "CONNMARK", "MARK"}

-----------------------------------------------------------------------------
(* Entries.                                                                   *)

target_to_verdict(target) ==
  CASE target = "ACCEPT" -> -2 [] target = "DROP" -> -1 [] target = "QUEUE" -> -4
    [] target = "RETURN" -> Return [] OTHER -> 0

is_builtin_target(target) == target \in {"ACCEPT", "DROP", "QUEUE", "RETURN"}

\* XT_STANDARD_TARGET is the empty name.
is_standard(e) == e.target = ""
is_jump(e) == is_standard(e) /\ e.verdict \notin {-1, -2, -4, Return, -6}
is_fallthrough(e) == is_standard(e) /\ e.verdict = 0
is_chain(e) == e.builtin /= None \/ e.target = Error

FirstOf(ks) == IF ks = {} THEN 0 ELSE Min(ks)

\* The place of the first entry of a built-in chain or of the ERROR entry of a user
\* chain; 0 for none.
find_chain_head(t, chain) ==
  FirstOf({k \in DOMAIN t.entries : LET e == t.entries[k]
                                    IN e.builtin = chain \/ (e.target = Error /\ e.name = chain)})

\* The head of the chain that follows.
TailOr(t, next) == IF next = 0 THEN Len(t.entries) ELSE next
TailAfter(t, head) ==
  IF head = 0 THEN 0
  ELSE TailOr(t, FirstOf({k \in DOMAIN t.entries : k > head /\ is_chain(t.entries[k])}))

find_chain_tail(t, chain) == TailAfter(t, find_chain_head(t, chain))

\* Sequences changed element by element, without and with the place.
MappedAt(F(_, _), q) == SubSeq([j \in DOMAIN q |-> F(j, q[j])], 1, Len(q))
Mapped(F(_), q) == MappedAt(LAMBDA j, e : F(e), q)

\* Where entries begin, the last one followed by the end.
Starts(entries) ==
  LET at[j \in 1..(Len(entries) + 1)] == IF j = 1 THEN 0 ELSE at[j - 1] + entries[j - 1].size IN at

update_offsets(t) ==
  LET at == Starts(t.entries)
  IN [t EXCEPT !.entries = MappedAt(LAMBDA j, e : [e EXCEPT !.offset = at[j]], @)]

\* Faulty variant: a jump to the rule before which one is put passes it by.
update_targets_reference_After(t, before, size, removing) ==
  LET moved(e) == IF ~is_jump(e) \/ e.verdict < before THEN e
                  ELSE [e EXCEPT !.verdict = IF removing THEN @ - size ELSE @ + size]
  IN [t EXCEPT !.entries = Mapped(moved, @)]

\* Jumps behind the place that changes move along.  `before' is the offset of the
\* entry after the one that is added or removed.
update_targets_reference(t, before, size, removing) ==
  LET moved(e) == CASE ~is_jump(e) -> e
                    [] is_jump(e) /\ removing /\ e.verdict >= before -> [e EXCEPT !.verdict = @ - size]
                    [] is_jump(e) /\ ~removing /\ e.verdict > before -> [e EXCEPT !.verdict = @ + size]
                    [] OTHER -> e
  IN [t EXCEPT !.entries = Mapped(moved, @)]

\* An entry that falls through gets the offset of the one after it.
Through(e, before) == IF is_fallthrough(e) THEN [e EXCEPT !.verdict = before + e.size] ELSE e

\* Before the entry at a place, or at the end for 0.
AddAt(t, e, before, at) ==
  [update_targets_reference([t EXCEPT !.num_entries = @ + 1, !.size = @ + e.size,
                                      !.entries = InsertAt(@, before, e)], at, e.size, FALSE)
     EXCEPT !.entries[before] = Through(@, at)]

AddLast(t, e) == [t EXCEPT !.num_entries = @ + 1, !.size = @ + e.size, !.entries = Append(@, e)]

iptables_add_entry(t, entry, before, builtin) ==
  IF before = 0 THEN AddLast(t, [entry EXCEPT !.builtin = builtin, !.offset = t.size])
  ELSE update_offsets(AddAt(t, [entry EXCEPT !.builtin = builtin], before, t.entries[before].offset))

remove_table_entry(t, k) ==
  [t EXCEPT !.num_entries = @ - 1, !.size = @ - t.entries[k].size, !.entries = RemoveAt(@, k)]

-----------------------------------------------------------------------------
(* Hooks.                                                                     *)

\* The hooks of the chains that begin after a place.
HooksAfter(t, k) == {t.entries[j].builtin : j \in (k + 1)..Len(t.entries)} \ {None}

\* Faulty variant: the chains behind stay where they were.
update_hooks_One(t, head, size) ==
  IF t.entries[head].builtin = None THEN t
  ELSE [t EXCEPT !.underflow[t.entries[head].builtin] = @ + size]

ShiftHooks(t, builtin, later, size) ==
  [t EXCEPT !.underflow = [h \in DOMAIN @ |-> IF h = builtin \/ h \in later THEN @[h] + size ELSE @[h]],
            !.hook_entry = [h \in DOMAIN @ |-> IF h \in later THEN @[h] + size ELSE @[h]]]

update_hooks(t, head, size) ==
  IF t.entries[head].builtin = None THEN t
  ELSE ShiftHooks(t, t.entries[head].builtin, HooksAfter(t, head), size)

\* The entry at a place is the first of its chain now.
delete_update_hooks(t, builtin, head, removed) ==
  [ShiftHooks(t, builtin, HooksAfter(t, head), -removed) EXCEPT !.entries[head].builtin = builtin]

-----------------------------------------------------------------------------
(* Chains and rules.  An operation gives [t, err].                            *)

Done(t) == [t |-> t, err |-> FALSE]
Failed(t) == [t |-> t, err |-> TRUE]

Blank == [target |-> "", name |-> "", match |-> "any", data |-> 0, verdict |-> 0,
          size |-> EntrySize + StdTarget, builtin |-> None, offset |-> 0, old |-> FALSE, cnt |-> 0]
Head_(chain) == [Blank EXCEPT !.target = Error, !.name = chain, !.size = EntrySize + ErrorTarget]
Verdict(v) == [Blank EXCEPT !.verdict = v]

\* Both entries go before the one that ends the table.
AddBeforeEnd(t, e) == iptables_add_entry(t, e, Len(t.entries), None)

iptables_add_chain(t, chain) ==
  IF find_chain_head(t, chain) /= 0 THEN Failed(t)
  ELSE Done(AddBeforeEnd(AddBeforeEnd(t, Head_(chain)), Verdict(Return)))

\* Jumps are not moved along, here and below.
DeleteChainAt(t, head, tail) ==
  IF head = 0 \/ t.entries[head].builtin /= None \/ head + 1 /= tail - 1 THEN Failed(t)
  ELSE Done(update_offsets(remove_table_entry(remove_table_entry(t, head + 1), head)))

iptables_delete_chain(t, chain) == DeleteChainAt(t, find_chain_head(t, chain), find_chain_tail(t, chain))

FirstRule(t, head) == IF t.entries[head].builtin /= None THEN head ELSE head + 1

\* The entries from one place to before another; a built-in chain gets a new head.
CutOut(t, first, last, removed) ==
  [t EXCEPT !.num_entries = @ - (last - first), !.size = @ - removed,
            !.entries = SubSeq(@, 1, first - 1) \o SubSeq(@, last, Len(@))]
Rehook(t, builtin, head, removed) ==
  IF builtin = None THEN t ELSE delete_update_hooks(t, builtin, head, removed)

FlushAt(t, builtin, first, last, removed) ==
  IF first = last THEN Done(t)
  ELSE Done(update_offsets(Rehook(CutOut(t, first, last, removed), builtin, first, removed)))

FlushFrom(t, builtin, first, last) ==
  FlushAt(t, builtin, first, last, t.entries[last].offset - t.entries[first].offset)

FlushHead(t, head, tail) ==
  IF head = 0 THEN Failed(t) ELSE FlushFrom(t, t.entries[head].builtin, FirstRule(t, head), tail - 1)

iptables_flush_chain(t, chain) == FlushHead(t, find_chain_head(t, chain), find_chain_tail(t, chain))

\* The target of a rule: a verdict, the first entry of a chain, or an extension.
TargetAt(t, target, head) ==
  CASE is_builtin_target(target) -> [target |-> "", verdict |-> target_to_verdict(target)]
    [] ~is_builtin_target(target) /\ head /= 0 -> [target |-> "", verdict |-> t.entries[head + 1].offset]
    [] OTHER -> [target |-> target, verdict |-> 0]

prepare_target(t, target) == TargetAt(t, target, find_chain_head(t, target))

EntryOf(rule, xt) ==
  [Blank EXCEPT !.target = xt.target, !.verdict = xt.verdict, !.match = rule.match, !.data = rule.data,
                !.size = EntrySize + MatchSize(rule.match) + TargetSize(xt.target)]

new_rule(t, rule) == EntryOf(rule, prepare_target(t, rule.target))

\* [t, builtin]: the hook that goes over to the rule, if any, is taken from the head.
TakeHook(t, head, builtin) ==
  IF builtin = None THEN [t |-> t, builtin |-> None]
  ELSE [t |-> [t EXCEPT !.entries[head].builtin = None], builtin |-> builtin]

\* Faulty variant: the first rule appended to an empty built-in chain is not its head.
prepare_rule_inclusion_NoHead(t, head, tail, size, insert) ==
  TakeHook(update_hooks(t, head, size), head, IF insert THEN t.entries[head].builtin ELSE None)

\* A rule that comes first in a built-in chain becomes its head.
prepare_rule_inclusion(t, head, tail, size, insert) ==
  TakeHook(update_hooks(t, head, size), head,
           IF insert \/ head = tail - 1 THEN t.entries[head].builtin ELSE None)

AppendBefore(p, e, place) == Done(iptables_add_entry(p.t, e, place, p.builtin))

AppendAt(t, e, head, tail) ==
  IF head = 0 THEN Failed(t)
  ELSE AppendBefore(prepare_rule_inclusion(t, head, tail, e.size, FALSE), e, tail - 1)

iptables_append_rule(t, chain, rule) ==
  AppendAt(t, new_rule(t, rule), find_chain_head(t, chain), find_chain_tail(t, chain))

InsertAfter(p, e, head) ==
  Done(iptables_add_entry(p.t, e, IF p.builtin = None THEN head + 1 ELSE head, p.builtin))

InsertFirst(t, e, head, tail) ==
  IF head = 0 THEN Failed(t)
  ELSE InsertAfter(prepare_rule_inclusion(t, head, tail, e.size, TRUE), e, head)

iptables_insert_rule(t, chain, rule) ==
  InsertFirst(t, new_rule(t, rule), find_chain_head(t, chain), find_chain_tail(t, chain))

\* Of two standard targets, jumps and verdicts alike, nothing is compared; of an
\* extension the data beyond the size of a standard target.
is_same_target(a, b) ==
  \/ is_standard(a) /\ is_standard(b)
  \/ /\ ~is_standard(a) /\ a.target = b.target
     /\ TargetSize(a.target) > StdTarget => a.data = b.data

is_same_iptables_entry(a, b) == a.match = b.match /\ a.size = b.size

\* The place of the first rule of a chain that is taken for the one given.
find_existing_rule(t, head, tail, rule, e) ==
  FirstOf({k \in FirstRule(t, head)..(tail - 2) :
             /\ rule.target /= "" \/ MatchSize(rule.match) > 0
             /\ is_same_iptables_entry(e, t.entries[k])
             /\ rule.target /= "" => is_same_target(t.entries[k], e)})

Without(t, k) ==
  remove_table_entry(update_targets_reference(t, t.entries[k + 1].offset, t.entries[k].size, TRUE), k)

\* Faulty variant: the hooks stay with the rule that goes.
DeleteAt_KeepHook(t, head, k) ==
  IF k = 0 THEN Failed(t) ELSE Done(update_offsets(Without(t, k)))

\* The head that is removed leaves its hook to the entry after it.
DeleteAt(t, head, k) ==
  IF k = 0 THEN Failed(t)
  ELSE Done(update_offsets(Rehook(Without(t, k), t.entries[head].builtin, head, t.entries[k].size)))

DeleteFrom(t, head, tail, rule) ==
  IF head = 0 THEN Failed(t)
  ELSE DeleteAt(t, head, find_existing_rule(t, head, tail, rule, new_rule(t, rule)))

iptables_delete_rule(t, chain, rule) ==
  DeleteFrom(t, find_chain_head(t, chain), find_chain_tail(t, chain), rule)

ChangePolicyAt(t, head, k, v) ==
  IF v \notin {-1, -2} \/ head = 0 THEN Failed(t)
  ELSE IF t.entries[head].builtin = None THEN Failed(t)
  ELSE Done([t EXCEPT !.entries[k].verdict = v, !.entries[k].old = @ /\ t.entries[k].verdict = v])

iptables_change_policy(t, chain, policy) ==
  ChangePolicyAt(t, find_chain_head(t, chain), find_chain_tail(t, chain) - 1, target_to_verdict(policy))

-----------------------------------------------------------------------------
(* Reading and writing a table.  What the kernel has is                       *)
(* [hooks, entries, hook_entry, underflow].                                   *)

\* The entries as they come, with the hook that begins at each.  The chains of the hooks
\* come in the order of the hooks and each ends with its policy, so the current hook
\* is the first one whose policy was not passed.
iterate_entries(k) ==
  LET at == Starts(k.entries)
      passed(j) == Cardinality({h \in Range(k.hooks) : k.underflow[h] < at[j]})
      begins(j, h) == h <= Len(k.hooks) /\ k.hook_entry[k.hooks[h]] = at[j]
  IN MappedAt(LAMBDA j, e : [e |-> e, builtin |-> IF begins(j, passed(j) + 1) THEN k.hooks[passed(j) + 1] ELSE None],
              k.entries)

\* The list made of them by add_entry(), each with its old counter.
iptables_init(k) ==
  LET at == Starts(k.entries)
      add(j, x) == [x.e EXCEPT !.builtin = x.builtin, !.old = TRUE, !.offset = at[j]]
  IN [hooks |-> k.hooks, entries |-> MappedAt(add, iterate_entries(k)), num_entries |-> Len(k.entries),
      size |-> at[Len(k.entries) + 1], hook_entry |-> k.hook_entry, underflow |-> k.underflow]

iptables_blob(t) ==
  [hooks |-> t.hooks, entries |-> t.entries, hook_entry |-> t.hook_entry, underflow |-> t.underflow]

\* The counters of entries that were there before are given back.
iptables_add_counters(k) ==
  LET counted(e) == [e EXCEPT !.cnt = IF e.old THEN @ ELSE 0,
                              !.builtin = None, !.offset = 0, !.old = FALSE]
  IN [k EXCEPT !.entries = Mapped(counted, @)]

-----------------------------------------------------------------------------
(* What a table says, for the kernel and for the properties.                  *)

Offsets(k) == Starts(k.entries)

\* The kernel takes a table whose chains begin and end at entries, with a policy at
\* the end of a built-in one, and whose jumps lead to entries.
Accepted(k) ==
  LET offs == Offsets(k)
      entries == {offs[j] : j \in DOMAIN k.entries}
  IN /\ \A h \in Range(k.hooks) :
          /\ k.hook_entry[h] \in entries
          /\ \E j \in DOMAIN k.entries : /\ offs[j] = k.underflow[h]
                                        /\ is_standard(k.entries[j]) /\ k.entries[j].verdict \in {-1, -2}
     /\ \A j \in DOMAIN k.entries : is_jump(k.entries[j]) => k.entries[j].verdict \in entries
     /\ Last(k.entries).target = Error

UserHeads(k) == {j \in DOMAIN k.entries : k.entries[j].target = Error /\ j < Len(k.entries)}
UserChains(k) == {k.entries[j].name : j \in UserHeads(k)}

\* The places of the rules of a chain, its policy or RETURN not counted.
PlacesOf(k, chain) ==
  LET offs == Offsets(k)
      head == CHOOSE j \in UserHeads(k) : k.entries[j].name = chain
      next == Min({j \in DOMAIN k.entries : j > head /\ k.entries[j].target = Error})
  IN IF chain \in Range(k.hooks)
     THEN {j \in DOMAIN k.entries : k.hook_entry[chain] <= offs[j] /\ offs[j] < k.underflow[chain]}
     ELSE (head + 1)..(next - 2)

\* The rule that an entry is; a jump that leads to the beginning of no chain is lost.
RuleAt(k, j) ==
  LET e == k.entries[j]
      to == {i \in UserHeads(k) : Offsets(k)[i + 1] = e.verdict}
      target == CASE ~is_standard(e) -> e.target
                  [] is_standard(e) /\ ~is_jump(e) ->
                       CHOOSE v \in {"ACCEPT", "DROP", "QUEUE", "RETURN"} : target_to_verdict(v) = e.verdict
                  [] is_jump(e) /\ e.verdict = Offsets(k)[j + 1] -> ""
                  [] is_jump(e) /\ e.verdict /= Offsets(k)[j + 1] ->
                       IF to = {} THEN "lost" ELSE k.entries[CHOOSE i \in to : TRUE].name
  IN [match |-> e.match, target |-> target, data |-> e.data, cnt |-> e.cnt]

RulesOf(k, chain) ==
  LET places == SetToSortSeq(PlacesOf(k, chain), LAMBDA a, b : a < b)
  IN Mapped(LAMBDA j : RuleAt(k, j), places)

PolicyOf(k, hook) ==
  LET j == CHOOSE j \in DOMAIN k.entries : Offsets(k)[j] = k.underflow[hook]
  IN [verdict |-> k.entries[j].verdict, cnt |-> k.entries[j].cnt]

\* A table as chains of rules, and the block that says the same.
Contents(k) ==
  LET heads == SetToSortSeq(UserHeads(k), LAMBDA a, b : a < b)
  IN [hooks |-> k.hooks, users |-> Mapped(LAMBDA j : k.entries[j].name, heads),
      rules |-> [c \in Range(k.hooks) \cup UserChains(k) |-> RulesOf(k, c)],
      policy |-> [h \in Range(k.hooks) |-> PolicyOf(k, h)]]

Layout(a) ==
  LET plain(e) == [e |-> e, to |-> ""]
      entry(r) == [e |-> [Blank EXCEPT !.target = IF r.target \in Extensions THEN r.target ELSE "",
                                       !.match = r.match, !.data = r.data, !.cnt = r.cnt,
                                       !.verdict = target_to_verdict(r.target),
                                       !.size = EntrySize + MatchSize(r.match) + TargetSize(r.target)],
                   to |-> r.target]
      builtin(h) == Append(Mapped(entry, a.rules[h]),
                           plain([Verdict(a.policy[h].verdict) EXCEPT !.cnt = a.policy[h].cnt]))
      user(c) == <<plain(Head_(c))>> \o Mapped(entry, a.rules[c]) \o <<plain(Verdict(Return))>>
  IN FlattenSeq(Mapped(builtin, a.hooks)) \o FlattenSeq(Mapped(user, a.users)) \o <<plain(Head_(Error))>>

Block(a) ==
  LET lay == Layout(a)
      at == Starts(Mapped(LAMBDA x : x.e, lay))
      first(c) == at[1 + CHOOSE j \in DOMAIN lay : lay[j].e.target = Error /\ lay[j].e.name = c]
      resolved(j, x) ==
        IF x.to \in Range(a.users) THEN [x.e EXCEPT !.verdict = first(x.to)]
        ELSE IF is_fallthrough(x.e) THEN [x.e EXCEPT !.verdict = at[j + 1]] ELSE x.e
      upto[n \in 0..Len(a.hooks)] == IF n = 0 THEN 0 ELSE upto[n - 1] + Len(a.rules[a.hooks[n]]) + 1
      place(h) == CHOOSE n \in DOMAIN a.hooks : a.hooks[n] = h
  IN [hooks |-> a.hooks, entries |-> MappedAt(resolved, lay),
      hook_entry |-> [h \in Range(a.hooks) |-> at[upto[place(h) - 1] + 1]],
      underflow |-> [h \in Range(a.hooks) |-> at[upto[place(h)]]]]

-----------------------------------------------------------------------------
(* Rules of the daemon in the packet filter, src/firewall-iptables.c over     *)
(* src/iptables.c: address translation of tethering and sessions, and the     *)
(* marks of sessions.  Rules for a built-in chain are kept in a chain of the  *)
(* daemon's own, to which a jump at the head of the built-in one leads, as    *)
(* long as there are any.  Other programs have rules in the same table.       *)
(*                                                                            *)
(* One table.  `k' is the kernel's, `tab' the list of entries of a change     *)
(* under way, `mtable' the number of rules of each managed chain.  In a       *)
(* `tool' behaviour the functions of iptables.c are called one by one.        *)

CONSTANTS
  Tables,      \* scenarios: [tool, hooks, contexts, foreign, users, calls]
               \* contexts: name -> [mark, rules: sequence of <<hook, rule>>]
               \* foreign, calls: rules other programs and the tool use; users: their chains
  MaxRules,    \* of other programs in a chain, and of the tool in the table
  Calm         \* see the guards that mention it

VARIABLE s

vars == <<s>>

managed(hook) == "connman-" \o hook
JumpTo(chain) == [match |-> "any", target |-> chain, data |-> 0]
Counted(rule, n) == [match |-> rule.match, target |-> rule.target, data |-> rule.data, cnt |-> n]
Empty(hooks) ==
  [hooks |-> hooks, users |-> << >>, rules |-> [h \in Range(hooks) |-> << >>],
   policy |-> [h \in Range(hooks) |-> [verdict |-> -2, cnt |-> 1]]]

NoTable == [entries |-> << >>]

Init ==
  \E x \in Tables :
    s = [x |-> x, run |-> TRUE, k |-> Block(Empty(x.hooks)), tab |-> NoTable, ref |-> Empty(x.hooks),
         mtable |-> [h \in Range(x.hooks) |-> 0], connmark_ref |-> 0, connmark_ctx |-> << >>,
         rules |-> [c \in DOMAIN x.contexts |-> << >>], err |-> FALSE, fails |-> FALSE]

-----------------------------------------------------------------------------
(* The functions of iptables.c that others call.                              *)

get_table(t) == IF t.tab /= NoTable THEN t.tab ELSE iptables_init(t.k)

Result(t, r) == [t EXCEPT !.tab = r.t, !.err = r.err]

__connman_iptables_new_chain(t, chain) == Result(t, iptables_add_chain(get_table(t), chain))

__connman_iptables_delete_chain(t, chain) == Result(t, iptables_delete_chain(get_table(t), chain))

__connman_iptables_flush_chain(t, chain) == Result(t, iptables_flush_chain(get_table(t), chain))

__connman_iptables_change_policy(t, chain, policy) == Result(t, iptables_change_policy(get_table(t), chain, policy))

__connman_iptables_append(t, chain, rule) == Result(t, iptables_append_rule(get_table(t), chain, rule))

__connman_iptables_insert(t, chain, rule) == Result(t, iptables_insert_rule(get_table(t), chain, rule))

__connman_iptables_delete(t, chain, rule) == Result(t, iptables_delete_rule(get_table(t), chain, rule))

\* A table the kernel does not take stays, to be changed further.
Replace(t, blob) ==
  IF ~Accepted(blob) THEN [t EXCEPT !.err = TRUE]
  ELSE [t EXCEPT !.k = iptables_add_counters(blob), !.tab = NoTable, !.err = FALSE]

__connman_iptables_commit(t) ==
  IF t.tab = NoTable THEN [t EXCEPT !.err = TRUE] ELSE Replace(t, iptables_blob(t.tab))

CommitUnlessFailed(t) == IF t.err THEN t ELSE __connman_iptables_commit(t)

\* The user chains of the table as it was read, in their order.
__connman_iptables_iterate_chains(t) ==
  Mapped(LAMBDA e : e.name, SelectSeq(t.k.entries, LAMBDA e : e.target = Error /\ e.name /= Error))

-----------------------------------------------------------------------------
(* Managed chains.                                                            *)

KeepIfInserted(t, hook) ==
  IF ~t.err THEN t ELSE [__connman_iptables_delete_chain(t, managed(hook)) EXCEPT !.err = TRUE]

JumpFromHook(t, hook) ==
  IF t.err THEN t
  ELSE KeepIfInserted(__connman_iptables_insert(t, hook, JumpTo(managed(hook))), hook)

insert_managed_chain(t, hook) == JumpFromHook(__connman_iptables_new_chain(t, managed(hook)), hook)

DeleteUnlinked(t, hook) == IF t.err THEN t ELSE __connman_iptables_delete_chain(t, managed(hook))

delete_managed_chain(t, hook) ==
  DeleteUnlinked(__connman_iptables_delete(t, hook, JumpTo(managed(hook))), hook)

AppendManaged(t, hook, rule) ==
  IF t.err THEN t
  ELSE __connman_iptables_append([t EXCEPT !.mtable[hook] = @ + 1], managed(hook), rule)

insert_managed_rule(t, hook, rule) ==
  AppendManaged(IF t.mtable[hook] = 0 THEN insert_managed_chain(t, hook) ELSE [t EXCEPT !.err = FALSE],
                hook, rule)

\* Faulty variant: the chain stays when its last rule goes.
delete_managed_rule_KeepChain(t, hook, rule) ==
  [__connman_iptables_delete(t, managed(hook), rule) EXCEPT !.mtable[hook] = @ - 1]

\* Whether the rule itself was found does not matter for the chain.
DropEmpty(t, hook) == IF t.mtable[hook] > 0 THEN t ELSE delete_managed_chain(t, hook)

delete_managed_rule(t, hook, rule) ==
  DropEmpty([__connman_iptables_delete(t, managed(hook), rule) EXCEPT !.mtable[hook] = @ - 1], hook)

-----------------------------------------------------------------------------
(* Contexts.  A list of rules [hook, rule, enabled].                          *)

Rules(defs) == Mapped(LAMBDA d : [hook |-> d[1], rule |-> d[2], enabled |-> FALSE], defs)

enable_rule(t, r) == CommitUnlessFailed(insert_managed_rule(t, r.hook, r.rule))

disable_rule(t, r) ==
  IF ~r.enabled THEN [t EXCEPT !.err = TRUE]
  ELSE CommitUnlessFailed(delete_managed_rule(t, r.hook, r.rule))

\* Up to the first that fails.  Gives the state and the rules.
AfterEnable(a, r, u) == [t |-> u, rules |-> Append(a.rules, [r EXCEPT !.enabled = ~u.err])]
EnableNext(a, r) ==
  IF a.t.err THEN [a EXCEPT !.rules = Append(@, r)] ELSE AfterEnable(a, r, enable_rule(a.t, r))

firewall_enable_rules(t, rules) ==
  FoldLeft(EnableNext, [t |-> [t EXCEPT !.err = FALSE], rules |-> << >>], rules)

\* All of them, the last first; an error does not stop it.
AfterDisable(a, r, u) ==
  [t |-> IF a.t.err THEN [u EXCEPT !.err = TRUE] ELSE u, rules |-> <<[r EXCEPT !.enabled = @ /\ u.err]>> \o a.rules]
DisableNext(a, r) == AfterDisable(a, r, disable_rule(a.t, r))

firewall_disable_rules(t, rules) ==
  FoldLeft(DisableNext, [t |-> [t EXCEPT !.err = FALSE], rules |-> << >>], Reverse(rules))

ConnmarkRules ==
  Rules(<< <<"INPUT", [match |-> "any", target |-> "CONNMARK", data |-> 1]>>,
           <<"POSTROUTING", [match |-> "any", target |-> "CONNMARK", data |-> 2]>> >>)

ConnmarkEnabled(a) ==
  IF a.t.err THEN a.t ELSE [a.t EXCEPT !.connmark_ref = 1, !.connmark_ctx = a.rules]

firewall_enable_connmark(t) ==
  IF t.connmark_ref > 0 THEN [t EXCEPT !.connmark_ref = @ + 1, !.err = FALSE]
  ELSE ConnmarkEnabled(firewall_enable_rules(t, ConnmarkRules))

firewall_disable_connmark(t) ==
  IF t.connmark_ref > 1 THEN [t EXCEPT !.connmark_ref = @ - 1]
  ELSE [firewall_disable_rules([t EXCEPT !.connmark_ref = @ - 1], t.connmark_ctx).t
          EXCEPT !.connmark_ctx = << >>]

Stored(a, c) == IF a.t.err THEN a.t ELSE [a.t EXCEPT !.rules[c] = a.rules]
Enable(t, c) ==
  IF t.err THEN t ELSE Stored(firewall_enable_rules(t, Rules(t.x.contexts[c].rules)), c)

\* Tethering's and a session's, which differ in the rule.
__connman_firewall_enable_nat(t, c) == Enable([t EXCEPT !.err = FALSE], c)

KeptIfFailed(a, c) == [a.t EXCEPT !.rules[c] = IF a.t.err THEN a.rules ELSE << >>]
__connman_firewall_disable_nat(t, c) == KeptIfFailed(firewall_disable_rules(t, t.rules[c]), c)

__connman_firewall_enable_marking(t, c) == Enable(firewall_enable_connmark(t), c)

\* The session destroys the context afterwards.
__connman_firewall_disable_marking(t, c) ==
  [firewall_disable_rules(firewall_disable_connmark(t), t.rules[c]).t EXCEPT !.rules[c] = << >>]

\* What an earlier run left behind goes, the last chain first.
flush_table(t) ==
  LET left == SelectSeq(Reverse(__connman_iptables_iterate_chains(t)), LAMBDA c : \E h \in Range(t.x.hooks) : c = managed(h))
      hookOf(c) == CHOOSE h \in Range(t.x.hooks) : c = managed(h)
      flush(u, c) == __connman_iptables_delete_chain(
                       __connman_iptables_flush_chain(
                         __connman_iptables_delete(u, hookOf(c), JumpTo(c)), c), c)
  IN __connman_iptables_commit(FoldLeft(flush, [t EXCEPT !.tab = get_table(t)], left))

-----------------------------------------------------------------------------
(* Steps of the daemon.                                                       *)

EnableContext ==
  \E c \in DOMAIN s.x.contexts :
    /\ s.run /\ ~s.x.tool /\ s.rules[c] = << >>
    /\ s' = IF s.x.contexts[c].mark THEN __connman_firewall_enable_marking(s, c)
            ELSE __connman_firewall_enable_nat(s, c)

DisableContext ==
  \E c \in DOMAIN s.x.contexts :
    /\ s.run /\ ~s.x.tool /\ s.rules[c] /= << >>
    /\ s' = IF s.x.contexts[c].mark THEN __connman_firewall_disable_marking(s, c)
            ELSE __connman_firewall_disable_nat(s, c)

\* A crash; stopping leaves no more behind.
Crash ==
  /\ s.run /\ ~s.x.tool
  /\ s' = [s EXCEPT !.run = FALSE, !.tab = NoTable, !.mtable = [h \in DOMAIN @ |-> 0], !.connmark_ref = 0,
                    !.connmark_ctx = << >>, !.rules = [c \in DOMAIN @ |-> << >>], !.err = FALSE]

Start == ~s.run /\ s' = [flush_table(s) EXCEPT !.run = TRUE]

-----------------------------------------------------------------------------
(* Other programs change the kernel's table.                                  *)

Unconditional(rule) == rule.match = "any" /\ rule.target \notin Extensions

\* Calm: no rule is put before the daemon's jump that the daemon takes for it, and
\* no chain after the daemon's.
ForeignRule ==
  \E r \in s.x.foreign, h \in Range(s.x.hooks), first \in BOOLEAN :
    LET rule == Counted(r, 1)
        put(q) == IF first THEN <<rule>> \o q ELSE Append(q, rule)
        a == Contents(s.k)
    IN /\ ~s.x.tool /\ Len(s.ref.rules[h]) < MaxRules 
       /\ (Calm /\ first) => ~Unconditional(r)
       /\ r.target \notin Range(s.x.users) \/ r.target \in Range(s.ref.users)
       /\ s' = [s EXCEPT !.ref.rules[h] = put(@), !.k = Block([a EXCEPT !.rules[h] = put(@)])]

ForeignRemove ==
  \E h \in Range(s.x.hooks) :
    LET a == Contents(s.k)
        own(r) == r.target = managed(h)
        j == CHOOSE j \in DOMAIN a.rules[h] : ~own(a.rules[h][j]) /\ \A i \in 1..(j - 1) : own(a.rules[h][i])
    IN /\ ~s.x.tool /\ s.ref.rules[h] /= << >>
       /\ s' = [s EXCEPT !.ref.rules[h] = Tail(@), !.k = Block([a EXCEPT !.rules[h] = RemoveAt(@, j)])]

ForeignChain ==
  \E c \in Range(s.x.users), first \in {TRUE, Calm} :
    LET a == Contents(s.k)
        put(q) == IF first THEN <<c>> \o q ELSE Append(q, c)
        rules == <<Counted([match |-> "source", target |-> "DROP", data |-> 0], 1)>>
        with(f) == [d \in DOMAIN f \cup {c} |-> IF d = c THEN rules ELSE f[d]]
    IN /\ ~s.x.tool /\ c \notin Range(s.ref.users)
       /\ s' = [s EXCEPT !.ref.users = put(@), !.ref.rules = with(@),
                         !.k = Block([a EXCEPT !.users = put(@), !.rules = with(@)])]

-----------------------------------------------------------------------------
(* The functions of iptables.c called one by one, on one table in memory.     *)
(* `ref' is what the table should be, `fails' whether the call should.        *)

Chains(a) == DOMAIN a.rules
Total(a) == Cardinality(UNION {{<<c, j>> : j \in DOMAIN a.rules[c]} : c \in Chains(a)})
Plain(r) == [match |-> r.match, target |-> r.target, data |-> r.data]

\* Does a jump, or a rule without a target, lead to a place behind a chain?
LeadsBehind(a, chain) ==
  LET order == a.hooks \o a.users
      place(c) == CHOOSE j \in DOMAIN order : order[j] = c
  IN \E c \in Chains(a) : \E r \in Range(a.rules[c]) :
       \/ r.target = "" /\ place(c) > place(chain)
       \/ r.target \in Range(a.users) /\ place(r.target) > place(chain)

JumpsTo(a, chain) == \E c \in Chains(a) : \E r \in Range(a.rules[c]) : r.target = chain

\* The kernel's table is not looked at again before the one in memory replaces it.
Step(t, ref, fails) == s' = [t EXCEPT !.ref = ref, !.fails = fails, !.k = IF t.tab = NoTable THEN @ ELSE NoTable]

NewChain ==
  \E c \in Range(s.x.users) :
    LET known == c \in Chains(s.ref)
        new == [s.ref EXCEPT !.users = Append(@, c),
                             !.rules = [d \in DOMAIN @ \cup {c} |-> IF d = c THEN << >> ELSE @[d]]]
    IN /\ s.x.tool
       /\ Step(__connman_iptables_new_chain(s, c), IF known THEN s.ref ELSE new, known)

DeleteChain ==
  \E c \in Range(s.x.users) :
    LET fails == c \notin Chains(s.ref) \/ s.ref.rules[c] /= << >>
        new == [s.ref EXCEPT !.users = SelectSeq(@, LAMBDA d : d /= c),
                             !.rules = [d \in DOMAIN @ \ {c} |-> @[d]]]
    IN /\ s.x.tool /\ ~JumpsTo(s.ref, c) /\ (Calm /\ ~fails => ~LeadsBehind(s.ref, c))
       /\ Step(__connman_iptables_delete_chain(s, c), IF fails THEN s.ref ELSE new, fails)

FlushChain ==
  \E c \in Chains(s.ref) :
    LET new == [s.ref EXCEPT !.rules[c] = << >>]
    IN /\ s.x.tool /\ (Calm => ~LeadsBehind(new, c))
       /\ Step(__connman_iptables_flush_chain(s, c), new, FALSE)

Usable(r) == r.target \notin Range(s.x.users) \/ r.target \in Range(s.ref.users)

AppendRule ==
  \E c \in Chains(s.ref), r \in s.x.calls :
    /\ s.x.tool /\ Usable(r) /\ r.target /= c /\ Total(s.ref) < MaxRules
    /\ Step(__connman_iptables_append(s, c, r), [s.ref EXCEPT !.rules[c] = Append(@, Counted(r, 0))], FALSE)

InsertRule ==
  \E c \in Chains(s.ref), r \in s.x.calls :
    /\ s.x.tool /\ Usable(r) /\ r.target /= c /\ Total(s.ref) < MaxRules
    /\ Step(__connman_iptables_insert(s, c, r), [s.ref EXCEPT !.rules[c] = <<Counted(r, 0)>> \o @], FALSE)

\* Calm: no rule with the same match is confused with the one to delete.
DeleteRule ==
  \E c \in Chains(s.ref), r \in s.x.calls :
    LET q == s.ref.rules[c]
        same == {j \in DOMAIN q : Plain(q[j]) = r}
        like == {j \in DOMAIN q : q[j].match = r.match}
    IN /\ s.x.tool /\ Usable(r) /\ (Calm => like = same)
       /\ Step(__connman_iptables_delete(s, c, r),
               IF same = {} THEN s.ref ELSE [s.ref EXCEPT !.rules[c] = RemoveAt(@, Min(same))], same = {})

ChangePolicy ==
  \E h \in Range(s.x.hooks), p \in {"ACCEPT", "DROP"} :
    LET v == target_to_verdict(p)
        new == [verdict |-> v, cnt |-> IF s.ref.policy[h].verdict = v THEN s.ref.policy[h].cnt ELSE 0]
    IN /\ s.x.tool
       /\ Step(__connman_iptables_change_policy(s, h, p), [s.ref EXCEPT !.policy[h] = new], FALSE)

Commit == s.x.tool /\ s.tab /= NoTable /\ Step(__connman_iptables_commit(s), s.ref, FALSE)

Next ==
  \/ EnableContext \/ DisableContext \/ Crash \/ Start
  \/ ForeignRule \/ ForeignRemove \/ ForeignChain
  \/ NewChain \/ DeleteChain \/ FlushChain \/ AppendRule \/ InsertRule \/ DeleteRule \/ ChangePolicy \/ Commit

Spec == Init /\ [][Next]_vars

-----------------------------------------------------------------------------
(* Properties.                                                                *)

Enabled(t) ==
  SelectSeq(FlattenSeq(SetToSeq({t.rules[c] : c \in DOMAIN t.rules})) \o t.connmark_ctx, LAMBDA r : r.enabled)

Count(q, P(_)) == Len(SelectSeq(q, P))

\* The rules of the daemon that are enabled (enable_rule(), disable_rule()) are those
\* the kernel has in the daemon's chains, each reached by one jump; what other programs
\* put into the table is as they put it, counters included.  After a crash the rules
\* of the earlier run are gone once the daemon starts (flush_table()).
KernelHoldsEnabled ==
  ~s.x.tool =>
    LET a == Contents(s.k)
        on == Enabled(s)
        own == {managed(h) : h \in Range(s.x.hooks)}
    IN /\ SelectSeq(a.users, LAMBDA c : c \notin own) = s.ref.users
       /\ a.policy = s.ref.policy
       /\ \A c \in Chains(s.ref) : SelectSeq(a.rules[c], LAMBDA r : r.target \notin own) = s.ref.rules[c]
       /\ s.run =>
            \A h \in Range(s.x.hooks) :
              LET here == SelectSeq(on, LAMBDA r : r.hook = h)
                  held == IF managed(h) \in Chains(a) THEN a.rules[managed(h)] ELSE << >>
              IN /\ managed(h) \in Chains(a) <=> here /= << >>
                 /\ Count(a.rules[h], LAMBDA r : r.target = managed(h)) = (IF here = << >> THEN 0 ELSE 1)
                 /\ Len(held) = Len(here)
                 /\ \A r \in Range(here) :
                      Count(held, LAMBDA e : Plain(e) = r.rule) = Count(here, LAMBDA e : e.rule = r.rule)

\* A sequence of changes to the list of entries (iptables_add_entry(), update_hooks(),
\* update_targets_reference() and their like) makes the table that changing chains of
\* rules would make: no rule, jump, policy or counter is lost or moved; a call fails
\* when there is nothing to change, and the kernel takes the result.
EntriesAreChains ==
  s.x.tool => /\ s.err = s.fails
              /\ s.ref = Contents(IF s.tab = NoTable THEN s.k ELSE iptables_add_counters(iptables_blob(s.tab)))

=============================================================================

----------------------------- MODULE Provision -----------------------------
(***************************************************************************)
(* Provisioning: src/config.c keeps the sections of the .config files of   *)
(* the storage directory in a table and imposes them on the services they  *)
(* match; src/service.c loads and saves the settings of a service; an      *)
(* inotify watch (src/inotify.c) reports changes of the files.  A running  *)
(* daemon sees a change only when it handles the event, and reads the file *)
(* as it is by then.  A Wi-Fi network can also be provisioned once, by a   *)
(* near-field token (plugins/neard.c).                                     *)
(***************************************************************************)
EXTENDS Sequences, FiniteSets, FiniteSetsExt, SequencesExt

CONSTANTS
  Kind,       \* the services: [type, ssid, security, dev] of each
  Files,      \* names of .config files
  Sections,   \* names of sections
  Scenarios,  \* [who: the services, contents: what each file
              \* may hold, tokens: texts pushed]
  MaxQueue,   \* bound on unhandled inotify events
  Calm        \* no file changes its mind about a service it forgot (see Forgotten)

VARIABLE s

NONE == "none"
VIRTUAL == "virtual"
NEARD == "neard"
\* The section of a token is alone in a file that does not exist on disk.
Names == Sections \cup {NEARD}
Services == DOMAIN Kind
Stations == SetToSeq(Services)

\* A file holds one text for each of its sections.
NoText == [type |-> NONE, ssid |-> NONE, security |-> NONE, eap |-> FALSE, pass |-> NONE,
           dev |-> NONE, ip |-> [v4 |-> NONE, v6 |-> NONE]]
Empty == [sec \in Sections |-> NoText]
Absent == [there |-> FALSE, text |-> Empty]

NoEntry == [text |-> NoText, loaded |-> FALSE, ids |-> {}]
NoTable == [there |-> FALSE, entry |-> [sec \in Names |-> NoEntry]]

DefaultIp == [v4 |-> "dhcp", v6 |-> "auto"]
Gone == [there |-> FALSE, fav |-> FALSE, imm |-> FALSE, file |-> NONE, entry |-> NONE,
         ip |-> DefaultIp, pass |-> NONE, auto |-> NONE, up |-> FALSE, new |-> FALSE,
         ignore |-> FALSE]
Unsaved == [there |-> FALSE, fav |-> FALSE, auto |-> NONE, pass |-> NONE, ip |-> DefaultIp,
            file |-> NONE, entry |-> NONE]

Init ==
  \E scen \in Scenarios:
    s = [scen |-> scen, running |-> FALSE,
         disk |-> [f \in Files |-> Absent], ev |-> <<>>,
         config_table |-> [f \in Files \cup {VIRTUAL} |-> NoTable],
         service |-> [w \in Services |-> Gone],
         stored |-> [w \in Services |-> Unsaved], idle |-> {}]

-----------------------------------------------------------------------------
\* Settings of a service in memory and in its storage directory.

service_save(st, w) ==
  LET v == st.service[w] IN
  IF v.new THEN st
  ELSE [st EXCEPT !.stored[w] =
         [there |-> TRUE, fav |-> v.fav, auto |-> IF v.fav THEN v.auto ELSE NONE,
          pass |-> v.pass, ip |-> v.ip, file |-> v.file, entry |-> v.entry]]

\* AutoConnect is the one setting of a provisioned service the user may change.
__connman_service_load_modifiable(st, w) ==
  IF st.stored[w].there /\ st.stored[w].auto # NONE
  THEN [st EXCEPT !.service[w].auto = st.stored[w].auto] ELSE st

service_load(st, w) ==
  LET k == st.stored[w] IN
  IF ~k.there THEN [st EXCEPT !.service[w].new = TRUE]
  ELSE [st EXCEPT !.service[w] =
         [@ EXCEPT !.new = FALSE,
                   !.fav = IF Kind[w].type = "wifi" THEN k.fav ELSE @,
                   !.auto = IF k.auto # NONE THEN k.auto ELSE @,
                   !.pass = IF k.pass # NONE THEN k.pass ELSE @,
                   !.ip = k.ip]]

__connman_storage_remove_service(st, w) == [st EXCEPT !.stored[w] = Unsaved]

__connman_service_disconnect(st, w) == [st EXCEPT !.service[w].up = FALSE]

__connman_service_remove(st, w) ==
  LET v == st.service[w] IN
  IF Kind[w].type = "ethernet" \/ v.imm \/ (~v.fav /\ v.up) THEN st
  ELSE service_save([__connman_service_disconnect(st, w) EXCEPT
                       !.service[w].pass = NONE, !.service[w].fav = FALSE], w)

-----------------------------------------------------------------------------
\* The table of sections.

\* The security of a section: an EAP method or a passphrase decides, the
\* key Security only tells WEP from PSK.
SecurityOf(t) ==
  CASE t.eap -> "ieee8021x"
    [] ~t.eap /\ t.pass # NONE -> IF t.security \in {"psk", "wep"} THEN t.security ELSE "psk"
    [] OTHER -> "none"

\* An address that does not parse makes the section void.
load_service_generic(t) == t.ip.v4 # "bad" /\ t.ip.v6 # "bad"

Valid(t) == t.type # NONE /\ load_service_generic(t)

load_service(t) == IF Valid(t) THEN [text |-> t, loaded |-> TRUE, ids |-> {}] ELSE NoEntry

\* Sections that were there stay in the table: the callers empty it first.
load_config(st, f) ==
  IF ~st.disk[f].there THEN st
  ELSE [st EXCEPT !.config_table[f].entry =
         [sec \in Names |-> IF sec \in Sections /\ Valid(st.disk[f].text[sec])
                            THEN load_service(st.disk[f].text[sec]) ELSE @[sec]]]

create_config(st, f) ==
  IF st.config_table[f].there THEN st
  ELSE [st EXCEPT !.config_table[f] = [NoTable EXCEPT !.there = TRUE]]

\* What removing a section does to one service it provisioned.
release(st, w) ==
  LET v == st.service[w]
      bare == __connman_service_remove(
                [st EXCEPT !.service[w].imm = FALSE,
                           !.service[w].file = NONE, !.service[w].entry = NONE], w)
      eth == [__connman_service_disconnect(bare, w) EXCEPT
                !.service[w].ip = DefaultIp, !.service[w].ignore = TRUE]
      kept == IF ~v.there THEN st ELSE IF Kind[w].type = "ethernet" THEN eth ELSE bare
  IN __connman_storage_remove_service(kept, w)

\* Faulty variant: only the services in range are released, the settings of
\* the others stay in the storage.
release_InRange(st, w) ==
  LET bare == __connman_service_remove(
                [st EXCEPT !.service[w].imm = FALSE,
                           !.service[w].file = NONE, !.service[w].entry = NONE], w)
  IN IF ~st.service[w].there THEN st
     ELSE __connman_storage_remove_service(
            IF Kind[w].type = "ethernet"
            THEN [bare EXCEPT !.service[w].up = FALSE, !.service[w].ip = DefaultIp] ELSE bare, w)

unregister_service_InRange(st, f, sec) ==
  LET e == st.config_table[f].entry[sec] IN
  FoldLeft(LAMBDA a, w: IF f # VIRTUAL /\ w \in e.ids THEN release_InRange(a, w) ELSE a,
           [st EXCEPT !.config_table[f].entry[sec] = NoEntry], Stations)

\* Removing a section from the table releases every service it provisioned.
unregister_service(st, f, sec) ==
  LET e == st.config_table[f].entry[sec] IN
  FoldLeft(LAMBDA a, w: IF f # VIRTUAL /\ w \in e.ids THEN release(a, w) ELSE a,
           [st EXCEPT !.config_table[f].entry[sec] = NoEntry], Stations)

remove_all(st, f) ==
  FoldLeft(LAMBDA a, sec: unregister_service(a, f, sec), st, SetToSeq(Names))

unregister_config(st, f) ==
  IF ~st.config_table[f].there THEN st
  ELSE [remove_all(st, f) EXCEPT !.config_table[f] = NoTable]

-----------------------------------------------------------------------------
\* Imposing a section on a service.

Matches(t, w) ==
  /\ t.type = Kind[w].type
  /\ t.type = "wifi" => t.ssid = Kind[w].ssid /\ SecurityOf(t) = Kind[w].security
  /\ t.dev \in {NONE, Kind[w].dev}

MethodsOf(t) ==
  [v4 |-> CASE t.ip.v4 \in {NONE, "auto", "dhcp"} -> "dhcp" [] t.ip.v4 = "off" -> "off" [] OTHER -> "fixed",
   v6 |-> CASE t.ip.v6 \in {NONE, "auto", "dhcp"} -> "auto" [] t.ip.v6 = "off" -> "off" [] OTHER -> "fixed"]

\* The passphrase of the service: only a section that has one changes it.
provision_service_wifi(t, w, pass) ==
  IF Kind[w].type = "wifi" /\ t.pass # NONE THEN t.pass ELSE pass

\* Faulty variant: the service is not marked as belonging to the file.
try_provision_service_NoMark(st, f, sec, w) ==
  LET t == st.config_table[f].entry[sec].text IN
  __connman_service_load_modifiable(
    [__connman_service_disconnect(st, w) EXCEPT
       !.config_table[f].entry[sec].ids = @ \cup {w},
       !.service[w].ip = MethodsOf(t), !.service[w].fav = TRUE,
       !.service[w].pass = provision_service_wifi(t, w, @),
       !.service[w].imm = TRUE], w)

\* The section of the table is written into the service, which becomes a
\* favourite that the user cannot change; a token's text only makes it a
\* favourite, connects it and is dropped when the loop is idle.
try_provision_service(st, f, sec, w) ==
  LET t == st.config_table[f].entry[sec].text IN
  __connman_service_load_modifiable(
    [__connman_service_disconnect(st, w) EXCEPT
       !.config_table[f].entry[sec].ids = @ \cup {w},
       !.service[w].ip = MethodsOf(t), !.service[w].fav = TRUE,
       !.service[w].file = IF f = VIRTUAL THEN NONE ELSE f,
       !.service[w].entry = IF f = VIRTUAL THEN NONE ELSE sec,
       !.service[w].pass = provision_service_wifi(t, w, @),
       !.service[w].imm = IF f = VIRTUAL THEN @ ELSE TRUE,
       !.idle = IF f = VIRTUAL THEN @ \cup {w} ELSE @], w)

\* The first section of the table, in the order of the hash, that matches.
find_and_provision_service_from_config(st, f, w, order) ==
  LET fits == SelectSeq(order, LAMBDA sec: st.config_table[f].entry[sec].loaded
                                           /\ Matches(st.config_table[f].entry[sec].text, w))
  IN IF fits = <<>> THEN st ELSE try_provision_service(st, f, Head(fits), w)

Provisions(st, f, w) ==
  \E sec \in Names: st.config_table[f].entry[sec].loaded
                    /\ Matches(st.config_table[f].entry[sec].text, w)

find_and_provision_service(st, w, order, files) ==
  LET fits == SelectSeq(files, LAMBDA f: Provisions(st, f, w))
  IN find_and_provision_service_from_config(st, Head(fits), w, order)

\* A service provisioned by a section that the file no longer has: the
\* section of that name goes, and the caller reads the file again.  The
\* service may as well belong to another file.
Orphaned(st, f, w) ==
  /\ st.service[w].file # NONE
  /\ ~(st.service[w].file = f /\ st.config_table[f].entry[st.service[w].entry].loaded)

__connman_config_provision_service_ident(st, f, w, order) ==
  find_and_provision_service_from_config(
    IF Orphaned(st, f, w) THEN unregister_service(st, f, st.service[w].entry) ELSE st,
    f, w, order)

__connman_service_provision_changed(st, f, order) ==
  FoldLeft(LAMBDA a, w: IF a.st.service[w].there
                        THEN [st |-> __connman_config_provision_service_ident(a.st, f, w, order),
                              ret |-> a.ret \/ Orphaned(a.st, f, w)]
                        ELSE a,
           [st |-> st, ret |-> FALSE], Stations)

\* Faulty variant: a changed file is read over the sections it had.
reload_Over(st, f, order) == __connman_service_provision_changed(load_config(st, f), f, order)

reload(st, f, order) ==
  __connman_service_provision_changed(load_config(remove_all(st, f), f), f, order)

Again(r, f, order) == IF r.ret THEN reload(r.st, f, order).st ELSE r.st

config_notify_handler(st, e, order) ==
  LET f == e.file
      made == IF e.mask \in {"create", "moved_to"} THEN create_config(st, f) ELSE st
  IN CASE e.mask = "delete" -> unregister_config(st, f)
       [] e.mask \in {"modify", "moved_to"} /\ made.config_table[f].there ->
            Again(reload(made, f, order), f, order)
       [] OTHER -> made

-----------------------------------------------------------------------------
\* Start and stop of the daemon.

\* Settings saved for a section that went away while no daemon watched.
remove_unprovisioned_services(st) ==
  [st EXCEPT !.stored = [w \in Services |->
     IF @[w].file # NONE
        /\ (~st.disk[@[w].file].there \/ st.disk[@[w].file].text[@[w].entry] = NoText)
     THEN Unsaved ELSE @[w]]]

read_configs(st) ==
  FoldLeft(LAMBDA a, f: IF a.disk[f].there THEN load_config(create_config(a, f), f) ELSE a,
           st, SetToSeq(Files))

Start ==
  /\ ~s.running
  /\ s' = [read_configs(remove_unprovisioned_services(s)) EXCEPT !.running = TRUE]

\* The tables are freed without touching the services.  A change the daemon
\* did not live to see is found only if it took the section away.
Stop ==
  /\ s.running
  /\ Calm => s.ev = <<>>
  /\ s' = [s EXCEPT !.running = FALSE, !.ev = <<>>, !.idle = {},
                    !.config_table = [f \in Files \cup {VIRTUAL} |-> NoTable],
                    !.service = [w \in Services |-> Gone]]

-----------------------------------------------------------------------------
\* Files.

\* A service whose settings were saved for a section that does not list it,
\* because it has not been in range since the daemon started, is not
\* released when the section changes.
Forgotten(f, text) ==
  \E w \in Services:
    /\ s.stored[w].file = f
    /\ IF s.running THEN w \notin s.config_table[f].entry[s.stored[w].entry].ids
       ELSE /\ text[s.stored[w].entry] # NoText
            /\ ~(Valid(text[s.stored[w].entry]) /\ Matches(text[s.stored[w].entry], w))

Notes(f, masks) ==
  IF s.running THEN s.ev \o [i \in 1..Len(masks) |-> [file |-> f, mask |-> masks[i]]] ELSE s.ev

FileChange(f, text, there, masks) ==
  /\ Len(s.ev) + Len(masks) <= MaxQueue
  /\ Calm => ~Forgotten(f, text)
  /\ s' = [s EXCEPT !.disk[f] = [there |-> there, text |-> text], !.ev = Notes(f, masks)]

WriteFile(f, text) ==
  /\ text # s.disk[f].text
  /\ FileChange(f, text, TRUE, IF s.disk[f].there THEN <<"modify">> ELSE <<"create", "modify">>)

MoveIn(f, text) ==
  /\ text # s.disk[f].text
  /\ FileChange(f, text, TRUE, <<"moved_to">>)

DeleteFile(f) ==
  /\ s.disk[f].there
  /\ FileChange(f, Empty, FALSE, <<"delete">>)

inotify_data(order) ==
  /\ s.running /\ s.ev # <<>>
  /\ s' = config_notify_handler([s EXCEPT !.ev = Tail(@)], Head(s.ev), order)

-----------------------------------------------------------------------------
\* Services.

\* A new service is provisioned by the first file that has a section for it,
\* otherwise its settings are loaded.
service_register(st, w, order, files) ==
  IF \E f \in Files \cup {VIRTUAL}: Provisions(st, f, w)
  THEN find_and_provision_service(st, w, order, files) ELSE service_load(st, w)

NetworkFound(w, order, files) ==
  /\ s.running /\ w \in s.scen.who /\ ~s.service[w].there
  /\ s' = service_register(
            [s EXCEPT !.service[w] = [Gone EXCEPT !.there = TRUE, !.auto = "yes",
                                                  !.fav = Kind[w].type = "ethernet"]],
            w, order, files)

\* The service of a token is connected when the loop is idle; a network that
\* is lost before that leaves the callback with a freed service.
NetworkLost(w) ==
  /\ s.service[w].there /\ w \notin s.idle
  /\ s' = [s EXCEPT !.service[w] = Gone]

ServiceReady(w) ==
  /\ s.service[w].there /\ ~s.service[w].up /\ s.service[w].fav /\ ~s.service[w].ignore
  /\ s' = service_save([s EXCEPT !.service[w].up = TRUE, !.service[w].new = FALSE], w)

\* The user connects a network with a passphrase of their own.
UserConnects(w) ==
  /\ s.service[w].there /\ ~s.service[w].up
  /\ s' = service_save([s EXCEPT !.service[w].up = TRUE, !.service[w].new = FALSE,
                          !.service[w].fav = TRUE, !.service[w].ignore = FALSE,
                          !.service[w].pass = IF Kind[w].type = "wifi" /\ @ = NONE THEN "user" ELSE @], w)

UserRemoves(w) ==
  /\ s.service[w].there /\ s.service[w].fav
  /\ s' = __connman_service_remove(s, w)

SetAutoConnect(w) ==
  /\ s.service[w].there /\ s.service[w].fav
  /\ s' = service_save([s EXCEPT !.service[w].auto = IF @ = "yes" THEN "no" ELSE "yes"], w)

\* A token: its text is provisioned like a section of a file of its own.
connman_config_provision_mutable_service(text, order) ==
  /\ s.running /\ ~s.config_table[VIRTUAL].there
  /\ s' = __connman_service_provision_changed(
            [create_config(s, VIRTUAL) EXCEPT !.config_table[VIRTUAL].entry[NEARD] = load_service(text)],
            VIRTUAL, order).st

remove_virtual_config(w) ==
  /\ w \in s.idle
  /\ s' = [unregister_config(s, VIRTUAL) EXCEPT !.idle = @ \ {w}]

\* Orders in which a hash table may list the sections of one file.
Orders == {Append(q, NEARD) : q \in SetToSeqs(Sections)}

Next ==
  \/ Start
  \/ Stop
  \/ \E f \in Files: \E text \in s.scen.contents[f]: WriteFile(f, text) \/ MoveIn(f, text)
  \/ \E f \in Files: DeleteFile(f)
  \/ \E order \in Orders: inotify_data(order)
  \/ \E w \in Services: \E order \in Orders, files \in SetToSeqs(Files \cup {VIRTUAL}):
       NetworkFound(w, order, files)
  \/ \E w \in Services: NetworkLost(w) \/ ServiceReady(w) \/ UserConnects(w) \/ UserRemoves(w)
                        \/ SetAutoConnect(w) \/ remove_virtual_config(w)
  \/ \E text \in s.scen.tokens, order \in Orders: connman_config_provision_mutable_service(text, order)

Spec == Init /\ [][Next]_s

-----------------------------------------------------------------------------
\* The sections on disk that are for a service.
Wanted(w) == {k \in Files \X Sections: /\ Valid(s.disk[k[1]].text[k[2]])
                                       /\ Matches(s.disk[k[1]].text[k[2]], w)}

Obeys(v, t) ==
  /\ v.ip = MethodsOf(t)
  /\ t.pass # NONE => v.pass = t.pass

Secrets == UNION {{text[sec].pass : text \in s.scen.contents[f], sec \in Sections} : f \in Files} \ {NONE}

\* Once the inotify events are handled, each service obeys the files on disk
\* (doc/config-format.txt): one that a section is for belongs to such a
\* section, has its addresses and its passphrase and cannot be changed; one
\* that no section is for can be, nothing in its storage says otherwise, and
\* it keeps no passphrase (Wi-Fi) or address (wired) that came from a file.
ServicesFollowFiles ==
  s.running /\ s.ev = <<>> =>
    \A w \in Services: s.service[w].there =>
      LET v == s.service[w] IN
      IF Wanted(w) # {}
      THEN /\ v.imm /\ v.fav /\ <<v.file, v.entry>> \in Wanted(w)
           /\ Obeys(v, s.disk[v.file].text[v.entry])
      ELSE /\ ~v.imm /\ v.file = NONE /\ s.stored[w].file = NONE
           /\ IF Kind[w].type = "wifi" THEN v.pass \notin Secrets ELSE v.ip = DefaultIp
=============================================================================

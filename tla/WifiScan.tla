------------------------------- MODULE WifiScan -------------------------------
(***************************************************************************)
(* Scanning for Wi-Fi networks: plugins/wifi.c (scans asked for, autoscan, *)
(* hidden networks) over gsupplicant/supplicant.c (the Scan call, ScanDone *)
(* and the list of results), with the scanning state of src/device.c and   *)
(* the callers of Scan kept in src/technology.c.                           *)
(*                                                                         *)
(* A scan is a chain of messages: the Scan call is answered, later the     *)
(* signal ScanDone arrives, the results are asked for, and their arrival   *)
(* runs the callback, which may start the next scan of the chain.  The     *)
(* interface, a connection attempt or another request may come in between. *)
(***************************************************************************)
EXTENDS Integers, Sequences, FiniteSets, Functions, TLC

CONSTANTS Groups,         \* networks that wpa_supplicant may find
          Settings,       \* what a run starts with: records [bg, ssids, rounds]
          MaxTimers, MaxCalls   \* bounds

VARIABLE s

NONE == "none"
EIO == -5
EBUSY == -16
EINVAL == -22
ENOLINK == -67
EALREADY == -114

BASE == 3
Limit(w) == IF w.set.bg THEN 300 ELSE 3      \* AUTOSCAN_EXPONENTIAL, AUTOSCAN_SINGLE
NoAuto == [on |-> FALSE, interval |-> 0, timeout |-> FALSE]
Busy == {"associating"}
States == Busy \cup {"disconnected", "scanning", "completed", "disabled"}
-------------------------------------------------------------------------------
(* src/device.c, src/technology.c *)

\* While a scan runs, networks not in use are unavailable until found again;
\* what is still unavailable when it stops is removed.
set_scanning(w, on) ==
    IF w.scanning = on THEN w
    ELSE IF on
    THEN [w EXCEPT !.scanning = TRUE,
                   !.nets = [g \in DOMAIN @ |-> g = w.busy]]
    ELSE [w EXCEPT !.scanning = FALSE,
                   !.nets = Restrict(@, {g \in DOMAIN @ : @[g] \/ g = w.busy}),
                   !.waiting = FALSE]

reset_scanning(w) == [w EXCEPT !.nets = [g \in DOMAIN @ |-> TRUE]]
-------------------------------------------------------------------------------
(* plugins/wifi.c, gsupplicant/supplicant.c *)

reset_autoscan(w) ==
    IF ~w.auto.on THEN w
    ELSE [w EXCEPT !.auto.interval = 0, !.auto.timeout = FALSE,
                   !.timers = IF w.auto.timeout THEN @ - 1 ELSE @]

stop_autoscan(w) == IF w.auto.on THEN set_scanning(reset_autoscan(w), FALSE) ELSE w

\* What keeps the supplicant interface from scanning; 0 if nothing does.
interface_ready_to_scan(w) ==
    IF ~w.iface THEN EINVAL
    ELSE IF w.own THEN EALREADY
    ELSE IF w.state \in Busy THEN EBUSY ELSE 0

g_supplicant_interface_scan(w, callback) ==
    [w EXCEPT !.cb = callback, !.calls = Append(@, [cb |-> callback, dead |-> w.dying])]

throw_wifi_scan(w, callback) ==
    IF w.scanning \/ interface_ready_to_scan(w) # 0 THEN w
    ELSE set_scanning(g_supplicant_interface_scan(w, callback), TRUE)

armed(w, interval) ==
    [w EXCEPT !.auto.interval = interval, !.auto.timeout = TRUE, !.timers = @ + 1]

autoscan_timeout(w) ==
    LET next == w.auto.interval * BASE
        interval == IF next > Limit(w) THEN Limit(w) ELSE next
    IN IF w.auto.interval = 0 THEN armed(w, BASE)
       ELSE IF ~w.set.bg /\ interval = Limit(w)
       THEN [throw_wifi_scan(w, "hidden") EXCEPT !.auto.timeout = FALSE]
       ELSE armed(throw_wifi_scan(w, "hidden"), interval)

\* Faulty variant: a timer that is already armed is not noticed.
start_autoscan_Again(w) ==
    IF w.connected \/ ~w.auto.on THEN w
    ELSE autoscan_timeout([w EXCEPT !.auto.interval = 0])

start_autoscan(w) ==
    IF w.connected \/ ~w.auto.on \/ w.auto.timeout \/ w.auto.interval > 0 THEN w
    ELSE autoscan_timeout(w)

\* With background scanning the parameters are replaced whether or not the
\* previous ones have a timer armed, which from then on nobody can remove.
setup_autoscan(w) ==
    [w EXCEPT !.auto = IF w.set.bg \/ w.type # "passive" THEN [NoAuto EXCEPT !.on = TRUE]
                       ELSE NoAuto]

wifi_update_scanner_type(w, type) ==
    IF w.type = type THEN w ELSE setup_autoscan([w EXCEPT !.type = type])

clear_hidden(w) == [w EXCEPT !.hid = @ /\ w.postpone, !.rounds = -1]

finish(w, result) ==
    LET q == set_scanning(w, FALSE)
    IN IF result # ENOLINK THEN start_autoscan(q) ELSE q

scan_ended(w, result) == IF result < 0 THEN reset_scanning(clear_hidden(w)) ELSE clear_hidden(w)

\* A postponed hidden scan is started; if it cannot be, the callback runs again.
postponed(w) ==
    LET q == reset_autoscan([w EXCEPT !.postpone = FALSE])
        ret == interface_ready_to_scan(q)
    IN IF ret = 0 THEN g_supplicant_interface_scan(q, "plain")
       ELSE finish(scan_ended(q, ret), ret)

scan_callback(w, result) ==
    LET q == scan_ended(w, result)
    IN IF q.hid /\ q.postpone THEN postponed(q) ELSE finish(q, result)

\* Take the next round of hidden favourites: none are left when rounds is -1.
get_hidden_connections_params(w) ==
    LET n == IF w.rounds = -1 THEN w.set.rounds ELSE w.rounds
    IN [w EXCEPT !.rounds = n - 1]

hidden_round(w, q, result) ==
    IF q.rounds >= 0 /\ interface_ready_to_scan(q) = 0
    THEN g_supplicant_interface_scan(q, "hidden")
    ELSE scan_callback(q, result)

scan_callback_hidden(w, result) ==
    IF w.hid /\ w.postpone THEN scan_callback(w, result)
    ELSE hidden_round(w, get_hidden_connections_params(w), result)

run_callback(w, callback, result) ==
    IF callback = "plain" THEN scan_callback(w, result)
    ELSE IF callback = "hidden" THEN scan_callback_hidden(w, result) ELSE w

wifi_scan_simple(w) ==
    throw_wifi_scan(wifi_update_scanner_type(reset_autoscan(w), "passive"), "hidden")

\* The scanner's type changes before the old autoscan is reset.
active_scan(w) ==
    LET q == reset_autoscan(wifi_update_scanner_type(w, "active"))
    IN IF interface_ready_to_scan(q) # 0 THEN q
       ELSE set_scanning(g_supplicant_interface_scan(q, "plain"), TRUE)

\* What wifi_scan_simple or active_scan return.
scan_error(w) == IF w.scanning THEN EALREADY ELSE interface_ready_to_scan(w)

\* "full" is force_full_scan; "recent" says that there are favourites whose
\* frequencies are worth trying (get_latest_connections).
wifi_scan(w, full, recent) ==
    IF w.scanning THEN w
    ELSE IF ~w.set.ssids \/ w.connected \/ (~full /\ ~recent) THEN wifi_scan_simple(w)
    ELSE active_scan(w)

\* A scan for one hidden network replaces the request before it.  "postpone" is
\* left as it is when the network of a postponed request is found: the next
\* request is then scanned for twice.
wifi_scan_hidden(w) ==
    IF w.scanning /\ w.hid /\ w.postpone THEN w
    ELSE IF w.scanning THEN [w EXCEPT !.hid = TRUE, !.postpone = TRUE]
    ELSE [active_scan(w) EXCEPT !.hid = interface_ready_to_scan(w) = 0]

set_powered(w, on, recent) ==
    IF w.powered = on THEN w
    ELSE IF ~on THEN [w EXCEPT !.powered = FALSE]
    ELSE wifi_scan([w EXCEPT !.powered = TRUE, !.scanning = FALSE], FALSE, recent)

finalize_interface_creation(w, recent) ==
    LET q == set_powered(w, TRUE, recent)
    IN start_autoscan(IF q.auto.on THEN q ELSE setup_autoscan(q))

remove_networks(w) == [w EXCEPT !.nets = <<>>, !.busy = NONE, !.network = FALSE]

\* Also asks wpa_supplicant to remove the interface ("closing").
wifi_disable(w) ==
    remove_networks(set_scanning(
        stop_autoscan([w EXCEPT !.connected = FALSE, !.closing = TRUE]), FALSE))

\* The object is destroyed: its networks go, a scan that is still wanted fails.
\* The plugin forgets the interface only after that callback.
remove_interface(w) ==
    LET gone == [remove_networks(w) EXCEPT !.known = {}, !.calls = <<>>, !.gets = 0,
                                           !.dying = TRUE]
        told == run_callback(gone, gone.cb, EIO)
    IN set_powered([told EXCEPT !.iface = FALSE, !.dying = FALSE, !.closing = FALSE,
                              !.cb = NONE, !.own = FALSE],
                   FALSE, FALSE)

network_found(w, g) ==
    [w EXCEPT !.known = @ \cup {g}, !.nets = (g :> TRUE) @@ @]

network_lost(w, g) ==
    [w EXCEPT !.known = @ \ {g}, !.nets = Restrict(@, DOMAIN @ \ {g}),
              !.busy = IF @ = g THEN NONE ELSE @,
              !.network = IF w.busy = g THEN FALSE ELSE @]

\* The results of a scan are there: every network known to wpa_supplicant is
\* (again) made one of the device, and the callback is run and then forgotten.
scan_bss_data(w) ==
    LET q == [w EXCEPT !.nets = [g \in w.known |-> TRUE], !.gets = @ - 1]
    IN [run_callback(q, w.cb, 0) EXCEPT !.cb = NONE]

\* Faulty variant: a failed scan does not run the callback.
signal_scan_done_Quiet(w, success) ==
    IF success THEN [w EXCEPT !.own = FALSE, !.gets = @ + 1]
    ELSE [w EXCEPT !.own = FALSE, !.cb = NONE]

signal_scan_done(w, success) ==
    LET q == [w EXCEPT !.own = FALSE]
    IN IF success THEN [q EXCEPT !.gets = @ + 1]
       ELSE [run_callback(q, w.cb, EIO) EXCEPT !.cb = NONE]

\* The Scan call is answered; "dead" marks a call on a removed interface.
interface_scan_result(w, failed) ==
    LET call == Head(w.calls)
        q == [w EXCEPT !.calls = Tail(@)]
        err == IF w.iface /\ ~call.dead /\ w.state = "disabled" THEN ENOLINK
               ELSE IF failed \/ call.dead THEN EIO ELSE 0
    IN IF err # 0 THEN run_callback(q, call.cb, err)
       ELSE [q EXCEPT !.cb = call.cb, !.running = TRUE]

\* A new state of the supplicant, of interest only with a network in use;
\* "idle" stands for the early ends of the DISCONNECTED branch.
interface_state(w, state, idle) ==
    LET q == [w EXCEPT !.state = state]
    IN IF ~w.network THEN q
       ELSE CASE state \in Busy -> stop_autoscan(q)
              [] state = "completed" -> [stop_autoscan(q) EXCEPT !.connected = TRUE]
              [] state = "scanning" ->
                   LET r == [q EXCEPT !.connected = FALSE,
                                      !.busy = IF w.connected THEN NONE ELSE @]
                   IN IF w.connected THEN start_autoscan(r) ELSE r
              [] state = "disabled" -> [q EXCEPT !.connected = FALSE]
              [] OTHER ->
                   IF state = "disconnected" /\ idle THEN [q EXCEPT !.connected = FALSE]
                   ELSE [start_autoscan([q EXCEPT !.busy = NONE]) EXCEPT !.connected = FALSE]
-------------------------------------------------------------------------------
Init == \E set \in Settings :
    s = [set |-> set, iface |-> FALSE, dying |-> FALSE, closing |-> FALSE, powered |-> FALSE,
         state |-> "disconnected", own |-> FALSE, running |-> FALSE, cb |-> NONE,
         calls |-> <<>>, gets |-> 0, scanning |-> FALSE, waiting |-> FALSE,
         auto |-> NoAuto, timers |-> 0, type |-> "unknown", rounds |-> -1,
         hid |-> FALSE, postpone |-> FALSE, known |-> {}, nets |-> <<>>, busy |-> NONE, network |-> FALSE, connected |-> FALSE]

Becomes(st) == /\ st.timers <= MaxTimers
               /\ Len(st.calls) <= MaxCalls /\ st.gets <= MaxCalls
               /\ s' = st

InterfaceCreated == /\ ~s.iface
                    /\ \E recent \in BOOLEAN :
                         Becomes(finalize_interface_creation(
                             [s EXCEPT !.iface = TRUE, !.state = "disconnected"], recent))

Disable == s.iface /\ s.powered /\ ~s.closing /\ Becomes(wifi_disable(s))

InterfaceRemoved == s.iface /\ Becomes(remove_interface([s EXCEPT !.running = FALSE]))

\* Scan of the technology API.
Scan == /\ s.powered /\ ~s.waiting
        /\ \E recent \in BOOLEAN :
             LET q == wifi_scan([s EXCEPT !.waiting = TRUE], TRUE, recent)
             IN Becomes(IF q.scanning \/ scan_error(s) = EALREADY THEN q
                        ELSE [q EXCEPT !.waiting = FALSE])

\* The agent gave the name of a hidden network to connect to.
HiddenScan == s.iface /\ Becomes(wifi_scan_hidden(s))

ScanReply == s.calls # <<>> /\ \E failed \in BOOLEAN : Becomes(interface_scan_result(s, failed))

\* wpa_supplicant is done with the scan it was running.
ScanDone == /\ s.iface /\ s.running
            /\ \E success \in BOOLEAN :
                 Becomes(signal_scan_done([s EXCEPT !.running = FALSE], success))

ScanResults == s.gets > 0 /\ Becomes(scan_bss_data(s))

\* The Scanning property.
Scanning == s.iface /\ s.running /\ ~s.own /\ Becomes([s EXCEPT !.own = TRUE])

\* wpa_supplicant also scans on its own, as it does for bgscan.
SelfScan == s.iface /\ ~s.running /\ Becomes([s EXCEPT !.running = TRUE, !.own = TRUE])

AutoscanTimer == /\ s.timers > 0
                 /\ Becomes(autoscan_timeout([s EXCEPT !.timers = @ - 1]))

NetworkFound == s.iface /\ \E g \in Groups \ s.known :
    \/ Becomes(network_found(s, g))
    \/ s.hid /\ Becomes([network_found(s, g) EXCEPT !.hid = FALSE])

NetworkLost == \E g \in s.known : Becomes(network_lost(s, g))

Connect == \E g \in DOMAIN s.nets :
    /\ s.busy = NONE
    /\ Becomes([s EXCEPT !.busy = g, !.network = TRUE])

\* wpa_supplicant does not begin to associate in the middle of a scan.
StateChanged == s.iface /\ \E state \in States \ {s.state}, idle \in BOOLEAN :
    /\ state \in Busy => ~s.running
    /\ state = "completed" => s.state \in Busy
    /\ Becomes(interface_state(s, state, idle))

Next == InterfaceCreated \/ Disable \/ InterfaceRemoved \/ Scan \/ HiddenScan \/ ScanReply
        \/ ScanDone \/ ScanResults \/ Scanning \/ SelfScan \/ AutoscanTimer
        \/ NetworkFound \/ NetworkLost \/ Connect \/ StateChanged

Spec == Init /\ [][Next]_s
-------------------------------------------------------------------------------
\* A scan is on its way whose end will run a callback.
UnderWay == s.calls # <<>> \/ (s.cb # NONE /\ (s.running \/ s.gets > 0))

\* A device that is scanning, and a request for a hidden network, are never left
\* without a scan whose end is told to them: neither the callback that is cleared
\* after it has started the next scan, nor a failed, refused or postponed scan, nor
\* a connection attempt in between breaks the chain.
ScanGoesOn == s.iface /\ (s.scanning \/ s.hid) => UnderWay

\* One autoscan timer at most, and it is the one that reset_autoscan can remove.
OneTimer == s.timers = (IF s.auto.timeout THEN 1 ELSE 0)
================================================================================

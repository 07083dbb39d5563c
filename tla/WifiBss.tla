-------------------------------- MODULE WifiBss --------------------------------
(***************************************************************************)
(* The access points (BSS) that wpa_supplicant reports, and the networks   *)
(* they are grouped into: gsupplicant/supplicant.c with the network        *)
(* callbacks of plugins/wifi.c.                                            *)
(*                                                                         *)
(* A network is a name with a security; it remembers its best access point *)
(* and that one's signal.  The network of the current access point keeps   *)
(* it as its best whatever the others do.  current_network is a pointer    *)
(* that is not cleared when its network is freed: DANGLING, which a        *)
(* network allocated later may or may not happen to sit at.                *)
(***************************************************************************)
EXTENDS Integers, FiniteSets, FiniteSetsExt, Functions, TLC

CONSTANTS Paths,      \* object paths of access points
          Ssids, Securities,
          Signals     \* dBm values that are reported

VARIABLE s

BSS_UNKNOWN_STRENGTH == -90

NONE == "none"
NULL == <<"null", "none">>
DANGLING == <<"freed", "none">>
Hidden == <<"hidden", "none">>       \* group of a BSS whose name is not known

Associated == {"associated"}         \* also stands for "completed"
States == Associated \cup {"inactive"}

\* Of a BSS: its network, the name it has itself, its signal; "raw" says that it was
\* announced without its properties, which then arrive in a reply of their own.
Known == DOMAIN s.bss
In(w, g) == {p \in DOMAIN w.bss : w.bss[p].group = g}
-------------------------------------------------------------------------------
\* The strength shown for a signal, in an unsigned char.
calculate_strength(signal) == Min({100, (120 + signal) % 256})

network_added(w, g) ==
    [w EXCEPT !.shown = (g :> calculate_strength(w.nets[g].signal)) @@ @]

\* Only a changed "Signal" is passed on: "" leaves the shown strength alone.
network_changed(w, g, property) ==
    IF property = "Signal" /\ g \in DOMAIN w.shown
    THEN [w EXCEPT !.shown[g] = calculate_strength(w.nets[g].signal), !.untold = @ \ {g}] ELSE w

network_removed(w, g) ==
    [w EXCEPT !.shown = Restrict(@, DOMAIN @ \ {g}), !.untold = @ \ {g}]

\* A new network; "there" says that it is allocated where the freed one was.
new_network(w, p, b, there) ==
    LET taken == w.current = DANGLING /\ there
    IN network_added(
           [w EXCEPT !.nets = (b.group :> [best |-> p, signal |-> b.signal, was |-> taken]) @@ @,
                     !.current = IF taken THEN b.group ELSE @],
           b.group)

stronger(w, b) == w.current # b.group /\ b.signal > w.nets[b.group].signal

grouped(w, p, b) ==
    LET q == IF stronger(w, b)
             THEN network_changed([w EXCEPT !.nets[b.group].best = p,
                                            !.nets[b.group].signal = b.signal],
                                  b.group, "Signal")
             ELSE w
    IN [q EXCEPT !.bss = (p :> b) @@ @]

add_or_replace_bss_to_network(w, p, b, there) ==
    grouped(IF b.group \in DOMAIN w.nets THEN w ELSE new_network(w, p, b, there), p, b)

\* Faulty variant: the other access points are not looked at.
update_network_signal_Keep(w, g) == w

\* The strongest BSS of the network, if one beats what the network has now.
update_network_signal(w, g) ==
    LET better == {p \in In(w, g) : w.bss[p].signal > w.nets[g].signal}
    IN IF (Cardinality(In(w, g)) <= 1 /\ w.nets[g].best # NONE) \/ better = {} THEN w
       ELSE LET top == CHOOSE p \in better :
                           \A q \in better : w.bss[q].signal <= w.bss[p].signal
            IN [w EXCEPT !.nets[g].best = top, !.nets[g].signal = w.bss[top].signal]

forget_best(w, p, g) ==
    IF w.nets[g].best = p
    THEN [w EXCEPT !.nets[g].best = NONE, !.nets[g].signal = BSS_UNKNOWN_STRENGTH]
    ELSE w

\* BSS p leaves its network, whose new signal nobody is told (untold).
leave(w, p) ==
    LET g == w.bss[p].group
        q == update_network_signal(
                 [forget_best(w, p, g) EXCEPT !.bss = Restrict(@, DOMAIN @ \ {p})], g)
    IN IF q.nets[g].signal = w.nets[g].signal THEN q ELSE [q EXCEPT !.untold = @ \cup {g}]

\* A network without access points is freed.
drop_empty(w, g) ==
    IF In(w, g) # {} THEN w
    ELSE network_removed([w EXCEPT !.nets = Restrict(@, DOMAIN @ \ {g}),
                                   !.current = IF @ = g THEN DANGLING ELSE @], g)

interface_bss_removed(w, p) ==
    LET g == w.bss[p].group
    IN network_changed(drop_empty(leave(w, p), g), g, "")

interface_bss_added_without_keys(w, p, there) ==
    IF p \in DOMAIN w.bss THEN w
    ELSE add_or_replace_bss_to_network(
             w, p, [group |-> Hidden, name |-> "hidden", signal |-> BSS_UNKNOWN_STRENGTH,
                    raw |-> TRUE], there)

\* The BSS that wpa_supplicant is associated with is the best of its network.
roamed(w, p, g) ==
    LET q == [w EXCEPT !.current = g, !.nets[g].best = p, !.nets[g].was = TRUE]
    IN IF w.nets[g].best = p THEN q
       ELSE network_changed([q EXCEPT !.nets[g].signal = w.bss[p].signal], g, "Signal")

associated(w, g) == IF w.state \in Associated THEN [w EXCEPT !.network = g] ELSE w

interface_current_bss(w, p, there) ==
    LET q == interface_bss_added_without_keys(w, p, there)
    IN associated(roamed(q, p, q.bss[p].group), q.bss[p].group)

\* The security of a BSS changed: it is copied into the network it now is of.
change_security(w, p, b, there) ==
    LET g == w.bss[p].group
    IN add_or_replace_bss_to_network(drop_empty(leave(w, p), g), p, b, there)

change_signal(w, p, g) ==
    LET net == w.nets[g]
        signal == w.bss[p].signal
        low == [w EXCEPT !.nets[g].signal = signal]
    IN IF (w.current = g /\ net.best # p) \/ signal = net.signal \/
          (signal < net.signal /\ net.best # p)
       THEN w
       ELSE network_changed(IF signal < net.signal THEN update_network_signal(low, g)
                            ELSE [low EXCEPT !.nets[g].best = p], g, "Signal")

\* The copy of a BSS whose security differs from its network's goes to the network its
\* name says; a reply to GetAll that is still awaited is cancelled.
signal_bss_changed(w, p, sec, signal, there) ==
    LET b == w.bss[p]
        q == [w EXCEPT !.bss[p].signal = signal]
    IN IF sec # b.group[2]
       THEN change_security(q, p, [b EXCEPT !.group = <<b.name, sec>>, !.signal = signal,
                                            !.raw = FALSE], there)
       ELSE change_signal(q, p, b.group)

\* The reply to GetAll: the properties are stored, the BSS keeps its network.
bss_property(w, p, name, signal) ==
    [w EXCEPT !.bss[p].name = name, !.bss[p].signal = signal]
-------------------------------------------------------------------------------
Init == s = [bss |-> <<>>, nets |-> <<>>, current |-> NULL, network |-> NULL,
             state |-> "inactive", shown |-> <<>>, untold |-> {}]

\* Signal BSSAdded, which carries the properties.
BssAdded == \E p \in Paths \ Known, g \in Ssids \X Securities, d \in Signals, there \in BOOLEAN :
    s' = add_or_replace_bss_to_network(
             s, p, [group |-> g, name |-> g[1], signal |-> d, raw |-> FALSE], there)

BssRemoved == \E p \in Known : s' = interface_bss_removed(s, p)

\* PropertiesChanged of a BSS.
BssChanged == \E p \in Known, sec \in Securities, d \in Signals, there \in BOOLEAN :
    s' = signal_bss_changed(s, p, sec, d, there)

\* The reply to GetAll of a BSS announced without properties.
BssProperties == \E p \in Known, name \in Ssids, d \in Signals :
    /\ s.bss[p].raw
    /\ s' = bss_property(s, p, name, d)

CurrentBss == \E p \in Paths, there \in BOOLEAN : s' = interface_current_bss(s, p, there)

NoCurrentBss == s' = [s EXCEPT !.current = NULL]

StateChanged == \E st \in States :
    s' = [s EXCEPT !.state = st, !.network = IF st = "inactive" THEN NULL ELSE @]

Next == BssAdded \/ BssRemoved \/ BssChanged \/ BssProperties \/ CurrentBss
        \/ NoCurrentBss \/ StateChanged

Spec == Init /\ [][Next]_s
-------------------------------------------------------------------------------
\* The networks whose access points were all announced with their properties.
Plain == {g \in DOMAIN s.nets : \A p \in In(s, g) : ~s.bss[p].raw}

\* Every network has access points.  Of those whose access points came with their
\* properties: the best is one of them and the network's signal is that one's; a network
\* that never was taken for the current one is as strong as its strongest access point,
\* and is without a best one only when none of them is above -90 dBm.  The strength
\* shown is that of the network's signal, unless the signal changed because an access
\* point left.  update_network_signal, signal_bss_changed, interface_bss_removed and
\* interface_current_bss each keep a part of this.
StrongestBss ==
    /\ {s.bss[p].group : p \in Known} = DOMAIN s.nets /\ DOMAIN s.shown = DOMAIN s.nets
    /\ \A g \in DOMAIN s.nets \ s.untold : s.shown[g] = calculate_strength(s.nets[g].signal)
    /\ \A g \in Plain :
        LET net == s.nets[g]
            top == Max({s.bss[p].signal : p \in In(s, g)})
        IN /\ net.best # NONE => net.best \in In(s, g) /\ net.signal = s.bss[net.best].signal
           /\ net.best = NONE => net.signal = BSS_UNKNOWN_STRENGTH
           /\ ~net.was => net.signal = top \/ (net.best = NONE /\ top <= BSS_UNKNOWN_STRENGTH)
================================================================================

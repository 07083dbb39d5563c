----------------------------- MODULE MCRadios -----------------------------
(* The plugins that follow a radio daemon, checked in one run: wpa_supplicant *)
(* (WifiBss, WifiScan, WifiP2p), iwd (Iwd, in three parts), oFono, dundee      *)
(* and bluez.  They share no state in the program, so a behaviour is one of a *)
(* single plugin, chosen in Init: part names it and s is its state.           *)
EXTENDS Integers

VARIABLES part, s

vars == <<part, s>>

DBm == {-95, -60, -40}
Scanning(bg) == {[bg |-> bg, ssids |-> TRUE, rounds |-> IF bg THEN 0 ELSE 1]}

Bss == INSTANCE WifiBss WITH Paths <- {"p1", "p2"}, Ssids <- {"home"}, Securities <- {"none", "psk"}, Signals <- DBm
Scan == INSTANCE WifiScan WITH Groups <- {"g"}, Settings <- Scanning(FALSE), MaxTimers <- 2, MaxCalls <- 1
Back == INSTANCE WifiScan WITH Groups <- {"g"}, Settings <- Scanning(TRUE), MaxTimers <- 1, MaxCalls <- 1
P2p == INSTANCE WifiP2p WITH Peers <- {"p", "q"}, PinPeers <- {"q"}, Requesters <- {"q"}, Groupers <- {"p"}, MaxCalls <- 2
OF == INSTANCE Ofono WITH Calm <- TRUE, MaxChanges <- 4, MaxQueue <- 3
IW == INSTANCE Iwd WITH Networks <- {"a", "b"}, Strangers <- {"b"}, MaxQueue <- 3
IA == INSTANCE Iwd WITH Networks <- {}, Strangers <- {}, MaxQueue <- 6
BZ == INSTANCE Bluez WITH Devices <- {"d"}, Roles <- {"nap", "gn"}, MaxQueue <- 3, Calm <- TRUE

Init == \/ part = "bss" /\ Bss!Init
        \/ part = "scan" /\ Scan!Init
        \/ part = "background" /\ Back!Init
        \/ part = "p2p" /\ P2p!Init
        \/ part = "ofono" /\ OF!Init
        \/ part = "dundee" /\ OF!DundeeInit
        \/ part = "iwd" /\ IW!Init
        \/ part = "known" /\ IA!KnownInit
        \/ part = "ap" /\ IA!ApInit
        \/ part = "bluez" /\ BZ!Init

In(p) == part = p /\ UNCHANGED part

Next == \/ In("bss") /\ Bss!Next
        \/ In("scan") /\ Scan!Next
        \/ In("background") /\ Back!Next
        \/ In("p2p") /\ P2p!Next
        \/ In("ofono") /\ OF!Next
        \/ In("dundee") /\ OF!DundeeNext
        \/ In("iwd") /\ IW!Next
        \/ In("known") /\ IA!KnownNext
        \/ In("ap") /\ IA!ApNext
        \/ In("bluez") /\ BZ!Next

Spec == Init /\ [][Next]_vars

(* wifi.c, gsupplicant/supplicant.c: a network is shown exactly while it has  *)
(* an access point in sight; its best_bss is one of them and, unless it was   *)
(* ever the one associated with, the strongest; its strength as shown is that *)
(* of the signal kept for it, unless that last changed because an access      *)
(* point left the network, which nobody is told.                              *)
StrongestBss == part = "bss" => Bss!StrongestBss

(* wifi.c, gsupplicant/supplicant.c: a device that is scanning and a request  *)
(* for a hidden network always have a scan under way whose end is told to     *)
(* them; without background scanning one timer at most drives the next scan.  *)
(* A connection attempt with a peer that is marked as running, for which each *)
(* other attempt is refused, has a peer that is known and a timer or a call   *)
(* that ends it.                                                              *)
WifiWorkEnds == /\ part = "scan" => Scan!ScanGoesOn /\ Scan!OneTimer
                /\ part = "background" => Back!ScanGoesOn
                /\ part = "p2p" => P2p!AttemptEnds

(* ofono.c, dundee.c, iwd.c, bluetooth.c: when no message is under way, what  *)
(* the plugin shows is what the daemon it follows says, but for the cases     *)
(* that the parts name, and no reply of dundee reaches a device that was      *)
(* freed.                                                                     *)
MirrorsAgree == /\ part = "ofono" => OF!MirrorsContexts
                /\ part = "dundee" => OF!RepliesToLive
                /\ part = "iwd" => IW!MirrorsIwd
                /\ part = "known" => IA!AutoConnectAgrees
                /\ part = "ap" => IA!BridgedIsStarted
                /\ part = "bluez" => BZ!MirrorsBluez
=============================================================================

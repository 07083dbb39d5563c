-------------------------------- MODULE WifiP2p --------------------------------
(***************************************************************************)
(* Wi-Fi Direct peers: src/peer.c (the peer's state, its callers and its   *)
(* DHCP), plugins/wifi.c (one connection attempt at a time, with a timer)  *)
(* and the peer and group signals of gsupplicant/supplicant.c.             *)
(*                                                                         *)
(* A connection attempt belongs to the interface (pending_peer); the peer  *)
(* that is attempted has a state of its own, a caller of Connect and a     *)
(* question to the agent.  Each can end before the other.                  *)
(***************************************************************************)
EXTENDS Integers, FiniteSets, Functions, TLC

CONSTANTS Peers,       \* peers that may be found
          PinPeers,    \* those that connect by PIN, which the agent has to give
          Requesters,  \* those that ask for a connection themselves
          Groupers,    \* those a group is formed with
          MaxCalls     \* bound on outstanding P2P Connect calls and timers without a peer

VARIABLE s

NONE == "none"
Found == [state |-> "idle", pending |-> FALSE, asked |-> {}, master |-> FALSE, dhcp |-> NONE,
          starting |-> FALSE, enabled |-> FALSE, iface |-> FALSE, grouped |-> FALSE,
          requested |-> FALSE]

is_connecting(q) == q.state \in {"association", "configuration"} \/ q.pending
is_connected(q) == q.state = "ready"
Known(w) == DOMAIN w.peers
-------------------------------------------------------------------------------
(* plugins/wifi.c *)

\* Faulty variant: the attempt stays marked as running.
peer_cancel_timeout_Connecting(w) == [w EXCEPT !.timer = FALSE, !.pending_peer = NONE]

peer_cancel_timeout(w) ==
    [w EXCEPT !.timer = FALSE, !.connecting = FALSE, !.pending_peer = NONE]

\* What the driver answers to a request to connect; 0 stands for -EINPROGRESS.
refused(w, p, method) ==
    IF w.connecting THEN "EBUSY"
    ELSE IF method = "unknown" /\ p \in PinPeers THEN "ENOKEY"
    ELSE IF (method = "pin") # (p \in PinPeers) /\ method # "unknown" THEN "EINVAL"
    ELSE "0"

driver_connect(w, p) ==
    [w EXCEPT !.pending_peer = p, !.connecting = TRUE, !.calls = @ + 1]

\* It ends whatever attempt is under way, also one to reach another peer.
driver_disconnect(w, p) == peer_cancel_timeout([w EXCEPT !.peers[p].iface = FALSE])
-------------------------------------------------------------------------------
(* src/peer.c *)

reply_pending(w, p) == [w EXCEPT !.peers[p].pending = FALSE]

set_disconnect(w, p) ==
    IF w.peers[p].state = "disconnect" THEN w
    ELSE [w EXCEPT !.peers[p].dhcp = NONE, !.peers[p].master = FALSE,
                   !.peers[p].state = "disconnect"]

\* peer_disconnect behind the cancelling of the agent's question.
down(w, p) ==
    LET q == driver_disconnect(set_disconnect(reply_pending(w, p), p), p)
    IN [q EXCEPT !.peers[p].state = "idle"]

\* The agent's question is cancelled: its callback runs at once, with an error.
agent_cancelled(w, p) ==
    LET q == reply_pending([w EXCEPT !.peers[p].asked = {}], p)
        was == w.peers[p].asked
    IN IF was = {} THEN w
       ELSE IF "error" \in was \/ is_connecting(q.peers[p]) \/ is_connected(q.peers[p])
       THEN down(q, p) ELSE [q EXCEPT !.peers[p].state = "idle"]

peer_disconnect(w, p) == down(agent_cancelled(w, p), p)

set_idle(w, p) ==
    IF w.peers[p].state = "idle" THEN w
    ELSE IF is_connecting(w.peers[p]) \/ is_connected(w.peers[p]) THEN peer_disconnect(w, p)
    ELSE [w EXCEPT !.peers[p].state = "idle"]

\* The error is reported to the agent, if there is one.
set_failure(w, p, agent) ==
    IF w.peers[p].state = "failure" THEN w
    ELSE IF agent THEN [w EXCEPT !.peers[p].asked = @ \cup {"error"}]
    ELSE [peer_disconnect(reply_pending(w, p), p) EXCEPT !.peers[p].state = "failure",
                                                         !.peers[p].enabled = FALSE]

set_ready(w, p) == [reply_pending(w, p) EXCEPT !.peers[p].state = "ready"]

\* "started" is the result of starting the DHCP server or client; the server
\* reports its start from an idle callback.
set_configuration(w, p, started, agent) ==
    IF w.peers[p].state = "configuration" THEN w
    ELSE IF ~started THEN set_failure(w, p, agent)
    ELSE [w EXCEPT !.peers[p].state = "configuration",
                   !.peers[p].dhcp = IF w.peers[p].master THEN "server" ELSE "client",
                   !.peers[p].starting = @ \/ w.peers[p].master,
                   !.peers[p].enabled = @ \/ ~w.peers[p].master]

\* What Connect, or the retry of a failed one, comes to.
peer_connect(w, p, agent) ==
    LET err == IF is_connected(w.peers[p]) THEN "EISCONN" ELSE refused(w, p, "unknown")
    IN IF err = "0" THEN driver_connect(w, p)
       ELSE IF err = "ENOKEY" /\ agent THEN [w EXCEPT !.peers[p].asked = @ \cup {"auth"}]
       ELSE reply_pending(w, p)

connected_or_asked(w, p, agent) ==
    LET err == IF is_connected(w.peers[p]) THEN "EISCONN" ELSE refused(w, p, "unknown")
    IN err = "0" \/ (err = "ENOKEY" /\ agent)

request_authorization_cb(w, p, method) ==
    LET q == [w EXCEPT !.peers[p].asked = @ \ {"auth"}]
    IN IF method # NONE /\ refused(q, p, method) = "0" THEN driver_connect(q, p)
       ELSE set_idle(reply_pending(q, p), p)

report_error_cb(w, p, retry, agent) ==
    LET q == [w EXCEPT !.peers[p].asked = @ \ {"error"}]
    IN IF retry /\ connected_or_asked(q, p, agent) THEN peer_connect(q, p, agent)
       ELSE [peer_disconnect(reply_pending(q, p), p) EXCEPT !.peers[p].enabled = FALSE]

\* Other peers that are connecting or connected are disconnected first, which is
\* under way when the first of them has been told: the caller has to try again.
connect_peer(w, p, agent) ==
    LET others == {r \in Known(w) \ {p} : is_connecting(w.peers[r]) \/ is_connected(w.peers[r])}
    IN IF w.peers[p].pending THEN w
       ELSE IF others # {} THEN peer_disconnect(w, CHOOSE r \in others : TRUE)
       ELSE peer_connect([w EXCEPT !.peers[p].pending = TRUE], p, agent)
-------------------------------------------------------------------------------
(* What wpa_supplicant reports *)

peer_connect_timeout(w, agent) ==
    LET p == w.pending_peer
    IN peer_cancel_timeout(
           IF ~w.connecting THEN w
           ELSE IF w.peers[p].requested THEN set_idle(w, p) ELSE set_failure(w, p, agent))

\* Faulty variant: the attempt is left without a timer.
peer_connect_callback_NoTimer(w, failed, agent) ==
    LET p == w.pending_peer
    IN IF p = NONE THEN w
       ELSE IF failed THEN peer_connect_timeout(w, agent)
       ELSE [w EXCEPT !.peers[p].state = "association"]

\* The timer replaces one that is armed already, which from then on runs alone.
peer_connect_callback(w, failed, agent) ==
    LET p == w.pending_peer
    IN IF p = NONE THEN w
       ELSE IF failed THEN peer_connect_timeout(w, agent)
       ELSE [w EXCEPT !.peers[p].state = "association", !.timer = TRUE,
                      !.orphans = IF w.timer THEN @ + 1 ELSE @]

forget(w, p) == [w EXCEPT !.peers = Restrict(@, DOMAIN @ \ {p})]

\* The peer is freed, its caller and its question with it.
peer_lost(w, p) ==
    forget(IF w.connecting /\ w.pending_peer = p THEN peer_cancel_timeout(w) ELSE w, p)

\* The groups of the peer changed; in a group is only what was being attempted.
group_changed(v, p, joined, client, started, agent) ==
    LET w == [v EXCEPT !.peers[p].grouped = joined] IN
    IF ~joined THEN set_idle(w, p)
    ELSE IF ~w.connecting \/ w.pending_peer # p THEN w
    ELSE LET q == peer_cancel_timeout(w)
         IN set_configuration([q EXCEPT !.peers[p].master =
                                   IF is_connecting(q.peers[p]) THEN ~client ELSE @],
                              p, started, agent)

group_failed(w, p, agent) ==
    LET q == IF w.peers[p].requested THEN set_idle(w, p)
             ELSE IF w.connecting /\ w.pending_peer = p
             THEN set_failure(peer_cancel_timeout(w), p, agent) ELSE w
    IN [q EXCEPT !.peers[p].requested = FALSE]
-------------------------------------------------------------------------------
Init == s = [peers |-> <<>>, pending_peer |-> NONE, connecting |-> FALSE, timer |-> FALSE,
             orphans |-> 0, calls |-> 0]

Becomes(st) == st.calls + st.orphans <= MaxCalls /\ s' = st

PeerFound == \E p \in Peers \ Known(s) : Becomes([s EXCEPT !.peers = (p :> Found) @@ @])

\* Not while the idle callback of its DHCP server still refers to it.
PeerLost == \E p \in Known(s) : ~s.peers[p].starting /\ Becomes(peer_lost(s, p))

\* Connect and Disconnect of the peer API.
Connect == \E p \in Known(s), agent \in BOOLEAN : Becomes(connect_peer(s, p, agent))

Disconnect == \E p \in Known(s) : Becomes(peer_disconnect(s, p))

\* Another device asks to connect: the agent is asked.
PeerRequest == \E p \in Known(s) \cap Requesters, agent \in BOOLEAN :
    Becomes([s EXCEPT !.peers[p].requested = TRUE,
                      !.peers[p].asked = IF agent THEN @ \cup {"auth"} ELSE @])

\* The agent's answers.
Authorized == \E p \in Known(s), method \in {NONE, "unknown", "pbc", "pin"} :
    /\ "auth" \in s.peers[p].asked
    /\ Becomes(request_authorization_cb(s, p, method))

ErrorReported == \E p \in Known(s), retry, agent \in BOOLEAN :
    /\ "error" \in s.peers[p].asked
    /\ Becomes(report_error_cb(s, p, retry, agent))

ConnectReply == s.calls > 0 /\ \E failed, agent \in BOOLEAN :
    Becomes(peer_connect_callback([s EXCEPT !.calls = @ - 1], failed, agent))

ConnectTimer == s.timer /\ \E agent \in BOOLEAN : Becomes(peer_connect_timeout(s, agent))

OrphanTimer == s.orphans > 0 /\ \E agent \in BOOLEAN :
    Becomes(peer_connect_timeout([s EXCEPT !.orphans = @ - 1], agent))

GroupStarted == \E p \in Known(s) \cap Groupers : Becomes([s EXCEPT !.peers[p].iface = TRUE])

\* wpa_supplicant starts the group before it lists it with the peer.
GroupChanged == \E p \in Known(s), joined, client, started, agent \in BOOLEAN :
    /\ joined => s.peers[p].iface
    /\ s.peers[p].grouped # joined
    /\ Becomes([group_changed(s, p, joined, client, started, agent)
                   EXCEPT !.peers[p].requested = IF joined THEN @ ELSE FALSE])

GroupFailed == \E p \in Known(s), agent \in BOOLEAN : Becomes(group_failed(s, p, agent))

GroupFinished == Becomes([s EXCEPT !.peers = [p \in DOMAIN @ |-> [@[p] EXCEPT !.iface = FALSE]]])

GroupDisconnected == \E p \in Known(s) :
    Becomes([set_idle(s, p) EXCEPT !.peers[p].requested = FALSE])

\* The idle callback dhcp_server_started, which nothing takes back.
ServerStarted == \E p \in Known(s) :
    /\ s.peers[p].starting
    /\ Becomes([set_ready(s, p) EXCEPT !.peers[p].starting = FALSE])

AddressBound == \E p \in Known(s) :
    /\ s.peers[p].dhcp = "client"
    /\ Becomes(set_ready(s, p))

DhcpFailed == \E p \in Known(s), agent \in BOOLEAN :
    /\ s.peers[p].dhcp = "client"
    /\ Becomes(set_failure(s, p, agent))

LowerDown == \E p \in Known(s) :
    /\ s.peers[p].enabled
    /\ Becomes([set_disconnect(s, p) EXCEPT !.peers[p].enabled = FALSE])

Next == PeerFound \/ PeerLost \/ Connect \/ Disconnect \/ PeerRequest \/ Authorized
        \/ ErrorReported \/ ConnectReply \/ ConnectTimer \/ OrphanTimer \/ GroupStarted
        \/ GroupChanged \/ GroupFailed \/ GroupFinished \/ GroupDisconnected \/ ServerStarted
        \/ AddressBound \/ DhcpFailed \/ LowerDown

Spec == Init /\ [][Next]_s
-------------------------------------------------------------------------------
\* An attempt to connect has a peer and something that ends it, the answer to the
\* Connect call or the timer: peer_connect refuses every other attempt until then.
AttemptEnds ==
    /\ s.connecting <=> s.pending_peer # NONE
    /\ s.connecting => s.pending_peer \in Known(s) /\ (s.timer \/ s.calls > 0)

================================================================================

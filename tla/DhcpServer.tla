------------------------------ MODULE DhcpServer ------------------------------
(***************************************************************************)
(* gdhcp/server.c: the DHCP server of tethering and of Wi-Fi Direct        *)
(* groups, with clients that follow the protocol over queues that may lose *)
(* messages.  Every client is known by its hardware address.               *)
(***************************************************************************)
EXTENDS Integers, Sequences, SequencesExt

CONSTANTS Clients,
          StartIp, EndIp,   \* the range of addresses
          LeaseTime,        \* lease_seconds
          OfferTime,        \* OFFER_TIME, which the code takes as a point in time
          Now, MaxTime,     \* the time at the start, and the bound on it
          Reorder,          \* whether the messages of one client may overtake each other
          MaxExchanges,     \* bound on the exchanges a client begins
          MaxQueue          \* bound on the messages of a client under way

VARIABLE s

NONE == 0
-------------------------------------------------------------------------------
(* The lease table: a list by falling expiry, and a hash by address.       *)
find_lease_by_mac(w, c) == SelectSeq(w.leases, LAMBDA l : l.mac = c)
find_lease_by_nip(w, ip) == SelectSeq(w.leases, LAMBDA l : l.nip = ip)
is_expired_lease(w, l) == l.expire < w.now

insert_sorted(list, l) ==
    LET k == Len(SelectSeq(list, LAMBDA x : x.expire > l.expire))
    IN SubSeq(list, 1, k) \o <<l>> \o SubSeq(list, k + 1, Len(list))

\* get_lease takes the entry of the address or of the client out of the table, and frees the
\* client's other one: an address and a client have one entry each.
add_lease(w, expire, c, ip) ==
    IF ip < StartIp \/ ip > EndIp THEN w
    ELSE [w EXCEPT !.leases = insert_sorted(SelectSeq(@, LAMBDA l : l.nip # ip /\ l.mac # c),
            [nip |-> ip, mac |-> c, expire |-> IF expire = 0 THEN w.now + LeaseTime ELSE expire])]

remove_lease(w, c) == [w EXCEPT !.leases = SelectSeq(@, LAMBDA l : l.mac # c)]

\* Faulty variant: the oldest lease is given away, expired or not.
find_free_or_expired_nip_Oldest(w) ==
    LET free == {ip \in StartIp..EndIp : find_lease_by_nip(w, ip) = <<>> /\ ip % 256 \notin {0, 255}}
    IN IF free # {} THEN CHOOSE ip \in free : \A x \in free : ip <= x
       ELSE IF w.leases = <<>> THEN NONE ELSE Last(w.leases).nip

\* The first free address, or that of the lease that expires first, if it has expired.
find_free_or_expired_nip(w) ==
    LET free == {ip \in StartIp..EndIp : find_lease_by_nip(w, ip) = <<>> /\ ip % 256 \notin {0, 255}}
    IN IF free # {} THEN CHOOSE ip \in free : \A x \in free : ip <= x
       ELSE IF w.leases = <<>> \/ ~is_expired_lease(w, Last(w.leases)) THEN NONE
       ELSE Last(w.leases).nip

check_requested_nip(w, ip) ==
    LET l == find_lease_by_nip(w, ip)
    IN ip \in StartIp..EndIp /\ (l = <<>> \/ is_expired_lease(w, l[1]))
-------------------------------------------------------------------------------
(* The messages of the clients.                                            *)
reply(w, c, t, ip) == [w EXCEPT !.toClient[c] = Append(@, [t |-> t, ip |-> ip, xid |-> w.xid])]

\* An offer enters the table as a lease that ends at OFFER_TIME, long past: it reserves nothing.
send_offer(w, c, requested) ==
    LET own == find_lease_by_mac(w, c)
        ip == IF own # <<>> THEN own[1].nip
              ELSE IF check_requested_nip(w, requested) THEN requested
              ELSE find_free_or_expired_nip(w)
    IN IF ip = NONE THEN w ELSE reply(add_lease(w, OfferTime, c, ip), c, "offer", ip)

send_ACK(w, c, ip) == add_lease(reply(w, c, "ack", ip), 0, c, ip)
send_NAK(w, c) == reply(w, c, "nak", NONE)

\* m.ours: the message names this server.  A release compares addresses in different byte
\* orders, and so changes nothing.
listener_event(w, c, m) ==
    LET own == find_lease_by_mac(w, c)
        mine == own # <<>> /\ m.ip = own[1].nip
    IN CASE m.t = "discover" -> send_offer(w, c, m.ip)
         [] m.t = "request" /\ mine -> send_ACK(w, c, m.ip)
         [] m.t = "request" /\ ~mine /\ (m.ours \/ own = <<>>) -> send_NAK(w, c)
         [] m.t = "request" /\ ~mine /\ ~m.ours /\ own # <<>> -> w
         [] m.t = "decline" -> IF mine THEN remove_lease(w, c) ELSE w
         [] m.t = "release" -> w
         [] m.t = "inform" -> reply(w, c, "info", NONE)
-------------------------------------------------------------------------------
Idle == [st |-> "idle", ip |-> NONE, sent |-> 0, until |-> 0]

\* xid: the exchange of the message being answered, which its answers carry.
Init == s = [leases |-> <<>>, now |-> Now, xid |-> 0, client |-> [c \in Clients |-> Idle],
             exchange |-> [c \in Clients |-> 0],
             toServer |-> [c \in Clients |-> <<>>], toClient |-> [c \in Clients |-> <<>>]]

Becomes(st) ==
    /\ \A c \in Clients : Len(st.toServer[c]) + Len(st.toClient[c]) <= MaxQueue
    /\ \A c \in Clients : st.exchange[c] <= MaxExchanges
    /\ s' = [st EXCEPT !.xid = 0]

send(w, c, t, ip, ours) ==
    [w EXCEPT !.toServer[c] =
        Append(@, [t |-> t, ip |-> ip, ours |-> ours, xid |-> w.exchange[c]])]
begin(w, c, client) == [w EXCEPT !.client[c] = client, !.exchange[c] = @ + 1]

\* Clients count a lease from the request it answers, and begin a new exchange when no answer
\* comes.
Discover(c) == \E ip \in {NONE} \cup (StartIp..EndIp) :
    LET selecting == [Idle EXCEPT !.st = "selecting"]
    IN \/ /\ s.client[c].st \in {"idle", "requesting"}
          /\ Becomes(send(begin(s, c, selecting), c, "discover", ip, FALSE))
       \/ /\ s.client[c].st = "selecting"
          /\ Becomes(send(s, c, "discover", ip, FALSE))
Reboot(c) == \E ip \in StartIp..EndIp :
    /\ s.client[c].st = "idle"
    /\ Becomes(send(begin(s, c, [Idle EXCEPT !.st = "requesting", !.ip = ip, !.sent = s.now]),
                    c, "request", ip, FALSE))
Renew(c) ==
    /\ s.client[c].st = "bound"
    /\ Becomes(send(begin(s, c, [s.client[c] EXCEPT !.sent = s.now]), c, "request", s.client[c].ip, FALSE))
Give(c) == \E t \in {"release", "decline"} :
    /\ s.client[c].st = "bound"
    /\ Becomes(send([s EXCEPT !.client[c] = Idle], c, t, s.client[c].ip, TRUE))
Inform(c) == s.client[c].st = "bound" /\ Becomes(send(s, c, "inform", NONE, FALSE))

receive(w, c, m) ==
    LET client == w.client[c]
        until == client.sent + LeaseTime
    IN CASE m.t = "offer" /\ client.st = "selecting" ->
              send([w EXCEPT !.client[c] = [Idle EXCEPT !.st = "requesting", !.ip = m.ip, !.sent = w.now]],
                   c, "request", m.ip, TRUE)
         [] m.t = "ack" /\ client.sent > 0 /\ m.ip = client.ip /\ w.now < until ->
              [w EXCEPT !.client[c] = [st |-> "bound", ip |-> m.ip, sent |-> 0, until |-> until]]
         [] m.t = "nak" /\ client.sent > 0 -> [w EXCEPT !.client[c] = Idle]
         [] OTHER -> w

\* A message arrives or is lost.
Positions(q) == IF q = <<>> THEN {} ELSE IF Reorder THEN 1..Len(q) ELSE {1}
ServerHears(c) == \E i \in Positions(s.toServer[c]) :
    Becomes(listener_event([s EXCEPT !.toServer[c] = RemoveAt(@, i), !.xid = s.toServer[c][i].xid],
                           c, s.toServer[c][i]))
ClientHears(c) == \E i \in Positions(s.toClient[c]) :
    LET q == [s EXCEPT !.toClient[c] = RemoveAt(@, i)]
    IN Becomes(IF s.toClient[c][i].xid = s.exchange[c] THEN receive(q, c, s.toClient[c][i]) ELSE q)
ToServerLost(c) == s.toServer[c] # <<>> /\ Becomes([s EXCEPT !.toServer[c] = Tail(@)])
ToClientLost(c) == s.toClient[c] # <<>> /\ Becomes([s EXCEPT !.toClient[c] = Tail(@)])

\* Time passes; a client stops using an address at the end of its lease.
Tick ==
    /\ s.now < MaxTime
    /\ Becomes([s EXCEPT !.now = @ + 1,
          !.client = [c \in Clients |-> IF s.client[c].st = "bound" /\ s.client[c].until <= s.now + 1
                                        THEN Idle ELSE s.client[c]]])

Next == Tick \/ \E c \in Clients :
    \/ Discover(c) \/ Reboot(c) \/ Renew(c) \/ Give(c) \/ Inform(c)
    \/ ServerHears(c) \/ ClientHears(c) \/ ToServerLost(c) \/ ToClientLost(c)

Spec == Init /\ [][Next]_s
-------------------------------------------------------------------------------
\* No two clients use one address, and the table has one entry for each address and each
\* client, though offers reserve nothing, answers are lost and leases are taken over when they
\* expire (gdhcp/server.c).
OneHolder ==
    /\ \A c, d \in Clients : c # d /\ s.client[c].st = "bound" /\ s.client[d].st = "bound"
                             => s.client[c].ip # s.client[d].ip
    /\ \A i, j \in 1..Len(s.leases) :
           i # j => s.leases[i].nip # s.leases[j].nip /\ s.leases[i].mac # s.leases[j].mac
===============================================================================

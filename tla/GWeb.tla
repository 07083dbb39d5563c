---------------------------- MODULE GWeb ----------------------------
(* Host name lookups of gweb/gresolv.c.  A lookup asks every name server for  *)
(* an A and, unless the family is restricted, an AAAA record; a query ends    *)
(* with the first success, with the answer of the last server or after five   *)
(* seconds, and the lookup when both queries have ended.                      *)
(*                                                                            *)
(* The module has no state of its own: its operators take a resolver and      *)
(* return the resolver after the call.  A query is named by its lookup and    *)
(* its record type; the 16 bit message ids that res_mkquery draws are taken   *)
(* to be distinct.                                                            *)
EXTENDS Integers, FiniteSets, TLC, FiniteSetsExt

Types == {"A", "AAAA"}

\* RESULT_STATUS_* of an answer: success, or the kinds of failure as one.
Statuses == {"success", "failure"}

\* g_resolv_new(): no lookup yet; `servers' is the length of nameserver_list.
g_resolv_new(n) ==
  [servers |-> n, family |-> "unspec", next |-> 1, lookups |-> << >>,
   queries |-> {}, timers |-> {}]

NewLookup == [query |-> [t \in Types |-> 0], status |-> [t \in Types |-> "none"], results |-> {}]

Drop(f, id) == [x \in DOMAIN f \ {id} |-> f[x]]

destroy_query(r, q) ==
  [r EXCEPT !.queries = @ \ {q}, !.timers = @ \ {q}]

\* Faulty variant: only the A query goes with its lookup.
destroy_lookup_KeepAaaa(r, id) ==
  [r EXCEPT !.queries = @ \ {<<id, "A">>}, !.timers = @ \ {<<id, "A">>},
            !.lookups = Drop(@, id)]

destroy_lookup(r, id) ==
  [r EXCEPT !.queries = {q \in @ : q[1] /= id}, !.timers = {q \in @ : q[1] /= id},
            !.lookups = Drop(@, id)]

\* send_query() counts every name server, also those its datagram cannot reach.
send_query(r) == r.servers

add_query(r, id, type) ==
  [r EXCEPT !.queries = @ \cup {<<id, type>>}, !.timers = @ \cup {<<id, type>>},
            !.lookups[id].query[type] = send_query(r)]

Asked(family) ==
  CASE family = "inet"   -> {"A"}
    [] family = "inet6"  -> {"AAAA"}
    [] family = "unspec" -> Types

AddQueries(r, id, types) ==
  IF types = Types THEN add_query(add_query(r, id, "A"), id, "AAAA")
  ELSE add_query(r, id, CHOOSE t \in types : TRUE)

\* What g_resolv_lookup_hostname() returns: the lookup's id, or -EIO when no
\* name server could be added.
EIO == 5
lookup_id(r) == IF r.servers = 0 THEN -EIO ELSE r.next

g_resolv_lookup_hostname(r) ==
  IF r.servers = 0 THEN [r EXCEPT !.next = @ + 1]
  ELSE AddQueries([r EXCEPT !.next = @ + 1, !.lookups = (r.next :> NewLookup) @@ @],
                  r.next, Asked(r.family))

g_resolv_cancel_lookup(r, id) ==
  IF id \in DOMAIN r.lookups THEN destroy_lookup(r, id) ELSE r

\* Both queries of the lookup have ended.
Finished(r, id) == \A t \in Types : r.lookups[id].query[t] = 0

\* Faulty variant: an answer ends its query but leaves the query's timer.
parse_response_KeepTimer(r, q, status, found) ==
  LET left == r.lookups[q[1]].query[q[2]] - 1
      ends == status = "success" \/ left = 0
  IN [r EXCEPT !.lookups[q[1]].status[q[2]] = status,
               !.lookups[q[1]].results = IF found THEN @ \cup {q[2]} ELSE @,
               !.lookups[q[1]].query[q[2]] = IF ends THEN 0 ELSE left,
               !.queries = IF ends THEN @ \ {q} ELSE @]

\* The part of parse_response() before the lookup may be returned.  `found' says
\* whether the answer held an address of the record's type.
parse_response(r, q, status, found) ==
  LET left == r.lookups[q[1]].query[q[2]] - 1
      ends == status = "success" \/ left = 0
      noted == [r EXCEPT !.lookups[q[1]].status[q[2]] = status,
                         !.lookups[q[1]].results = IF found THEN @ \cup {q[2]} ELSE @,
                         !.lookups[q[1]].query[q[2]] = IF ends THEN 0 ELSE left]
  IN IF ends THEN destroy_query(noted, q) ELSE noted

query_timeout(r, q) ==
  destroy_query([r EXCEPT !.lookups[q[1]].status[q[2]] = "failure",
                          !.lookups[q[1]].query[q[2]] = 0], q)

-----------------------------------------------------------------------------
(* Requests of gweb/gweb.c over the lookups of gweb/gresolv.c: the host is    *)
(* looked up unless it is an address, the transport is connected under an     *)
(* optional connect timeout, the request is written and the answer read.      *)
(* The client hears of a request through its result function: data, and in    *)
(* the end one call with no data (an error, or the end of the answer).        *)
(*                                                                            *)
(* What the answer holds is the subject of WebStream; here a reading either   *)
(* continues, ends the answer or fails.  A client may drop the web object at  *)
(* any time, also inside the last call, as the portal check does.  When the   *)
(* last call is for chunks that do not decode, gweb.c then writes to the      *)
(* session that the client freed: `freed_write' marks that, and no more is    *)
(* said of the behaviour.                                                     *)

CONSTANTS
  Requests,    \* the requests a client makes
  Servers,     \* the numbers of name servers to start with
  ConnectTimeouts, \* whether the client set a connect timeout
  Families     \* the address families a client restricts lookups to

VARIABLE s

vars == <<s>>

\* A request that was not made, or was refused or freed.
NoSession ==
  [listed |-> FALSE, resolv_action |-> 0, address_action |-> FALSE, connect_timeout |-> FALSE,
   transport_watch |-> FALSE, send_watch |-> FALSE, finals |-> 0]

Init ==
  \E n \in Servers, c \in ConnectTimeouts, f \in Families :
    s = [web |-> TRUE, timed |-> c, res |-> [g_resolv_new(n) EXCEPT !.family = f],
         ses |-> [q \in Requests |-> NoSession], made |-> {}, bad |-> FALSE,
         freed_write |-> FALSE]

-----------------------------------------------------------------------------
(* Closing and freeing.                                                       *)

close_session_transport(x) == [x EXCEPT !.transport_watch = FALSE, !.send_watch = FALSE]

cancel_connect_timeout(x) == [x EXCEPT !.connect_timeout = FALSE]

\* Faulty variant: the idle callback and the lookup of a freed session remain.
free_session_Pending(t, q) ==
  [t EXCEPT !.ses[q] = NoSession]

\* free_session(): cancels whatever is still under way for the session.
free_session(t, q) ==
  [t EXCEPT !.res = IF t.ses[q].resolv_action > 0
                      THEN g_resolv_cancel_lookup(@, t.ses[q].resolv_action) ELSE @,
            !.ses[q] = NoSession]

\* The last reference of a web object goes, and with it all its sessions and,
\* through them, the lookups of its resolver.
flush_sessions(t) == FoldSet(LAMBDA q, u : free_session(u, q), t, Requests)

g_web_unref(t) == [flush_sessions(t) EXCEPT !.web = FALSE]

\* The last call of the result function; `drops' says whether the client drops
\* its web object in that call.
call_result_func_failure(t, q, drops) ==
  LET called == [t EXCEPT !.ses[q].finals = @ + 1]
  IN IF drops THEN g_web_unref(called) ELSE called

-----------------------------------------------------------------------------
(* From the address to the transport.                                         *)

connect_session_transport(t, q) ==
  [t EXCEPT !.ses[q].transport_watch = TRUE, !.ses[q].send_watch = TRUE,
            !.ses[q].connect_timeout = t.timed]

handle_resolved_address(t, q, ok, drops) ==
  IF ok THEN connect_session_transport(t, q)
  ELSE call_result_func_failure(t, q, drops)

\* `ok' covers getaddrinfo(), the socket, its binding and the start of connect().
resolv_result(t, q, results, ok, drops) ==
  IF results = {} THEN call_result_func_failure(t, q, drops)
  ELSE handle_resolved_address(t, q, ok, drops)

\* The request that a lookup was made for.
Owner(t, id) == CHOOSE q \in Requests : t.ses[q].listed /\ t.ses[q].resolv_action = id

\* The lookup is removed before its result is given.
sort_and_return_results(t, id, ok, drops) ==
  resolv_result([t EXCEPT !.res = destroy_lookup(@, id)], Owner(t, id),
                t.res.lookups[id].results, ok, drops)

\* What follows a query's end in query_timeout() and parse_response().
Settle(t, id, ok, drops) ==
  IF Finished(t.res, id) THEN sort_and_return_results(t, id, ok, drops) ELSE t

-----------------------------------------------------------------------------
(* Actions.                                                                   *)

\* resolv_action is a guint: a negative return becomes a large positive number
\* and passes the test for failure.
AsUnsigned(n) == IF n < 0 THEN 2147483647 ELSE n

\* do_request() for a well-formed URL.
do_request(t, q, isAddress) ==
  IF isAddress
  THEN [t EXCEPT !.ses[q].listed = TRUE, !.ses[q].address_action = TRUE]
  ELSE [t EXCEPT !.ses[q].listed = TRUE,
                 !.ses[q].resolv_action = AsUnsigned(lookup_id(t.res)),
                 !.res = g_resolv_lookup_hostname(t.res)]

Request(q) ==
  /\ s.web /\ q \notin s.made
  /\ \E isAddress \in BOOLEAN :
       s' = [do_request(s, q, isAddress) EXCEPT !.made = @ \cup {q}]

\* The idle callback already_resolved().
AlreadyResolved(q) ==
  /\ s.ses[q].address_action
  /\ \E ok, drops \in BOOLEAN :
       s' = handle_resolved_address([s EXCEPT !.ses[q].address_action = FALSE], q, ok, drops)

\* A name server's answer; answers to queries that have ended find no query.
NameServerAnswers(query) ==
  /\ query \in s.res.queries
  /\ \E status \in Statuses, found, ok, drops \in BOOLEAN :
       s' = Settle([s EXCEPT !.res = parse_response(@, query, status, found /\ status = "success")],
                   query[1], ok, drops)

\* A timer whose query was freed would use freed memory.
timed_out(t, query, ok, drops) ==
  IF query \in t.res.queries
  THEN Settle([t EXCEPT !.res = query_timeout(@, query)], query[1], ok, drops)
  ELSE [t EXCEPT !.bad = TRUE, !.res.timers = @ \ {query}]

QueryTimeout(query) ==
  /\ query \in s.res.timers
  /\ \E ok, drops \in BOOLEAN : s' = timed_out(s, query, ok, drops)

\* Faulty variant: the transport's watches outlive the timeout.
connect_timeout_cb_Open(t, q, drops) ==
  call_result_func_failure([t EXCEPT !.ses[q].connect_timeout = FALSE], q, drops)

connect_timeout_cb(t, q, drops) ==
  call_result_func_failure(
    [t EXCEPT !.ses[q] = close_session_transport([@ EXCEPT !.connect_timeout = FALSE])], q, drops)

ConnectTimeout(q) ==
  /\ s.ses[q].connect_timeout
  /\ \E drops \in BOOLEAN : s' = connect_timeout_cb(s, q, drops)

\* Faulty variant: data does not end the wait for the connection.
received_data_Timed(t, q, outcome, drops) ==
  IF outcome = "more" THEN t
  ELSE call_result_func_failure([t EXCEPT !.ses[q].transport_watch = FALSE], q, drops)

\* received_data(): the answer goes on, or the connection failed or was closed
\* (received_data_finalize()), or the chunks do not decode (handle_body()).
received_data(t, q, outcome, drops) ==
  IF outcome = "more"
  THEN [t EXCEPT !.ses[q] = cancel_connect_timeout(@)]
  ELSE call_result_func_failure(
         [t EXCEPT !.ses[q] = [cancel_connect_timeout(@) EXCEPT !.transport_watch = FALSE],
                   !.freed_write = outcome = "undecodable" /\ drops], q, drops)

ReceivedData(q) ==
  /\ s.ses[q].transport_watch
  /\ \E outcome \in {"more", "end", "undecodable"}, drops \in BOOLEAN :
       s' = received_data(s, q, outcome, drops)

\* send_data() has written the whole request, or the connection hung up.
SendDone(q) ==
  /\ s.ses[q].send_watch
  /\ s' = [s EXCEPT !.ses[q].send_watch = FALSE]

\* The client drops its web object between two events.
Unref == s.web /\ s' = g_web_unref(s)

Next ==
  /\ ~s.freed_write
  /\ \/ \E q \in Requests :
          Request(q) \/ AlreadyResolved(q) \/ ConnectTimeout(q) \/ ReceivedData(q) \/ SendDone(q)
     \/ \E query \in s.res.queries : NameServerAnswers(query)
     \/ \E query \in s.res.timers : QueryTimeout(query)
     \/ Unref

Spec == Init /\ [][Next]_vars

-----------------------------------------------------------------------------
(* Properties.                                                                *)

\* Something is under way that will call the session's result function.
Pending(x) ==
  \/ x.address_action
  \/ x.transport_watch
  \/ x.resolv_action \in DOMAIN s.res.lookups

\* Every request that do_request() accepted gets exactly one last call of its
\* result function: until that call a lookup with a timed query, an idle callback
\* or an open connection is under way for it, and after it nothing of it is left
\* that could call again (a late answer, a query's timer, the connect timeout).
\* No timer fires for a query that was freed, and no lookup outlives its session.
\* A session written to after its client freed it, for chunks that do not decode,
\* ends what is claimed.
RequestEndsOnce == ~s.freed_write =>
  /\ ~s.bad
  /\ s.res.timers = s.res.queries
  /\ \A q \in Requests :
       LET x == s.ses[q] IN
       /\ x.finals <= 1
       /\ x.connect_timeout => x.transport_watch
       /\ x.listed => (Pending(x) <=> x.finals = 0)
  /\ \A id \in DOMAIN s.res.lookups :
       /\ \E t \in Types : <<id, t>> \in s.res.queries /\ s.res.lookups[id].query[t] > 0
       /\ \E q \in Requests : s.ses[q].listed /\ s.ses[q].resolv_action = id
  /\ \A query \in s.res.queries : query[1] \in DOMAIN s.res.lookups

=============================================================================

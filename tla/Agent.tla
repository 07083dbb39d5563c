-------------------------------- MODULE Agent --------------------------------
(***************************************************************************)
(* The agent request queue of src/agent.c.                                 *)
(*                                                                         *)
(* User agents register over D-Bus.  A request about a context (a service, *)
(* a peer, a VPN provider) is queued on one agent; an agent is asked one   *)
(* request at a time.  A request ends when its callback runs: with the     *)
(* agent's reply, or with NULL when it is cancelled, when the agent goes   *)
(* away, or when the D-Bus message cannot be sent.                         *)
(*                                                                         *)
(* Requests are numbered in the order they are queued.                     *)
(***************************************************************************)
EXTENDS Naturals, Sequences, SequencesExt, FiniteSets

CONSTANTS
    Agents,        \* D-Bus names that may register an agent
    Contexts,      \* user_context of a request
    NoAgent,       \* the NULL agent, and a request without a D-Bus sender
    MaxRequests,   \* bound on the requests ever queued
    SendMayFail    \* whether dbus_connection_send_with_reply() may fail: the
                   \* possibilities looked at, a subset of BOOLEAN

ASSUME AgentAssumption ==
    /\ NoAgent \notin Agents
    /\ MaxRequests \in Nat
    /\ SendMayFail \subseteq BOOLEAN

Requests == 1 .. MaxRequests

NoRequest == 0

VARIABLES
    agent_hash,     \* the registered agents
    default_agent,
    pending,        \* agent->pending: the request the agent is working on
    queue,          \* agent->queue
    context,        \* request->user_context, of the requests queued so far
    answered,       \* how often the callback of a request has run
    send_may_fail   \* whether a message may fail to go out in this behaviour

vars == <<agent_hash, default_agent, pending, queue, context, answered,
          send_may_fail>>

(***************************************************************************)
(* The handlers call each other, so each is an operator from the request   *)
(* state before to the request state after.                                *)
(***************************************************************************)
State == [pending |-> pending, queue |-> queue, context |-> context,
          answered |-> answered]

Become(s) ==
    /\ pending' = s.pending
    /\ queue' = s.queue
    /\ context' = s.context
    /\ answered' = s.answered

\* Whether the next message goes out.
SendResult == IF send_may_fail THEN BOOLEAN ELSE {TRUE}

Callback(s, r) == [s EXCEPT !.answered[r] = @ + 1]

CallbackAll(s, rs) ==
    [s EXCEPT !.answered = [r \in Requests |-> IF r \in rs THEN @[r] + 1 ELSE @[r]]]

agent_finalize_pending(s, a) ==
    IF s.pending[a] = NoRequest
    THEN s
    ELSE Callback([s EXCEPT !.pending[a] = NoRequest], s.pending[a])

\* Whether agent_send_next_request() has a message to send.
HasNext(s, a) == s.pending[a] = NoRequest /\ s.queue[a] # <<>>

agent_send_next_request(s, a, sent) ==
    IF ~HasNext(s, a)
    THEN s
    ELSE LET taken == [s EXCEPT !.pending[a] = Head(s.queue[a]),
                                !.queue[a] = Tail(@)]
         IN  IF sent THEN taken ELSE agent_finalize_pending(taken, a)

\* The request a new message becomes.
NewRequest(s) == Len(s.context) + 1

CanQueue(s) == Len(s.context) < MaxRequests

connman_agent_queue_message(s, a, c, sent) ==
    agent_send_next_request([s EXCEPT !.queue[a] = Append(@, NewRequest(s)),
                                      !.context = Append(@, c)], a, sent)

connman_agent_get_info(dbus_sender) ==
    IF dbus_sender \in agent_hash THEN dbus_sender ELSE default_agent

set_default_agent(agents) ==
    IF agents = {} THEN {NoAgent} ELSE agents

-----------------------------------------------------------------------------
Init ==
    /\ agent_hash = {}
    /\ default_agent = NoAgent
    /\ pending = [a \in Agents |-> NoRequest]
    /\ queue = [a \in Agents |-> <<>>]
    /\ context = <<>>
    /\ answered = [r \in Requests |-> 0]
    /\ send_may_fail \in SendMayFail

connman_agent_register(a) ==
    /\ a \notin agent_hash
    /\ agent_hash' = agent_hash \union {a}
    /\ IF default_agent = NoAgent
       THEN default_agent' \in set_default_agent(agent_hash')
       ELSE UNCHANGED default_agent
    /\ UNCHANGED <<pending, queue, context, answered>>

cancel_all_requests(s, a) ==
    [CallbackAll(agent_finalize_pending(s, a), ToSet(s.queue[a]))
        EXCEPT !.queue[a] = <<>>]

\* The agent leaves the table and its last reference goes with it.
agent_destroy(a) ==
    /\ a \in agent_hash
    /\ agent_hash' = agent_hash \ {a}
    /\ Become(cancel_all_requests(State, a))
    /\ IF a = default_agent
       THEN default_agent' \in set_default_agent(agent_hash')
       ELSE UNCHANGED default_agent

connman_agent_unregister(a) == agent_destroy(a)

\* The D-Bus name of the agent vanished.
agent_disconnect(a) == agent_destroy(a)

\* A request about context c made on behalf of dbus_sender: the agent is asked
\* to report an error, or for a passphrase.
connman_agent_report_error_full(c, dbus_sender, sent) ==
    LET a == connman_agent_get_info(dbus_sender)
    IN  /\ a # NoAgent
        /\ CanQueue(State)
        /\ Become(connman_agent_queue_message(State, a, c, sent))
        /\ UNCHANGED <<agent_hash, default_agent>>

__connman_agent_request_passphrase_input(c, dbus_sender, sent) ==
    connman_agent_report_error_full(c, dbus_sender, sent)

\* A request of the daemon's own goes to the default agent.
__connman_agent_request_login_input(c, sent) ==
    connman_agent_report_error_full(c, NoAgent, sent)

__connman_agent_request_browser(c, sent) ==
    connman_agent_report_error_full(c, NoAgent, sent)

\* Faulty variant: the next request waits for another event.
agent_receive_message_Stop(a, to, sentRetry, sent) ==
    /\ a \in agent_hash
    /\ pending[a] # NoRequest
    /\ to = NoAgent
    /\ Become(agent_finalize_pending(State, a))
    /\ UNCHANGED <<agent_hash, default_agent>>

\* A reply, an error or the timeout of the call reaches the pending request.  Its
\* callback may queue a further request about the same context (a retry), to
\* agent "to"; then the next request of this agent is sent.
agent_receive_message(a, to, sentRetry, sent) ==
    /\ a \in agent_hash
    /\ pending[a] # NoRequest
    /\ to # NoAgent => CanQueue(State)
    /\ LET c     == context[pending[a]]
           final == agent_finalize_pending(State, a)
           retry == IF to = NoAgent
                    THEN final
                    ELSE connman_agent_queue_message(final, to, c, sentRetry)
       IN  Become(agent_send_next_request(retry, a, sent))
    /\ UNCHANGED <<agent_hash, default_agent>>

\* Faulty variant: cancelled requests stay in the queue.
CancelAt_NoUnlink(s, a, c, sent) ==
    CallbackAll(s, {r \in ToSet(s.queue[a]) : s.context[r] = c})

\* What connman_agent_cancel() does at one agent.
CancelAt(s, a, c, sent) ==
    LET hit(r) == s.context[r] = c
        gone   == {r \in ToSet(s.queue[a]) : hit(r)}
        left   == CallbackAll([s EXCEPT !.queue[a] = SelectSeq(@, LAMBDA r : ~hit(r))],
                              gone)
    IN  IF s.pending[a] # NoRequest /\ hit(s.pending[a])
        THEN agent_send_next_request(agent_finalize_pending(left, a), a, sent)
        ELSE left

connman_agent_cancel(c, sent) ==
    /\ Become(FoldSet(LAMBDA a, s : CancelAt(s, a, c, sent[a]), State, agent_hash))
    /\ UNCHANGED <<agent_hash, default_agent>>

Step ==
    \/ \E a \in Agents :
        \/ connman_agent_register(a)
        \/ connman_agent_unregister(a)
        \/ agent_disconnect(a)
        \/ \E to \in agent_hash \union {NoAgent}, s1, s2 \in SendResult :
              agent_receive_message(a, to, s1, s2)
    \/ \E c \in Contexts, sent \in SendResult :
        \/ \E dbus_sender \in Agents \union {NoAgent} :
              \/ connman_agent_report_error_full(c, dbus_sender, sent)
              \/ __connman_agent_request_passphrase_input(c, dbus_sender, sent)
        \/ __connman_agent_request_login_input(c, sent)
        \/ __connman_agent_request_browser(c, sent)
    \/ \E c \in Contexts, sent \in [Agents -> SendResult] :
        connman_agent_cancel(c, sent)

Next == Step /\ UNCHANGED send_may_fail

\* libdbus answers every call, if only with a timeout.
Fairness ==
    \A a \in Agents :
        WF_vars(\E to \in agent_hash \union {NoAgent}, s1, s2 \in SendResult :
                    agent_receive_message(a, to, s1, s2) /\ UNCHANGED send_may_fail)

Spec == Init /\ [][Next]_vars /\ Fairness

-----------------------------------------------------------------------------
\* The requests an agent holds, in the order it will be asked them.
Held(a) ==
    IF pending[a] = NoRequest THEN queue[a] ELSE <<pending[a]>> \o queue[a]

\* How often request r is pending or queued.
Occurrences(r) ==
    Cardinality({<<a, i>> \in Agents \X Requests :
                    i \in DOMAIN Held(a) /\ Held(a)[i] = r})

TypeOK ==
    /\ agent_hash \subseteq Agents
    /\ default_agent \in Agents \union {NoAgent}
    /\ pending \in [Agents -> Requests \union {NoRequest}]
    /\ \A a \in Agents : queue[a] \in Seq(Requests)
    /\ context \in Seq(Contexts)
    /\ answered \in [Requests -> Nat]

\* A request is never lost and never answered twice: until its callback has run
\* it is pending or queued at exactly one agent, and afterwards at none, however
\* replies, cancellations, failed sends and vanishing agents interleave
\* (agent_finalize_pending, connman_agent_cancel, cancel_all_requests).
AnsweredOnce ==
    \A r \in Requests :
        answered[r] + Occurrences(r) = IF r \in DOMAIN context THEN 1 ELSE 0

\* As long as messages go out, every request is answered in the end:
\* agent_receive_message passes on to the next one each time.
EveryRequestAnswered ==
    \A r \in Requests : ~send_may_fail /\ r \in DOMAIN context ~> answered[r] = 1
=============================================================================

------------------------------- MODULE Broker -------------------------------
(***************************************************************************)
(* The in-memory request broker of a Project Host                          *)
(* (internal/lanhost/broker.go): which WebSocket serves an Agent, and      *)
(* which ask handlers wait for an answer.  Every operator below is the     *)
(* body of one critical section of broker.mu, or of one channel operation, *)
(* over the variables of this module only; ProjectHost.tla composes them   *)
(* with the HTTP handlers, the store and the provider devices.             *)
(***************************************************************************)
EXTENDS Naturals, Sequences

CONSTANTS
    Agent,       \* provider keys: a Project ID with an Agent ID
    Conn,        \* provider WebSockets, each one used once
    Ask,         \* runs of the ask handler; a run signs one nonce
    RequestId,   \* request IDs, chosen by the requester
    AgentOfConn, \* the Agent a WebSocket authenticated for
    AgentOf,     \* the Agent an ask is for
    IdOf,        \* the request ID an ask carries
    ReplyKind,   \* what a provider's read handler may return
    None         \* no WebSocket, no entry, no ask

BrokerAssumption ==
    /\ AgentOfConn \in [Conn -> Agent]
    /\ AgentOf \in [Ask -> Agent]
    /\ IdOf \in [Ask -> RequestId]
    /\ ReplyKind \subseteq {"answer", "failure", "invalid"}
    /\ None \notin Conn
    /\ None \notin Ask
    /\ None \notin [provider : Agent, replyTo : Ask]

ASSUME BrokerAssumption

VARIABLES
    providers,   \* broker.providers: the WebSocket that serves an Agent
    pending,     \* broker.pending, keyed by the request ID alone
    result       \* the channel of capacity 1 an ask waits on

brokerVars == <<providers, pending, result>>

-----------------------------------------------------------------------------

\* What a channel carries: of is the ask whose request frame the provider was
\* answering; the broker itself sends Disconnected.
Payload == [kind : {"answer", "failure", "protocol_error"}, of : Ask]
             \cup {[kind |-> "disconnected", of |-> None]}
Disconnected == [kind |-> "disconnected", of |-> None]

\* An ask is named by itself where the code uses the nonce it signed.
Entry == [provider : Agent, replyTo : Ask]

\* An empty channel.
Empty == [kind |-> "empty", of |-> None]

BrokerTypeOK ==
    /\ providers \in [Agent -> Conn \cup {None}]
    /\ pending \in [RequestId -> Entry \cup {None}]
    /\ result \in [Ask -> Payload \cup {Empty}]

BrokerInit ==
    /\ providers = [g \in Agent |-> None]
    /\ pending = [id \in RequestId |-> None]
    /\ result = [a \in Ask |-> Empty]

-----------------------------------------------------------------------------

\* broker.attach: the newest WebSocket of an Agent serves it.
AttachProvider(c) ==
    providers' = [providers EXCEPT ![AgentOfConn[c]] = c]

\* The channels a detach has to fill: those registered for the Agent.
WaitsOn(a, g) == pending[IdOf[a]] = [provider |-> g, replyTo |-> a]

\* Fault: the asks are told, the WebSocket stays in the map.
DetachProvider_Keep(c) ==
    /\ result' = [a \in Ask |-> IF WaitsOn(a, AgentOfConn[c]) /\ result[a] = Empty
                                  THEN Disconnected ELSE result[a]]
    /\ UNCHANGED providers

\* Fault: the loop over the waiting asks is lost.
DetachProvider_Silent(c) ==
    /\ providers' = IF providers[AgentOfConn[c]] = c
                      THEN [providers EXCEPT ![AgentOfConn[c]] = None]
                      ELSE providers
    /\ UNCHANGED result

\* broker.detach: a WebSocket that still serves its Agent stops to, and every
\* ask registered for that Agent is offered a failure; a full channel keeps
\* what it holds.
DetachProvider(c) ==
    LET g == AgentOfConn[c]
    IN  IF providers[g] = c
          THEN /\ providers' = [providers EXCEPT ![g] = None]
               /\ result' = [a \in Ask |->
                               IF WaitsOn(a, g) /\ result[a] = Empty
                                 THEN Disconnected ELSE result[a]]
          ELSE UNCHANGED <<providers, result>>

\* broker.dispatch, the critical section: an ask is registered under its
\* request ID only while a WebSocket serves its Agent.
RegisterRequest(a) ==
    /\ providers[AgentOf[a]] # None
    /\ pending' = [pending EXCEPT ![IdOf[a]] =
                     [provider |-> AgentOf[a], replyTo |-> a]]

\* Fault: the deferred delete is forgotten.
UnregisterRequest_Leak(a) == UNCHANGED pending

\* broker.dispatch, the deferred delete: by request ID, whoever registered it.
UnregisterRequest(a) == pending' = [pending EXCEPT ![IdOf[a]] = None]

\* broker.receive, the critical section and the test after it: an answer to
\* the request frame of ask a is accepted only for the entry that frame made.
Matches(a) ==
    /\ pending[IdOf[a]] # None
    /\ pending[IdOf[a]].replyTo = a

\* Fault: the answer is passed on as it came.
Normalized_Raw(kind) == kind

\* broker.receive: a response that does not answer its request becomes a
\* provider_protocol_error failure.
Normalized(kind) == IF kind = "invalid" THEN "protocol_error" ELSE kind

\* broker.receive, the send: a full channel drops the answer.
Offer(a, payload) ==
    result' = IF result[a] = Empty THEN [result EXCEPT ![a] = payload] ELSE result
=============================================================================

----------------------------- MODULE ProjectHost -----------------------------
(***************************************************************************)
(* The read path of a Project Host: ask handlers, provider handlers, the   *)
(* broker between them, the rows of the store they read and write, and the *)
(* provider devices at the other end of the WebSockets.                    *)
(*                                                                         *)
(* Grain: one step per critical section of broker.mu, per SQL statement    *)
(* (the store has one database connection, so statements are serial), per  *)
(* frame read or written and per channel operation.  Everything between    *)
(* two such steps is local to a handler.                                   *)
(***************************************************************************)
EXTENDS Broker

CONSTANTS
    Project,      \* Project IDs
    ProjectOf,    \* the Project of an Agent
    SendBuffer,   \* request frames a socket takes before a write blocks
    MaxRestarts   \* bound: restarts of the host process

HostAssumption ==
    /\ ProjectOf \in [Agent -> Project]
    /\ SendBuffer \in Nat \ {0}
    /\ MaxRestarts \in Nat
    /\ None \notin [to : Ask, payload : Payload]

ASSUME HostAssumption

\* A requests row is identified by Project and request ID.
Key(a) == <<ProjectOf[AgentOf[a]], IdOf[a]>>
RequestKey == Project \X RequestId

VARIABLES
    \* the store
    agents,      \* row of an Agent: absent, offline or online
    requests,    \* status column of a requests row, none when there is no row
    \* ask handlers
    pc,          \* where the handler of an ask stands
    via,         \* the WebSocket dispatch found for an ask
    gone,        \* asks whose HTTP request context is done
    reply,       \* what the handler of an ask returns
    \* provider handlers
    handler,     \* where the handler of a WebSocket stands
    replaced,    \* the WebSocket attach returned and that is still to close
    held,        \* the answer receive has matched and not yet sent on
    \* the network and the provider devices
    link,        \* none, up, lost (by device or network), closed (by host)
    toDevice,    \* request frames on their way to the device
    toHost,      \* answers on their way to the host
    session,     \* the device's loop over a WebSocket: none, running or ended
    busy,        \* the request the device is running for a WebSocket
    restarts,    \* restarts of the host process so far
    \* history
    accepted,    \* asks whose requests row was inserted
    executed,    \* asks a device has run
    lost         \* WebSockets that went away by themselves

storeVars == <<agents, requests>>
askVars == <<pc, via, gone, reply, accepted>>
handlerVars == <<handler, replaced, held>>
deviceVars == <<link, toDevice, toHost, session, busy, executed, lost>>
vars == <<brokerVars, storeVars, askVars, handlerVars, deviceVars, restarts>>

AskPc == {"idle", "create", "identity", "dispatch", "write", "wait",
          "cleanup", "update", "done", "lost"}
HandlerPc == {"none", "accepted", "replacing", "marking", "reading",
              "deliver", "leaving", "detached", "done"}
ReplyCode == {"agent_not_found", "agent_offline", "request_failed",
              "host_identity_unavailable"}

NoReply == [kind |-> "none", of |-> None]
Refusal(code) == [kind |-> code, of |-> None]

\* What an ask handler returns: what came through its channel, or a refusal.
Reply == Payload \cup {NoReply} \cup [kind : ReplyCode, of : {None}]
Frame == [kind : ReplyKind, of : Ask]
Match == [to : Ask, payload : Payload]

StoreTypeOK ==
    /\ agents \in [Agent -> {"absent", "offline", "online"}]
    /\ requests \in [RequestKey -> {"none", "running", "succeeded", "failed"}]

AskTypeOK ==
    /\ pc \in [Ask -> AskPc]
    /\ via \in [Ask -> Conn \cup {None}]
    /\ gone \in SUBSET Ask
    /\ reply \in [Ask -> Reply]
    /\ accepted \in SUBSET Ask

HandlerTypeOK ==
    /\ handler \in [Conn -> HandlerPc]
    /\ replaced \in [Conn -> Conn \cup {None}]
    /\ held \in [Conn -> Match \cup {None}]

DeviceTypeOK ==
    /\ link \in [Conn -> {"none", "up", "lost", "closed"}]
    /\ toDevice \in [Conn -> Seq(Ask)]
    /\ toHost \in [Conn -> Seq(Frame)]
    /\ session \in [Conn -> {"none", "running", "ended"}]
    /\ busy \in [Conn -> Ask \cup {None}]
    /\ executed \in SUBSET Ask
    /\ lost \in SUBSET Conn

TypeOK ==
    /\ BrokerTypeOK /\ StoreTypeOK /\ AskTypeOK /\ HandlerTypeOK /\ DeviceTypeOK
    /\ restarts \in 0..MaxRestarts

Init ==
    /\ BrokerInit
    /\ agents = [g \in Agent |-> "offline"]
    /\ requests = [k \in RequestKey |-> "none"]
    /\ pc = [a \in Ask |-> "idle"]
    /\ via = [a \in Ask |-> None]
    /\ gone = {}
    /\ reply = [a \in Ask |-> NoReply]
    /\ handler = [c \in Conn |-> "none"]
    /\ replaced = [c \in Conn |-> None]
    /\ held = [c \in Conn |-> None]
    /\ link = [c \in Conn |-> "none"]
    /\ toDevice = [c \in Conn |-> <<>>]
    /\ toHost = [c \in Conn |-> <<>>]
    /\ session = [c \in Conn |-> "none"]
    /\ busy = [c \in Conn |-> None]
    /\ restarts = 0
    /\ accepted = {}
    /\ executed = {}
    /\ lost = {}

-----------------------------------------------------------------------------
(* The ask handler, Server.ask with broker.dispatch inlined.               *)

Goto(a, from, to) == pc[a] = from /\ pc' = [pc EXCEPT ![a] = to]

Return(a, from, code) ==
    /\ Goto(a, from, "done")
    /\ reply' = [reply EXCEPT ![a] = Refusal(code)]

\* Server.ask reads the Agent's row: an ask for a missing Agent or for one
\* the row says is offline goes no further.
CheckAgent(a) ==
    /\ \/ agents[AgentOf[a]] = "absent"  /\ Return(a, "idle", "agent_not_found")
       \/ agents[AgentOf[a]] = "offline" /\ Return(a, "idle", "agent_offline")
       \/ agents[AgentOf[a]] = "online"  /\ Goto(a, "idle", "create") /\ UNCHANGED reply
    /\ UNCHANGED <<brokerVars, storeVars, via, gone, accepted, handlerVars, deviceVars, restarts>>

\* Fault: the insert replaces a row that is already there.
CreateRequest_Upsert(a) ==
    /\ \/ /\ a \notin gone
          /\ requests' = [requests EXCEPT ![Key(a)] = "running"]
          /\ accepted' = accepted \cup {a}
          /\ Goto(a, "create", "identity")
          /\ UNCHANGED reply
       \/ /\ a \in gone
          /\ Return(a, "create", "request_failed")
          /\ UNCHANGED <<requests, accepted>>
    /\ UNCHANGED <<brokerVars, agents, via, gone, handlerVars, deviceVars, restarts>>

\* Store.CreateRequest: the primary key lets a request ID into a Project
\* once, and nothing is inserted for a requester that has gone.
CreateRequest(a) ==
    /\ \/ /\ requests[Key(a)] = "none" /\ a \notin gone
          /\ requests' = [requests EXCEPT ![Key(a)] = "running"]
          /\ accepted' = accepted \cup {a}
          /\ Goto(a, "create", "identity")
          /\ UNCHANGED reply
       \/ /\ requests[Key(a)] # "none" \/ a \in gone
          /\ Return(a, "create", "request_failed")
          /\ UNCHANGED <<requests, accepted>>
    /\ UNCHANGED <<brokerVars, agents, via, gone, handlerVars, deviceVars, restarts>>

\* Server.ask loads the host's signing key; when it cannot, it returns and
\* leaves the row running.
LoadIdentity(a) ==
    /\ \/ Goto(a, "identity", "dispatch") /\ UNCHANGED reply
       \/ Return(a, "identity", "host_identity_unavailable")
    /\ UNCHANGED <<brokerVars, storeVars, via, gone, accepted, handlerVars, deviceVars, restarts>>

\* broker.dispatch under broker.mu: refused when no WebSocket serves the
\* Agent, registered otherwise.
Dispatch(a) ==
    /\ \/ /\ RegisterRequest(a)
          /\ via' = [via EXCEPT ![a] = providers[AgentOf[a]]]
          /\ Goto(a, "dispatch", "write")
          /\ UNCHANGED reply
       \/ /\ providers[AgentOf[a]] = None
          /\ Goto(a, "dispatch", "update")
          /\ reply' = [reply EXCEPT ![a] = Refusal("agent_offline")]
          /\ UNCHANGED <<pending, via>>
    /\ UNCHANGED <<providers, result, storeVars, gone, accepted, handlerVars, deviceVars, restarts>>

\* Fault: the error of the write is not looked at.
WriteRequest_NoError(a) ==
    LET c == via[a] IN
    /\ Goto(a, "write", "wait")
    /\ link[c] # "closed"
    /\ link[c] = "up" => Len(toDevice[c]) < SendBuffer
    /\ toDevice' = IF link[c] = "up" THEN [toDevice EXCEPT ![c] = Append(@, a)] ELSE toDevice
    /\ UNCHANGED <<brokerVars, storeVars, via, gone, reply, accepted, handlerVars,
                   link, toHost, session, busy, executed, lost, restarts>>

\* broker.dispatch writes the request frame.  A full socket blocks the write,
\* whatever the context says; a socket the host closed, or one whose peer has
\* gone, fails it; one whose peer has gone unnoticed may swallow the frame.
WriteRequest(a) ==
    LET c == via[a] IN
    /\ pc[a] = "write"
    /\ \/ /\ link[c] = "up" /\ Len(toDevice[c]) < SendBuffer
          /\ toDevice' = [toDevice EXCEPT ![c] = Append(@, a)]
          /\ Goto(a, "write", "wait")
          /\ UNCHANGED reply
       \/ /\ link[c] = "lost"
          /\ Goto(a, "write", "wait")
          /\ UNCHANGED <<toDevice, reply>>
       \/ /\ link[c] # "up"
          /\ Goto(a, "write", "cleanup")
          /\ reply' = [reply EXCEPT ![a] = Refusal("agent_offline")]
          /\ UNCHANGED toDevice
    /\ UNCHANGED <<brokerVars, storeVars, via, gone, accepted, handlerVars,
                   link, toHost, session, busy, executed, lost, restarts>>

\* broker.dispatch waits: for the channel, or for the context.  Both may be
\* ready, and select then takes either.
TakeResult(a) ==
    /\ result[a] # Empty
    /\ Goto(a, "wait", "cleanup")
    /\ reply' = [reply EXCEPT ![a] = result[a]]
    /\ UNCHANGED <<brokerVars, storeVars, via, gone, accepted, handlerVars, deviceVars, restarts>>

ContextDone(a) ==
    /\ a \in gone
    /\ Goto(a, "wait", "cleanup")
    /\ reply' = [reply EXCEPT ![a] = Refusal("agent_offline")]
    /\ UNCHANGED <<brokerVars, storeVars, via, gone, accepted, handlerVars, deviceVars, restarts>>

\* broker.dispatch's deferred delete, under broker.mu.
Cleanup(a) ==
    /\ Goto(a, "cleanup", "update")
    /\ UnregisterRequest(a)
    /\ UNCHANGED <<providers, result, storeVars, via, gone, reply, accepted,
                   handlerVars, deviceVars, restarts>>

\* Fault: every request that got an outcome is recorded as succeeded.
UpdateRequest_AlwaysSucceeded(a) ==
    /\ Goto(a, "update", "done")
    /\ requests' = [requests EXCEPT ![Key(a)] = "succeeded"]
    /\ UNCHANGED <<brokerVars, agents, via, gone, reply, accepted, handlerVars, deviceVars, restarts>>

\* Server.ask records the outcome in the row, then returns.
UpdateRequest(a) ==
    /\ Goto(a, "update", "done")
    /\ requests' = [requests EXCEPT ![Key(a)] =
                      IF reply[a].kind = "answer" THEN "succeeded" ELSE "failed"]
    /\ UNCHANGED <<brokerVars, agents, via, gone, reply, accepted, handlerVars, deviceVars, restarts>>

\* The requester's deadline passes or its connection ends: the context of the
\* HTTP request is done.
RequesterGone(a) ==
    /\ pc[a] \notin {"idle", "done", "lost"} /\ a \notin gone
    /\ gone' = gone \cup {a}
    /\ UNCHANGED <<brokerVars, storeVars, pc, via, reply, accepted, handlerVars, deviceVars, restarts>>

-----------------------------------------------------------------------------
(* The provider handler, Server.handleProvider with broker.receive inlined. *)

Step(c, from, to) == handler[c] = from /\ handler' = [handler EXCEPT ![c] = to]

\* Server.handleProvider has authenticated the device and read the Agent's
\* row.  The device dials again only when its loop over the Agent's last
\* WebSocket has ended.
Connect(c) ==
    /\ agents[AgentOfConn[c]] # "absent"
    /\ \A d \in Conn : AgentOfConn[d] = AgentOfConn[c] => session[d] # "running"
    /\ Step(c, "none", "accepted")
    /\ link' = [link EXCEPT ![c] = "up"]
    /\ session' = [session EXCEPT ![c] = "running"]
    /\ UNCHANGED <<brokerVars, storeVars, askVars, replaced, held,
                   toDevice, toHost, busy, executed, lost, restarts>>

\* handleProvider upgrades and attaches the WebSocket ...
Attach(c) ==
    /\ AttachProvider(c)
    /\ replaced' = [replaced EXCEPT ![c] = providers[AgentOfConn[c]]]
    /\ Step(c, "accepted", "replacing")
    /\ UNCHANGED <<pending, result, storeVars, askVars, held, deviceVars, restarts>>

\* ... or the upgrade fails, and the handler returns at once.
UpgradeFails(c) ==
    /\ link[c] # "up"
    /\ Step(c, "accepted", "done")
    /\ UNCHANGED <<brokerVars, storeVars, askVars, replaced, held, deviceVars, restarts>>

\* The host closes its end of a socket: what it has not read is dropped.
Close(d) ==
    /\ link' = [link EXCEPT ![d] = "closed"]
    /\ toHost' = [toHost EXCEPT ![d] = <<>>]

\* Fault: the WebSocket that was replaced is left open.
CloseReplaced_Skip(c) ==
    /\ Step(c, "replacing", "marking")
    /\ replaced' = [replaced EXCEPT ![c] = None]
    /\ UNCHANGED <<brokerVars, storeVars, askVars, held, deviceVars, restarts>>

\* ... closes the one it replaced, if there was one ...
CloseReplaced(c) ==
    /\ Step(c, "replacing", "marking")
    /\ replaced' = [replaced EXCEPT ![c] = None]
    /\ IF replaced[c] = None THEN UNCHANGED <<link, toHost>> ELSE Close(replaced[c])
    /\ UNCHANGED <<brokerVars, storeVars, askVars, held,
                   toDevice, session, busy, executed, lost, restarts>>

\* Store.SetAgentOnline updates the row of the Agent, if there is one.
SetAgentOnline(g, status) ==
    agents' = IF agents[g] = "absent" THEN agents ELSE [agents EXCEPT ![g] = status]

\* ... and records the Agent as online.
MarkOnline(c) ==
    /\ Step(c, "marking", "reading")
    /\ SetAgentOnline(AgentOfConn[c], "online")
    /\ UNCHANGED <<brokerVars, requests, askVars, replaced, held, deviceVars, restarts>>

\* ReadJSON returns an error: this end was closed, or the other end has gone.
ReadFails(c) ==
    /\ link[c] # "up"
    /\ Step(c, "reading", "leaving")
    /\ UNCHANGED <<brokerVars, storeVars, askVars, replaced, held, deviceVars, restarts>>

\* ReadJSON returns a frame, and receive looks its request up under
\* broker.mu.  An answer nobody waits for any more ends the handler.  Frames
\* that reached the host before the peer went are still read.
Receive(c) ==
    LET f == Head(toHost[c]) IN
    /\ link[c] \in {"up", "lost"} /\ toHost[c] # <<>>
    /\ toHost' = [toHost EXCEPT ![c] = Tail(@)]
    /\ \/ /\ Matches(f.of)
          /\ held' = [held EXCEPT ![c] =
                [to |-> pending[IdOf[f.of]].replyTo,
                 payload |-> [kind |-> Normalized(f.kind), of |-> f.of]]]
          /\ Step(c, "reading", "deliver")
       \/ /\ ~Matches(f.of)
          /\ Step(c, "reading", "leaving")
          /\ UNCHANGED held
    /\ UNCHANGED <<brokerVars, storeVars, askVars, replaced,
                   link, toDevice, session, busy, executed, lost, restarts>>

\* receive sends on the channel it found, outside broker.mu.
Deliver(c) ==
    /\ Step(c, "deliver", "reading")
    /\ Offer(held[c].to, held[c].payload)
    /\ held' = [held EXCEPT ![c] = None]
    /\ UNCHANGED <<providers, pending, storeVars, askVars, replaced, deviceVars, restarts>>

\* The handler's deferred function: detach ...
Detach(c) ==
    /\ Step(c, "leaving", "detached")
    /\ DetachProvider(c)
    /\ UNCHANGED <<pending, storeVars, askVars, replaced, held, deviceVars, restarts>>

\* Fault: the row is left as it is.
MarkOffline_Forgotten(c) ==
    /\ Step(c, "detached", "done")
    /\ Close(c)
    /\ UNCHANGED <<brokerVars, storeVars, askVars, replaced, held,
                   toDevice, session, busy, executed, lost, restarts>>

\* ... then record the Agent as offline, whoever serves it now, and close.
MarkOffline(c) ==
    /\ Step(c, "detached", "done")
    /\ SetAgentOnline(AgentOfConn[c], "offline")
    /\ Close(c)
    /\ UNCHANGED <<brokerVars, requests, askVars, replaced, held,
                   toDevice, session, busy, executed, lost, restarts>>

-----------------------------------------------------------------------------
(* The provider device: Client.runProviderEndpoint, one request at a time.  *)

\* The device reads the next request and starts its read handler on it, also
\* when the frame outlived the socket it was sent on.
DeviceTake(c) ==
    /\ session[c] = "running" /\ busy[c] = None /\ toDevice[c] # <<>>
    /\ busy' = [busy EXCEPT ![c] = Head(toDevice[c])]
    /\ toDevice' = [toDevice EXCEPT ![c] = Tail(@)]
    /\ executed' = executed \cup {Head(toDevice[c])}
    /\ UNCHANGED <<brokerVars, storeVars, askVars, handlerVars,
                   link, toHost, session, lost, restarts>>

\* The device's loop over a WebSocket ends: frames it has not read are dropped.
EndSession(c) ==
    /\ session' = [session EXCEPT ![c] = "ended"]
    /\ toDevice' = [toDevice EXCEPT ![c] = <<>>]

\* Fault: the answer names the request frame that arrived last.
DeviceReply_WrongNonce(c) ==
    /\ busy[c] # None
    /\ busy' = [busy EXCEPT ![c] = None]
    /\ \E k \in ReplyKind, a \in Ask :
         toHost' = [toHost EXCEPT ![c] = Append(@, [kind |-> k, of |-> a])]
    /\ UNCHANGED <<brokerVars, storeVars, askVars, handlerVars,
                   link, toDevice, session, executed, lost, restarts>>

\* The read handler returns and the device answers.  On a socket that has
\* gone the write is swallowed, or fails and ends the loop.
DeviceReply(c) ==
    /\ busy[c] # None
    /\ busy' = [busy EXCEPT ![c] = None]
    /\ \/ /\ link[c] = "up"
          /\ \E k \in ReplyKind :
               toHost' = [toHost EXCEPT ![c] = Append(@, [kind |-> k, of |-> busy[c]])]
          /\ UNCHANGED <<session, toDevice>>
       \/ link[c] # "up" /\ EndSession(c) /\ UNCHANGED toHost
       \/ link[c] # "up" /\ UNCHANGED <<session, toDevice, toHost>>
    /\ UNCHANGED <<brokerVars, storeVars, askVars, handlerVars,
                   link, executed, lost, restarts>>

\* The device's read fails on a socket that has gone.
DeviceReadFails(c) ==
    /\ session[c] = "running" /\ busy[c] = None /\ link[c] # "up"
    /\ EndSession(c)
    /\ UNCHANGED <<brokerVars, storeVars, askVars, handlerVars,
                   link, toHost, busy, executed, lost, restarts>>

\* The path between the two is lost: the host learns of it when it next reads
\* or writes, the device when its read handler is done.
PathLost(c) ==
    /\ link[c] = "up"
    /\ link' = [link EXCEPT ![c] = "lost"]
    /\ lost' = lost \cup {c}
    /\ UNCHANGED <<brokerVars, storeVars, askVars, handlerVars,
                   toDevice, toHost, session, busy, executed, restarts>>

\* The device stops serving: its process ends, its provider is stopped or it
\* refuses a frame.  A read handler that was running is canceled.
DeviceStops(c) ==
    /\ session[c] = "running"
    /\ EndSession(c)
    /\ busy' = [busy EXCEPT ![c] = None]
    /\ link' = IF link[c] = "up" THEN [link EXCEPT ![c] = "lost"] ELSE link
    /\ lost' = lost \cup {c}
    /\ UNCHANGED <<brokerVars, storeVars, askVars, handlerVars,
                   toHost, executed, restarts>>

-----------------------------------------------------------------------------
(* The rest of the system, as far as it reaches the read path.             *)

\* Store.RemoveAgent, or the removal of the member that owns it: the row
\* goes, the WebSocket and the asks stay.
RemoveAgent(g) ==
    /\ agents[g] # "absent"
    /\ agents' = [agents EXCEPT ![g] = "absent"]
    /\ UNCHANGED <<brokerVars, requests, askVars, handlerVars, deviceVars, restarts>>

\* The host process dies and is started again: rows survive, the broker, the
\* handlers and the sockets do not.
Restart ==
    /\ restarts < MaxRestarts
    /\ restarts' = restarts + 1
    /\ providers' = [g \in Agent |-> None]
    /\ pending' = [id \in RequestId |-> None]
    /\ result' = [a \in Ask |-> Empty]
    /\ pc' = [a \in Ask |-> IF pc[a] \in {"idle", "done"} THEN pc[a] ELSE "lost"]
    /\ handler' = [c \in Conn |-> IF handler[c] = "none" THEN "none" ELSE "done"]
    /\ replaced' = [c \in Conn |-> None]
    /\ held' = [c \in Conn |-> None]
    /\ link' = [c \in Conn |-> IF link[c] = "none" THEN "none" ELSE "closed"]
    /\ toHost' = [c \in Conn |-> <<>>]
    /\ UNCHANGED <<storeVars, via, gone, reply, accepted, toDevice, session,
                   busy, executed, lost>>

-----------------------------------------------------------------------------

AskStep(a) ==
    \/ CheckAgent(a)   \/ CreateRequest(a) \/ LoadIdentity(a)
    \/ Dispatch(a)     \/ WriteRequest(a)  \/ TakeResult(a)
    \/ ContextDone(a)  \/ Cleanup(a)       \/ UpdateRequest(a)

HandlerStep(c) ==
    \/ Attach(c)     \/ UpgradeFails(c) \/ CloseReplaced(c)
    \/ MarkOnline(c) \/ ReadFails(c)    \/ Receive(c)
    \/ Deliver(c)    \/ Detach(c)       \/ MarkOffline(c)

DeviceStep(c) == DeviceTake(c) \/ DeviceReply(c) \/ DeviceReadFails(c)

Next ==
    \/ \E a \in Ask : AskStep(a) \/ RequesterGone(a)
    \/ \E c \in Conn : \/ HandlerStep(c) \/ DeviceStep(c) \/ Connect(c)
                       \/ PathLost(c) \/ DeviceStops(c)
    \/ \E g \in Agent : RemoveAgent(g)
    \/ Restart

Spec == Init /\ [][Next]_vars

(***************************************************************************)
(* Fairness.  Handlers and the device's loop are goroutines that are not   *)
(* blocked: each takes its next step.  ReadFails is fair because the       *)
(* host's TCP keepalive ends a read on a path that was lost.  Nothing is   *)
(* assumed of requests, connections, losses or restarts.                   *)
(***************************************************************************)
Fairness ==
    /\ \A a \in Ask : WF_vars(AskStep(a))
    /\ \A c \in Conn : WF_vars(HandlerStep(c)) /\ WF_vars(DeviceTake(c) \/ DeviceReadFails(c))

FairSpec == Spec /\ Fairness

\* Two assumptions more, for what needs them: a read of the device ends (the
\* code sets it no limit of time), and every requester has a deadline (the RPC
\* client's request timeout).
ReadsEnd == \A c \in Conn : WF_vars(DeviceReply(c))
DeadlinesPass == \A a \in Ask : WF_vars(RequesterGone(a))

-----------------------------------------------------------------------------
(* Properties.                                                             *)

Delivered == {"answer", "failure", "protocol_error"}
InDispatch == {"write", "wait", "cleanup"}
Serving == {"replacing", "marking", "reading", "deliver", "leaving"}

\* What an ask returns from a device was produced by a device for this very
\* ask, whatever IDs other asks carry and however answers and timeouts cross
\* (nonce match of broker.receive, one channel per dispatch).
AnswersItsAsk ==
    \A a \in Ask : reply[a].kind \in Delivered => reply[a].of = a /\ a \in executed

\* An ask in dispatch whose Agent is served by no WebSocket has a failure, or
\* an answer, in its channel: it never waits out its deadline for a provider
\* that the host knows to be gone (broker.detach against broker.dispatch).
\* Asks must not share a request ID across Projects.
NoOrphanedWaiter ==
    \A a \in Ask :
        pc[a] \in {"write", "wait"} /\ providers[AgentOf[a]] = None => result[a] # Empty

\* The pending map holds no entry of an ask that has left dispatch: it neither
\* grows for ever nor lets a late answer find a channel nobody reads.
NoStaleEntry ==
    \A id \in RequestId : pending[id] # None => pc[pending[id].replyTo] \in InDispatch

\* The broker never routes to a WebSocket whose handler has detached.
ProviderIsServed ==
    \A g \in Agent : providers[g] # None => handler[providers[g]] \in Serving

\* A WebSocket that was replaced is closed, or about to be by the handler
\* that replaced it: an Agent never has two open sockets reading answers.
SupersededIsClosed ==
    \A c \in Conn :
        /\ handler[c] \in {"marking", "reading", "deliver"}
        /\ providers[AgentOfConn[c]] # c
        => \/ link[c] = "closed"
           \/ \E d \in Conn : handler[d] = "replacing" /\ replaced[d] = c

\* Two asks with one request ID in one Project, the second a retry or a
\* duplicate, never run the Agent twice, across restarts of the host too.
AtMostOneRun ==
    \A a, b \in executed : Key(a) = Key(b) => a = b

\* The requests row and what the requester was told agree.
RowAgreesWithReply ==
    \A a \in accepted :
        pc[a] = "done" =>
            CASE reply[a].kind = "answer" -> requests[Key(a)] = "succeeded"
              [] reply[a].kind = "host_identity_unavailable" -> requests[Key(a)] = "running"
              [] OTHER -> requests[Key(a)] = "failed"

\* While the host runs, a row that says online has a provider handler behind
\* it that will still take it offline.
OnlineHasHandler ==
    restarts = 0 =>
        \A g \in Agent : agents[g] = "online" =>
            \E c \in Conn : /\ AgentOfConn[c] = g
                            /\ handler[c] \in {"reading", "deliver", "leaving", "detached"}

\* A row that reached succeeded or failed keeps that status: no retry, late
\* answer or second handler rewrites it, although UpdateRequest does not look.
TerminalIsFinal ==
    [][\A k \in RequestKey : requests[k] \in {"succeeded", "failed"} => requests'[k] = requests[k]]_vars

\* If deadlines pass and reads of the device end, every ask whose handler has
\* started returns, unless the host dies first: a write to a full socket, which
\* knows no deadline, is waited out.
AskReturns ==
    ReadsEnd /\ DeadlinesPass =>
        \A a \in Ask : pc[a] # "idle" ~> pc[a] \in {"done", "lost"}

\* An ask waiting when its Agent loses its provider returns without the help
\* of its deadline.
DisconnectEndsWait ==
    \A a \in Ask :
        (pc[a] = "wait" /\ providers[AgentOf[a]] = None) ~> pc[a] \in {"done", "lost"}

\* The read path implements ReadService: an ask is open from the insert of its
\* row to the update of it.
OutcomeOf(a) ==
    CASE pc[a] \in {"idle", "create"} -> "none"
      [] pc[a] = "lost" -> IF a \in accepted THEN "abandoned" ELSE "refused"
      [] pc[a] = "done" ->
           IF a \notin accepted THEN "refused"
           ELSE IF reply[a].kind = "answer" THEN "answered"
           ELSE IF reply[a].kind = "host_identity_unavailable" THEN "abandoned"
           ELSE "failed"
      [] OTHER -> "open"

Service == INSTANCE ReadService WITH
    KeyOf <- [a \in Ask |-> Key(a)],
    status <- requests,
    outcome <- [a \in Ask |-> OutcomeOf(a)],
    ran <- executed

\* The detailed read path implements the abstract one: each step of a
\* handler, device or crash is a step of the service or invisible to it.
ImplementsReadService == Service!Spec

-----------------------------------------------------------------------------
(* What the documentation says and the code does not do: each of these is  *)
(* refuted by a run of its own.                                            *)

\* "Registered Agents go online by themselves and reconnect": an Agent whose
\* only live handler is the one that serves it is listed as online.
ServedShowsOnline ==
    \A g \in Agent, c \in Conn :
        /\ providers[g] = c /\ handler[c] = "reading" /\ agents[g] # "absent"
        /\ \A d \in Conn \ {c} : AgentOfConn[d] = g => handler[d] \in {"none", "done"}
        => agents[g] = "online"

\* "Agent disconnected while handling the request": an ask is told so only
\* when a device or its network went away.
FailureMeansDisconnect ==
    \A a \in Ask : result[a] = Disconnected =>
        \E c \in lost : AgentOfConn[c] = AgentOf[a]
=============================================================================

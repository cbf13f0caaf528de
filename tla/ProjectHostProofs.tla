------------------------- MODULE ProjectHostProofs -------------------------
(***************************************************************************)
(* Proofs about the read path, for every set of Agents, WebSockets and     *)
(* asks and every number of restarts.                                      *)
(***************************************************************************)
EXTENDS ProjectHost, TLAPS

\* The values the handlers put into replies, channels, frames and matches.
LEMMA ReplyValues ==
    /\ \A code \in ReplyCode : Refusal(code) \in Reply
    /\ NoReply \in Reply
    /\ Payload \subseteq Reply
    /\ Disconnected \in Payload
    /\ Empty \notin Payload
  BY DEF Reply, Refusal, Payload, Disconnected, Empty

LEMMA MatchValues ==
    /\ \A f \in Frame : [kind |-> Normalized(f.kind), of |-> f.of] \in Payload
    /\ \A a \in Ask, p \in Payload : [to |-> a, payload |-> p] \in Match
  BY BrokerAssumption DEF BrokerAssumption, Frame, Payload, Normalized, Match

LEMMA InitTypeOK == Init => TypeOK
  BY ReplyValues, HostAssumption
     DEF HostAssumption, Init, BrokerInit, TypeOK, BrokerTypeOK, StoreTypeOK, AskTypeOK,
         HandlerTypeOK, DeviceTypeOK, AskPc, HandlerPc

\* A step that leaves a group of variables alone keeps the group's types.
LEMMA GroupsKept ==
    ASSUME TypeOK
    PROVE  /\ UNCHANGED brokerVars => BrokerTypeOK'
           /\ UNCHANGED storeVars => StoreTypeOK'
           /\ UNCHANGED askVars => AskTypeOK'
           /\ UNCHANGED handlerVars => HandlerTypeOK'
           /\ UNCHANGED deviceVars => DeviceTypeOK'
<1>1. UNCHANGED brokerVars => BrokerTypeOK'
  BY DEF TypeOK, BrokerTypeOK, brokerVars
<1>2. UNCHANGED storeVars => StoreTypeOK'
  BY DEF TypeOK, StoreTypeOK, storeVars
<1>3. UNCHANGED askVars => AskTypeOK'
  BY DEF TypeOK, AskTypeOK, askVars
<1>4. UNCHANGED handlerVars => HandlerTypeOK'
  BY DEF TypeOK, HandlerTypeOK, handlerVars
<1>5. UNCHANGED deviceVars => DeviceTypeOK'
  BY DEF TypeOK, DeviceTypeOK, deviceVars
<1>. QED BY <1>1, <1>2, <1>3, <1>4, <1>5

\* Moving the handler of an ask on, and giving it something to return.
LEMMA AskMoves ==
    ASSUME AskTypeOK, NEW a \in Ask
    PROVE  /\ \A from \in AskPc, to \in AskPc : Goto(a, from, to) => pc' \in [Ask -> AskPc]
           /\ \A from \in AskPc, code \in ReplyCode :
                Return(a, from, code) => pc' \in [Ask -> AskPc] /\ reply' \in [Ask -> Reply]
           /\ \A r \in Reply :
                reply' = [reply EXCEPT ![a] = r] => reply' \in [Ask -> Reply]
<1>1. ASSUME NEW from \in AskPc, NEW to \in AskPc, Goto(a, from, to)
      PROVE  pc' \in [Ask -> AskPc]
  BY <1>1 DEF AskTypeOK, Goto
<1>2. ASSUME NEW r \in Reply, reply' = [reply EXCEPT ![a] = r]
      PROVE  reply' \in [Ask -> Reply]
  BY <1>2 DEF AskTypeOK
<1>3. ASSUME NEW from \in AskPc, NEW code \in ReplyCode, Return(a, from, code)
      PROVE  pc' \in [Ask -> AskPc] /\ reply' \in [Ask -> Reply]
  <2>1. Goto(a, from, "done") /\ reply' = [reply EXCEPT ![a] = Refusal(code)]
    BY <1>3 DEF Return
  <2>2. "done" \in AskPc /\ Refusal(code) \in Reply
    BY ReplyValues DEF AskPc
  <2>. QED BY <1>1, <1>2, <2>1, <2>2
<1>. QED BY <1>1, <1>2, <1>3

\* A step of an ask handler keeps the types.
LEMMA AskStepTypeOK ==
    ASSUME TypeOK, NEW a \in Ask, AskStep(a) \/ RequesterGone(a)
    PROVE  TypeOK'
<1>a. AskTypeOK /\ StoreTypeOK /\ BrokerTypeOK /\ DeviceTypeOK /\ restarts \in 0..MaxRestarts
  BY DEF TypeOK
<1>c. /\ "agent_not_found" \in ReplyCode /\ "agent_offline" \in ReplyCode
      /\ "request_failed" \in ReplyCode /\ "host_identity_unavailable" \in ReplyCode
  BY DEF ReplyCode
<1>p. /\ "idle" \in AskPc /\ "create" \in AskPc /\ "identity" \in AskPc /\ "dispatch" \in AskPc
      /\ "write" \in AskPc /\ "wait" \in AskPc /\ "cleanup" \in AskPc /\ "update" \in AskPc
      /\ "done" \in AskPc
  BY DEF AskPc
<1>o. Refusal("agent_offline") \in Reply
  BY <1>c, ReplyValues
<1>1. CASE CheckAgent(a)
  <2>1. pc' \in [Ask -> AskPc] /\ reply' \in [Ask -> Reply]
    BY <1>1, <1>a, <1>c, <1>p, AskMoves DEF CheckAgent, AskTypeOK
  <2>2. AskTypeOK'
    BY <1>1, <1>a, <2>1 DEF CheckAgent, AskTypeOK
  <2>. QED BY <1>1, <1>a, <2>2, GroupsKept DEF CheckAgent, TypeOK
<1>2. CASE CreateRequest(a)
  <2>1. pc' \in [Ask -> AskPc] /\ reply' \in [Ask -> Reply] /\ accepted' \in SUBSET Ask
    BY <1>2, <1>a, <1>c, <1>p, AskMoves DEF CreateRequest, AskTypeOK
  <2>2. AskTypeOK'
    BY <1>2, <1>a, <2>1 DEF CreateRequest, AskTypeOK
  <2>3. StoreTypeOK'
    BY <1>2, <1>a DEF CreateRequest, StoreTypeOK
  <2>. QED BY <1>2, <1>a, <2>2, <2>3, GroupsKept DEF CreateRequest, TypeOK
<1>3. CASE LoadIdentity(a)
  <2>1. pc' \in [Ask -> AskPc] /\ reply' \in [Ask -> Reply]
    BY <1>3, <1>a, <1>c, <1>p, AskMoves DEF LoadIdentity, AskTypeOK
  <2>2. AskTypeOK'
    BY <1>3, <1>a, <2>1 DEF LoadIdentity, AskTypeOK
  <2>. QED BY <1>3, <1>a, <2>2, GroupsKept DEF LoadIdentity, TypeOK
<1>4. CASE Dispatch(a)
  <2>1. providers[AgentOf[a]] \in Conn \cup {None} /\ IdOf[a] \in RequestId
    BY <1>a, BrokerAssumption DEF BrokerAssumption, BrokerTypeOK
  <2>2. [provider |-> AgentOf[a], replyTo |-> a] \in Entry
    BY BrokerAssumption DEF Entry, BrokerAssumption
  <2>3. pc' \in [Ask -> AskPc] /\ reply' \in [Ask -> Reply]
    BY <1>4, <1>a, <1>o, <1>p, AskMoves DEF Dispatch, AskTypeOK
  <2>4. via' \in [Ask -> Conn \cup {None}]
    BY <1>4, <1>a, <2>1 DEF Dispatch, AskTypeOK
  <2>5. AskTypeOK'
    BY <1>4, <1>a, <2>3, <2>4 DEF Dispatch, AskTypeOK
  <2>6. BrokerTypeOK'
    BY <1>4, <1>a, <2>2 DEF Dispatch, RegisterRequest, BrokerTypeOK
  <2>. QED BY <1>4, <1>a, <2>5, <2>6, GroupsKept DEF Dispatch, TypeOK
<1>5. CASE WriteRequest(a)
  <2>1. pc' \in [Ask -> AskPc] /\ reply' \in [Ask -> Reply]
    BY <1>5, <1>a, <1>o, <1>p, AskMoves DEF WriteRequest, AskTypeOK
  <2>2. AskTypeOK'
    BY <1>5, <1>a, <2>1 DEF WriteRequest, AskTypeOK
  <2>3. toDevice' \in [Conn -> Seq(Ask)]
    <3>1. toDevice \in [Conn -> Seq(Ask)]
      BY <1>a DEF DeviceTypeOK
    <3>2. \/ UNCHANGED toDevice
          \/ toDevice' = [toDevice EXCEPT ![via[a]] = Append(@, a)]
      BY <1>5 DEF WriteRequest
    <3>3. via[a] \in Conn => Append(toDevice[via[a]], a) \in Seq(Ask)
      BY <3>1
    <3>. QED BY <3>1, <3>2, <3>3
  <2>4. DeviceTypeOK'
    BY <1>5, <1>a, <2>3 DEF WriteRequest, DeviceTypeOK
  <2>. QED BY <1>5, <1>a, <2>2, <2>4, GroupsKept DEF WriteRequest, TypeOK
<1>6. CASE TakeResult(a)
  <2>1. result[a] \in Reply
    BY <1>6, <1>a, ReplyValues DEF TakeResult, BrokerTypeOK
  <2>2. pc' \in [Ask -> AskPc] /\ reply' \in [Ask -> Reply]
    BY <1>6, <1>a, <1>p, <2>1, AskMoves DEF TakeResult
  <2>3. AskTypeOK'
    BY <1>6, <1>a, <2>2 DEF TakeResult, AskTypeOK
  <2>. QED BY <1>6, <1>a, <2>3, GroupsKept DEF TakeResult, TypeOK
<1>7. CASE ContextDone(a)
  <2>1. pc' \in [Ask -> AskPc] /\ reply' \in [Ask -> Reply]
    BY <1>7, <1>a, <1>o, <1>p, AskMoves DEF ContextDone
  <2>2. AskTypeOK'
    BY <1>7, <1>a, <2>1 DEF ContextDone, AskTypeOK
  <2>. QED BY <1>7, <1>a, <2>2, GroupsKept DEF ContextDone, TypeOK
<1>8. CASE Cleanup(a)
  <2>1. pc' \in [Ask -> AskPc]
    BY <1>8, <1>a, <1>p, AskMoves DEF Cleanup
  <2>2. AskTypeOK'
    BY <1>8, <1>a, <2>1 DEF Cleanup, AskTypeOK
  <2>3. BrokerTypeOK'
    BY <1>8, <1>a DEF Cleanup, UnregisterRequest, BrokerTypeOK
  <2>. QED BY <1>8, <1>a, <2>2, <2>3, GroupsKept DEF Cleanup, TypeOK
<1>9. CASE UpdateRequest(a)
  <2>1. pc' \in [Ask -> AskPc]
    BY <1>9, <1>a, <1>p, AskMoves DEF UpdateRequest
  <2>2. AskTypeOK'
    BY <1>9, <1>a, <2>1 DEF UpdateRequest, AskTypeOK
  <2>3. StoreTypeOK'
    BY <1>9, <1>a DEF UpdateRequest, StoreTypeOK
  <2>. QED BY <1>9, <1>a, <2>2, <2>3, GroupsKept DEF UpdateRequest, TypeOK
<1>10. CASE RequesterGone(a)
  <2>1. AskTypeOK'
    BY <1>10, <1>a DEF RequesterGone, AskTypeOK
  <2>. QED BY <1>10, <1>a, <2>1, GroupsKept DEF RequesterGone, TypeOK
<1>. QED BY <1>1, <1>2, <1>3, <1>4, <1>5, <1>6, <1>7, <1>8, <1>9, <1>10 DEF AskStep

\* TypeOK alone is not inductive: a handler that delivers holds a match.
HeldOK == \A c \in Conn : handler[c] = "deliver" => held[c] # None

\* A step of a provider handler keeps the types.
LEMMA HandlerStepTypeOK ==
    ASSUME TypeOK, HeldOK, NEW c \in Conn, HandlerStep(c)
    PROVE  TypeOK'
<1>a. /\ AskTypeOK /\ StoreTypeOK /\ BrokerTypeOK /\ DeviceTypeOK /\ HandlerTypeOK
      /\ restarts \in 0..MaxRestarts /\ AgentOfConn[c] \in Agent
  BY BrokerAssumption DEF TypeOK, BrokerAssumption
<1>s. \A from, to : Step(c, from, to) /\ to \in HandlerPc => handler' \in [Conn -> HandlerPc]
  BY <1>a DEF Step, HandlerTypeOK
<1>p. /\ "replacing" \in HandlerPc /\ "marking" \in HandlerPc /\ "reading" \in HandlerPc
      /\ "deliver" \in HandlerPc /\ "leaving" \in HandlerPc /\ "detached" \in HandlerPc
      /\ "done" \in HandlerPc
  BY DEF HandlerPc
<1>l. \A d \in Conn : Close(d) => /\ link' \in [Conn -> {"none", "up", "lost", "closed"}]
                                 /\ toHost' \in [Conn -> Seq(Frame)]
  <2> SUFFICES ASSUME NEW d \in Conn, Close(d)
               PROVE  /\ link' \in [Conn -> {"none", "up", "lost", "closed"}]
                      /\ toHost' \in [Conn -> Seq(Frame)]
    OBVIOUS
  <2>1. link \in [Conn -> {"none", "up", "lost", "closed"}] /\ toHost \in [Conn -> Seq(Frame)]
    BY <1>a DEF DeviceTypeOK
  <2>2. <<>> \in Seq(Frame)
    OBVIOUS
  <2>. QED BY <2>1, <2>2 DEF Close
<1>o. \A s \in {"online", "offline"} :
        SetAgentOnline(AgentOfConn[c], s) => agents' \in [Agent -> {"absent", "offline", "online"}]
  BY <1>a DEF SetAgentOnline, StoreTypeOK
<1>1. CASE Attach(c)
  <2>1. handler' \in [Conn -> HandlerPc]
    BY <1>1, <1>s, <1>p DEF Attach
  <2>2. HandlerTypeOK'
    BY <1>1, <1>a, <2>1 DEF Attach, HandlerTypeOK, BrokerTypeOK
  <2>3. BrokerTypeOK'
    BY <1>1, <1>a DEF Attach, AttachProvider, BrokerTypeOK
  <2>. QED BY <1>1, <1>a, <2>2, <2>3, GroupsKept DEF Attach, TypeOK
<1>2. CASE UpgradeFails(c)
  <2>1. handler' \in [Conn -> HandlerPc]
    BY <1>2, <1>s, <1>p DEF UpgradeFails
  <2>2. HandlerTypeOK'
    BY <1>2, <1>a, <2>1 DEF UpgradeFails, HandlerTypeOK
  <2>. QED BY <1>2, <1>a, <2>2, GroupsKept DEF UpgradeFails, TypeOK
<1>3. CASE CloseReplaced(c)
  <2>1. handler' \in [Conn -> HandlerPc]
    BY <1>3, <1>s, <1>p DEF CloseReplaced
  <2>2. HandlerTypeOK'
    BY <1>3, <1>a, <2>1 DEF CloseReplaced, HandlerTypeOK
  <2>3. replaced[c] \in Conn \cup {None}
    BY <1>a DEF HandlerTypeOK
  <2>4. link' \in [Conn -> {"none", "up", "lost", "closed"}] /\ toHost' \in [Conn -> Seq(Frame)]
    <3>1. CASE replaced[c] = None
      BY <1>3, <1>a, <3>1 DEF CloseReplaced, DeviceTypeOK
    <3>2. CASE replaced[c] # None
      BY <1>3, <1>l, <2>3, <3>2 DEF CloseReplaced
    <3>. QED BY <3>1, <3>2
  <2>5. DeviceTypeOK'
    BY <1>3, <1>a, <2>4 DEF CloseReplaced, DeviceTypeOK
  <2>. QED BY <1>3, <1>a, <2>2, <2>5, GroupsKept DEF CloseReplaced, TypeOK
<1>4. CASE MarkOnline(c)
  <2>1. handler' \in [Conn -> HandlerPc]
    BY <1>4, <1>s, <1>p DEF MarkOnline
  <2>2. HandlerTypeOK'
    BY <1>4, <1>a, <2>1 DEF MarkOnline, HandlerTypeOK
  <2>3. StoreTypeOK'
    BY <1>4, <1>a, <1>o DEF MarkOnline, StoreTypeOK
  <2>. QED BY <1>4, <1>a, <2>2, <2>3, GroupsKept DEF MarkOnline, TypeOK
<1>5. CASE ReadFails(c)
  <2>1. handler' \in [Conn -> HandlerPc]
    BY <1>5, <1>s, <1>p DEF ReadFails
  <2>2. HandlerTypeOK'
    BY <1>5, <1>a, <2>1 DEF ReadFails, HandlerTypeOK
  <2>. QED BY <1>5, <1>a, <2>2, GroupsKept DEF ReadFails, TypeOK
<1>6. CASE Receive(c)
  <2> DEFINE f == Head(toHost[c])
  <2>1. f \in Frame /\ Tail(toHost[c]) \in Seq(Frame)
    BY <1>6, <1>a DEF Receive, DeviceTypeOK
  <2>2. f.of \in Ask /\ IdOf[f.of] \in RequestId
    BY <2>1, BrokerAssumption DEF Frame, BrokerAssumption
  <2>3. Matches(f.of) => pending[IdOf[f.of]].replyTo \in Ask
    BY <2>2 DEF Matches
  <2>4. Matches(f.of) => [to |-> pending[IdOf[f.of]].replyTo,
                          payload |-> [kind |-> Normalized(f.kind), of |-> f.of]] \in Match
    BY <2>1, <2>3, MatchValues
  <2>5. handler' \in [Conn -> HandlerPc]
    BY <1>6, <1>s, <1>p DEF Receive
  <2>6. held' \in [Conn -> Match \cup {None}]
    BY <1>6, <1>a, <2>4 DEF Receive, HandlerTypeOK
  <2>7. HandlerTypeOK'
    BY <1>6, <1>a, <2>5, <2>6 DEF Receive, HandlerTypeOK
  <2>8. toHost' \in [Conn -> Seq(Frame)]
    BY <1>6, <1>a, <2>1 DEF Receive, DeviceTypeOK
  <2>9. DeviceTypeOK'
    BY <1>6, <1>a, <2>8 DEF Receive, DeviceTypeOK
  <2>. QED BY <1>6, <1>a, <2>7, <2>9, GroupsKept DEF Receive, TypeOK
<1>7. CASE Deliver(c)
  <2>1. handler' \in [Conn -> HandlerPc]
    BY <1>7, <1>s, <1>p DEF Deliver
  <2>2. HandlerTypeOK'
    BY <1>7, <1>a, <2>1 DEF Deliver, HandlerTypeOK
  <2>3. held[c].to \in Ask /\ held[c].payload \in Payload
    BY <1>7, <1>a DEF Deliver, Step, HeldOK, HandlerTypeOK, Match
  <2>4. BrokerTypeOK'
    BY <1>7, <1>a, <2>3 DEF Deliver, Offer, BrokerTypeOK
  <2>. QED BY <1>7, <1>a, <2>2, <2>4, GroupsKept DEF Deliver, TypeOK
<1>8. CASE Detach(c)
  <2>1. handler' \in [Conn -> HandlerPc]
    BY <1>8, <1>s, <1>p DEF Detach
  <2>2. HandlerTypeOK'
    BY <1>8, <1>a, <2>1 DEF Detach, HandlerTypeOK
  <2>3. BrokerTypeOK'
    BY <1>8, <1>a, ReplyValues DEF Detach, DetachProvider, BrokerTypeOK
  <2>. QED BY <1>8, <1>a, <2>2, <2>3, GroupsKept DEF Detach, TypeOK
<1>9. CASE MarkOffline(c)
  <2>1. handler' \in [Conn -> HandlerPc]
    BY <1>9, <1>s, <1>p DEF MarkOffline
  <2>2. HandlerTypeOK'
    BY <1>9, <1>a, <2>1 DEF MarkOffline, HandlerTypeOK
  <2>3. StoreTypeOK'
    BY <1>9, <1>a, <1>o DEF MarkOffline, StoreTypeOK
  <2>4. DeviceTypeOK'
    BY <1>9, <1>a, <1>l DEF MarkOffline, DeviceTypeOK
  <2>. QED BY <1>9, <1>a, <2>2, <2>3, <2>4, GroupsKept DEF MarkOffline, TypeOK
<1>. QED BY <1>1, <1>2, <1>3, <1>4, <1>5, <1>6, <1>7, <1>8, <1>9 DEF HandlerStep

\* A step of a device, the network or the store keeps the types.
LEMMA DeviceStepTypeOK ==
    ASSUME TypeOK, NEW c \in Conn,
           DeviceStep(c) \/ Connect(c) \/ PathLost(c) \/ DeviceStops(c)
    PROVE  TypeOK'
<1>a. /\ AskTypeOK /\ StoreTypeOK /\ BrokerTypeOK /\ DeviceTypeOK /\ HandlerTypeOK
      /\ restarts \in 0..MaxRestarts
  BY DEF TypeOK
<1>b. /\ link \in [Conn -> {"none", "up", "lost", "closed"}]
      /\ toDevice \in [Conn -> Seq(Ask)] /\ toHost \in [Conn -> Seq(Frame)]
      /\ busy \in [Conn -> Ask \cup {None}]
      /\ session \in [Conn -> {"none", "running", "ended"}]
  BY <1>a DEF DeviceTypeOK
<1>e. EndSession(c) => /\ session' \in [Conn -> {"none", "running", "ended"}]
                       /\ toDevice' \in [Conn -> Seq(Ask)]
  BY <1>b DEF EndSession
<1>1. CASE DeviceTake(c)
  <2>1. Head(toDevice[c]) \in Ask /\ Tail(toDevice[c]) \in Seq(Ask)
    BY <1>1, <1>b DEF DeviceTake
  <2>2. DeviceTypeOK'
    BY <1>1, <1>a, <2>1 DEF DeviceTake, DeviceTypeOK
  <2>. QED BY <1>1, <1>a, <2>2, GroupsKept DEF DeviceTake, TypeOK
<1>2. CASE DeviceReply(c)
  <2>1. \A k \in ReplyKind : Append(toHost[c], [kind |-> k, of |-> busy[c]]) \in Seq(Frame)
    <3> SUFFICES ASSUME NEW k \in ReplyKind
                 PROVE  Append(toHost[c], [kind |-> k, of |-> busy[c]]) \in Seq(Frame)
      OBVIOUS
    <3>1. [kind |-> k, of |-> busy[c]] \in Frame
      BY <1>2, <1>b DEF DeviceReply, Frame
    <3>. QED BY <1>b, <3>1
  <2>2. toHost' \in [Conn -> Seq(Frame)]
    BY <1>2, <1>b, <2>1 DEF DeviceReply
  <2>3. session' \in [Conn -> {"none", "running", "ended"}] /\ toDevice' \in [Conn -> Seq(Ask)]
    BY <1>2, <1>b, <1>e DEF DeviceReply
  <2>4. DeviceTypeOK'
    BY <1>2, <1>a, <2>2, <2>3 DEF DeviceReply, DeviceTypeOK
  <2>. QED BY <1>2, <1>a, <2>4, GroupsKept DEF DeviceReply, TypeOK
<1>3. CASE DeviceReadFails(c)
  <2>1. DeviceTypeOK'
    BY <1>3, <1>a, <1>e DEF DeviceReadFails, DeviceTypeOK
  <2>. QED BY <1>3, <1>a, <2>1, GroupsKept DEF DeviceReadFails, TypeOK
<1>4. CASE Connect(c)
  <2>1. DeviceTypeOK'
    BY <1>4, <1>a DEF Connect, DeviceTypeOK
  <2>2. HandlerTypeOK'
    BY <1>4, <1>a DEF Connect, Step, HandlerTypeOK, HandlerPc
  <2>. QED BY <1>4, <1>a, <2>1, <2>2, GroupsKept DEF Connect, TypeOK
<1>5. CASE PathLost(c)
  <2>1. DeviceTypeOK'
    BY <1>5, <1>a DEF PathLost, DeviceTypeOK
  <2>. QED BY <1>5, <1>a, <2>1, GroupsKept DEF PathLost, TypeOK
<1>6. CASE DeviceStops(c)
  <2>1. DeviceTypeOK'
    BY <1>6, <1>a, <1>e DEF DeviceStops, DeviceTypeOK
  <2>. QED BY <1>6, <1>a, <2>1, GroupsKept DEF DeviceStops, TypeOK
<1>. QED BY <1>1, <1>2, <1>3, <1>4, <1>5, <1>6 DEF DeviceStep

LEMMA RemoveAgentTypeOK ==
    ASSUME TypeOK, NEW g \in Agent, RemoveAgent(g)
    PROVE  TypeOK'
<1>1. StoreTypeOK'
  BY DEF TypeOK, RemoveAgent, StoreTypeOK
<1>. QED BY <1>1, GroupsKept DEF RemoveAgent, TypeOK

LEMMA RestartTypeOK ==
    ASSUME TypeOK, Restart
    PROVE  TypeOK'
<1>a. AskTypeOK /\ DeviceTypeOK /\ HandlerTypeOK
  BY DEF TypeOK
<1>1. BrokerTypeOK'
  BY DEF Restart, BrokerTypeOK
<1>2. AskTypeOK'
  BY <1>a DEF Restart, AskTypeOK, AskPc
<1>3. HandlerTypeOK'
  BY <1>a DEF Restart, HandlerTypeOK, HandlerPc
<1>4. DeviceTypeOK'
  BY <1>a DEF Restart, DeviceTypeOK
<1>5. restarts' \in 0..MaxRestarts
  BY HostAssumption DEF HostAssumption, TypeOK, Restart
<1>. QED BY <1>1, <1>2, <1>3, <1>4, <1>5, GroupsKept DEF Restart, TypeOK

\* No step leaves a delivering handler without a match.
LEMMA HeldStep ==
    ASSUME TypeOK, HeldOK, [Next]_vars
    PROVE  HeldOK'
<1>a. handler \in [Conn -> HandlerPc] /\ held \in [Conn -> Match \cup {None}] /\ None \notin Match
  BY HostAssumption DEF TypeOK, HandlerTypeOK, HostAssumption, Match
<1>1. ASSUME NEW c \in Conn, Receive(c) PROVE HeldOK'
  <2> DEFINE f == Head(toHost[c])
             m == [to |-> pending[IdOf[f.of]].replyTo,
                   payload |-> [kind |-> Normalized(f.kind), of |-> f.of]]
  <2>1. f \in Frame
    BY <1>1 DEF Receive, TypeOK, DeviceTypeOK
  <2>2. Matches(f.of) => pending[IdOf[f.of]].replyTo \in Ask
    BY <2>1 DEF Matches, Frame
  <2>3. Matches(f.of) => m # None
    BY <2>1, <2>2, <1>a, MatchValues
  <2>4. \/ Matches(f.of) /\ held' = [held EXCEPT ![c] = m] /\ Step(c, "reading", "deliver")
        \/ Step(c, "reading", "leaving") /\ UNCHANGED held
    BY <1>1 DEF Receive
  <2>. QED BY <1>a, <2>3, <2>4 DEF HeldOK, Step
<1>2. ASSUME NEW c \in Conn, Deliver(c) PROVE HeldOK'
  BY <1>2, <1>a DEF HeldOK, Deliver, Step
<1>3. ASSUME NEW c \in Conn,
             \/ Attach(c) \/ UpgradeFails(c) \/ CloseReplaced(c) \/ MarkOnline(c)
             \/ ReadFails(c) \/ Detach(c) \/ MarkOffline(c) \/ Connect(c)
      PROVE HeldOK'
  BY <1>3, <1>a DEF HeldOK, Step, Attach, UpgradeFails, CloseReplaced, MarkOnline,
     ReadFails, Detach, MarkOffline, Connect
<1>4. ASSUME UNCHANGED handlerVars PROVE HeldOK'
  BY <1>4 DEF HeldOK, handlerVars
<1>5. CASE Restart
  BY <1>5, <1>a DEF HeldOK, Restart
<1>. QED
  BY <1>1, <1>2, <1>3, <1>4, <1>5
     DEF Next, AskStep, HandlerStep, DeviceStep, vars, CheckAgent, CreateRequest, LoadIdentity,
         Dispatch, WriteRequest, TakeResult, ContextDone, Cleanup, UpdateRequest, RequesterGone,
         DeviceTake, DeviceReply, DeviceReadFails, PathLost, DeviceStops, RemoveAgent

\* The types hold in every reachable state.
THEOREM TypeCorrect == Spec => [](TypeOK /\ HeldOK)
<1>1. Init => TypeOK /\ HeldOK
  BY InitTypeOK DEF Init, HeldOK
<1>2. TypeOK /\ HeldOK /\ [Next]_vars => (TypeOK /\ HeldOK)'
  <2> SUFFICES ASSUME TypeOK, HeldOK, [Next]_vars PROVE TypeOK' /\ HeldOK'
    OBVIOUS
  <2>1. HeldOK'
    BY HeldStep
  <2>2. CASE UNCHANGED vars
    <3>1. /\ UNCHANGED brokerVars /\ UNCHANGED storeVars /\ UNCHANGED askVars
          /\ UNCHANGED handlerVars /\ UNCHANGED deviceVars /\ UNCHANGED restarts
      BY <2>2 DEF vars
    <3>. QED BY <2>1, <3>1, GroupsKept DEF TypeOK
  <2>3. ASSUME NEW a \in Ask, AskStep(a) \/ RequesterGone(a) PROVE TypeOK'
    BY <2>3, AskStepTypeOK
  <2>4. ASSUME NEW c \in Conn, HandlerStep(c) PROVE TypeOK'
    BY <2>4, HandlerStepTypeOK
  <2>5. ASSUME NEW c \in Conn, DeviceStep(c) \/ Connect(c) \/ PathLost(c) \/ DeviceStops(c)
        PROVE  TypeOK'
    BY <2>5, DeviceStepTypeOK
  <2>6. ASSUME NEW g \in Agent, RemoveAgent(g) PROVE TypeOK'
    BY <2>6, RemoveAgentTypeOK
  <2>. QED BY <2>1, <2>2, <2>3, <2>4, <2>5, <2>6, RestartTypeOK DEF Next
<1>3. QED BY <1>1, <1>2, PTL DEF Spec

\* The type invariant, for the runs that check it.
THEOREM TypeInvariant == Spec => []TypeOK
  BY TypeCorrect, PTL

-----------------------------------------------------------------------------
(* Rows: a request ID is taken once in its Project, and its row runs until *)
(* the handler that took it updates it.                                    *)

Active == {"identity", "dispatch", "write", "wait", "cleanup", "update"}

RowInv ==
    /\ \A a \in Ask : pc[a] \in Active => a \in accepted /\ requests[Key(a)] = "running"
    /\ \A a \in Ask : pc[a] \in {"idle", "create"} => a \notin accepted
    /\ \A a \in accepted : requests[Key(a)] # "none"
    /\ \A a, b \in accepted : Key(a) = Key(b) => a = b

LEMMA KeyType == \A a \in Ask : Key(a) \in RequestKey
  BY BrokerAssumption, HostAssumption DEF BrokerAssumption, HostAssumption, Key, RequestKey

\* What a step does to the variables RowInv is about.
LEMMA RowChanges ==
    ASSUME [Next]_vars
    PROVE  \/ UNCHANGED <<pc, accepted, requests>>
           \/ \E a \in Ask : CreateRequest(a) \/ UpdateRequest(a)
           \/ /\ UNCHANGED <<accepted, requests>>
              /\ \E a \in Ask : \E from \in AskPc, to \in AskPc :
                   /\ Goto(a, from, to)
                   /\ from \notin {"create", "update"}
                   /\ from = "idle" => to \in {"create", "done"}
                   /\ from # "idle" => from \in Active /\ to \in Active \cup {"done"}
           \/ Restart
<1>1. ASSUME NEW a \in Ask, CheckAgent(a) \/ LoadIdentity(a) \/ Dispatch(a) \/ WriteRequest(a)
                         \/ TakeResult(a) \/ ContextDone(a) \/ Cleanup(a)
      PROVE  /\ UNCHANGED <<accepted, requests>>
             /\ \E from \in AskPc, to \in AskPc :
                   /\ Goto(a, from, to)
                   /\ from \notin {"create", "update"}
                   /\ from = "idle" => to \in {"create", "done"}
                   /\ from # "idle" => from \in Active /\ to \in Active \cup {"done"}
  BY <1>1 DEF CheckAgent, LoadIdentity, Dispatch, WriteRequest, TakeResult, ContextDone, Cleanup,
     Return, AskPc, Active, storeVars
<1>2. ASSUME NEW a \in Ask, RequesterGone(a)
      PROVE  UNCHANGED <<pc, accepted, requests>>
  BY <1>2 DEF RequesterGone, storeVars
<1>3. ASSUME NEW c \in Conn,
             HandlerStep(c) \/ DeviceStep(c) \/ Connect(c) \/ PathLost(c) \/ DeviceStops(c)
      PROVE  UNCHANGED <<pc, accepted, requests>>
  BY <1>3 DEF HandlerStep, DeviceStep, Attach, UpgradeFails, CloseReplaced, MarkOnline, ReadFails,
     Receive, Deliver, Detach, MarkOffline, DeviceTake, DeviceReply, DeviceReadFails, Connect,
     PathLost, DeviceStops, storeVars, askVars
<1>4. ASSUME NEW g \in Agent, RemoveAgent(g)
      PROVE  UNCHANGED <<pc, accepted, requests>>
  BY <1>4 DEF RemoveAgent, askVars
<1>5. CASE UNCHANGED vars
  BY <1>5 DEF vars, storeVars, askVars
<1>. QED BY <1>1, <1>2, <1>3, <1>4, <1>5 DEF Next, AskStep

LEMMA RowStep ==
    ASSUME TypeOK, RowInv, [Next]_vars
    PROVE  RowInv'
<1>a. /\ pc \in [Ask -> AskPc] /\ accepted \in SUBSET Ask
      /\ requests \in [RequestKey -> {"none", "running", "succeeded", "failed"}]
  BY DEF TypeOK, AskTypeOK, StoreTypeOK
<1>k. \A a \in Ask : Key(a)' = Key(a)
  BY DEF Key
<1>1. CASE UNCHANGED <<pc, accepted, requests>>
  BY <1>1 DEF RowInv, Key
<1>2. ASSUME NEW a \in Ask, CreateRequest(a) PROVE RowInv'
  <2>1. CASE /\ requests[Key(a)] = "none" /\ requests' = [requests EXCEPT ![Key(a)] = "running"]
             /\ accepted' = accepted \cup {a} /\ Goto(a, "create", "identity")
    BY <2>1, <1>a, <1>k, KeyType DEF RowInv, Goto, Active
  <2>2. CASE Return(a, "create", "request_failed") /\ UNCHANGED <<requests, accepted>>
    BY <2>2, <1>a, <1>k DEF RowInv, Return, Goto, Active
  <2>. QED BY <1>2, <2>1, <2>2 DEF CreateRequest
<1>3. ASSUME NEW a \in Ask, UpdateRequest(a) PROVE RowInv'
  <2>1. /\ Goto(a, "update", "done") /\ UNCHANGED accepted
        /\ \E s \in {"succeeded", "failed"} : requests' = [requests EXCEPT ![Key(a)] = s]
    BY <1>3 DEF UpdateRequest
  <2>2. a \in accepted
    BY <2>1 DEF RowInv, Goto, Active
  <2>. QED BY <2>1, <2>2, <1>a, <1>k, KeyType DEF RowInv, Goto, Active
<1>4. ASSUME UNCHANGED <<accepted, requests>>,
             NEW a \in Ask, NEW from \in AskPc, NEW to \in AskPc, Goto(a, from, to),
             from \notin {"create", "update"},
             from = "idle" => to \in {"create", "done"},
             from # "idle" => from \in Active /\ to \in Active \cup {"done"}
      PROVE  RowInv'
  BY <1>4, <1>a, <1>k DEF RowInv, Goto, Active
<1>5. CASE Restart
  BY <1>5, <1>a, <1>k DEF RowInv, Restart, Active, storeVars
<1>. QED BY <1>1, <1>2, <1>3, <1>4, <1>5, RowChanges

THEOREM RowsCorrect == Spec => []RowInv
<1>1. Init => RowInv
  BY DEF Init, RowInv, Active
<1>2. TypeOK /\ RowInv /\ [Next]_vars => RowInv'
  BY RowStep
<1>. QED BY <1>1, <1>2, TypeInvariant, PTL DEF Spec

\* A row that reached succeeded or failed keeps its status for ever, although
\* Store.UpdateRequest overwrites whatever is there.
THEOREM TerminalRows == Spec => TerminalIsFinal
<1>1. ASSUME TypeOK, RowInv, [Next]_vars, NEW k \in RequestKey,
             requests[k] \in {"succeeded", "failed"}
      PROVE  requests'[k] = requests[k]
  <2>1. ASSUME NEW a \in Ask, CreateRequest(a) PROVE requests'[k] = requests[k]
    BY <1>1, <2>1 DEF CreateRequest, TypeOK, StoreTypeOK
  <2>2. ASSUME NEW a \in Ask, UpdateRequest(a) PROVE requests'[k] = requests[k]
    <3>1. requests[Key(a)] = "running"
      BY <1>1, <2>2 DEF UpdateRequest, Goto, RowInv, Active
    <3>. QED BY <1>1, <2>2, <3>1 DEF UpdateRequest, TypeOK, StoreTypeOK
  <2>. QED BY <1>1, <2>1, <2>2, RowChanges DEF Restart, storeVars
<1>2. TypeOK /\ RowInv /\ [Next]_vars =>
        [\A k \in RequestKey : requests[k] \in {"succeeded", "failed"} => requests'[k] = requests[k]]_vars
  BY <1>1
<1>. QED BY <1>2, TypeInvariant, RowsCorrect, PTL DEF Spec, TerminalIsFinal

-----------------------------------------------------------------------------
(* Waiting: as long as request IDs are not shared across Projects, an ask  *)
(* in dispatch owns the pending entry of its ID, so that a detach reaches  *)
(* its channel.                                                            *)

IdsPerProject ==
    \A a, b \in Ask : IdOf[a] = IdOf[b] => ProjectOf[AgentOf[a]] = ProjectOf[AgentOf[b]]

WaitInv ==
    /\ \A a \in Ask : pc[a] \in {"write", "wait"} => WaitsOn(a, AgentOf[a])
    /\ NoOrphanedWaiter

\* What a step does to the variables WaitInv is about.
LEMMA WaitChanges ==
    ASSUME [Next]_vars
    PROVE  \/ UNCHANGED <<pc, pending, providers, result>>
           \/ \E a \in Ask : Dispatch(a) \/ Cleanup(a)
           \/ /\ UNCHANGED <<pending, providers, result>>
              /\ \E a \in Ask, from \in AskPc, to \in AskPc :
                   Goto(a, from, to) /\ (to \in {"write", "wait"} => from = "write")
           \/ \E c \in Conn : Attach(c) \/ Detach(c) \/ Deliver(c)
           \/ Restart
<1>1. ASSUME NEW a \in Ask,
             \/ CheckAgent(a) \/ CreateRequest(a) \/ LoadIdentity(a) \/ WriteRequest(a)
             \/ TakeResult(a) \/ ContextDone(a) \/ UpdateRequest(a)
      PROVE  /\ UNCHANGED <<pending, providers, result>>
             /\ \E from \in AskPc, to \in AskPc :
                  Goto(a, from, to) /\ (to \in {"write", "wait"} => from = "write")
  BY <1>1 DEF CheckAgent, CreateRequest, LoadIdentity, WriteRequest, TakeResult, ContextDone,
     UpdateRequest, Return, AskPc, brokerVars
<1>2. ASSUME NEW a \in Ask, RequesterGone(a)
      PROVE  UNCHANGED <<pc, pending, providers, result>>
  BY <1>2 DEF RequesterGone, brokerVars
<1>3. ASSUME NEW c \in Conn,
             \/ UpgradeFails(c) \/ CloseReplaced(c) \/ MarkOnline(c) \/ ReadFails(c) \/ Receive(c)
             \/ MarkOffline(c) \/ DeviceStep(c) \/ Connect(c) \/ PathLost(c) \/ DeviceStops(c)
      PROVE  UNCHANGED <<pc, pending, providers, result>>
  BY <1>3 DEF DeviceStep, UpgradeFails, CloseReplaced, MarkOnline, ReadFails, Receive, MarkOffline,
     DeviceTake, DeviceReply, DeviceReadFails, Connect, PathLost, DeviceStops, brokerVars, askVars
<1>4. ASSUME NEW g \in Agent, RemoveAgent(g)
      PROVE  UNCHANGED <<pc, pending, providers, result>>
  BY <1>4 DEF RemoveAgent, brokerVars, askVars
<1>5. CASE UNCHANGED vars
  BY <1>5 DEF vars, brokerVars, askVars
<1>. QED BY <1>1, <1>2, <1>3, <1>4, <1>5 DEF Next, AskStep, HandlerStep

\* Two asks in dispatch never share an entry of the pending map.
LEMMA DistinctEntries ==
    ASSUME IdsPerProject, RowInv, NEW a \in Ask, NEW b \in Ask,
           pc[a] \in Active, pc[b] \in Active, IdOf[a] = IdOf[b]
    PROVE  a = b
<1>1. a \in accepted /\ b \in accepted
  BY DEF RowInv
<1>2. Key(a) = Key(b)
  BY DEF Key, IdsPerProject
<1>. QED BY <1>1, <1>2 DEF RowInv

LEMMA WaitStep ==
    ASSUME IdsPerProject, TypeOK, RowInv, WaitInv, [Next]_vars
    PROVE  WaitInv'
<1>a. /\ pc \in [Ask -> AskPc] /\ pending \in [RequestId -> Entry \cup {None}]
      /\ providers \in [Agent -> Conn \cup {None}] /\ result \in [Ask -> Payload \cup {Empty}]
  BY DEF TypeOK, AskTypeOK, BrokerTypeOK
<1>b. /\ \A a \in Ask : IdOf[a] \in RequestId /\ AgentOf[a] \in Agent
      /\ \A c \in Conn : AgentOfConn[c] \in Agent /\ c # None
  BY BrokerAssumption DEF BrokerAssumption
<1>c. {"dispatch", "write", "wait", "cleanup"} \subseteq Active
  BY DEF Active
<1>1. CASE UNCHANGED <<pc, pending, providers, result>>
  BY <1>1 DEF WaitInv, WaitsOn, NoOrphanedWaiter
<1>2. ASSUME NEW a \in Ask, Dispatch(a) PROVE WaitInv'
  <2>1. CASE RegisterRequest(a) /\ Goto(a, "dispatch", "write") /\ UNCHANGED <<providers, result>>
    <3>1. ASSUME NEW b \in Ask, pc'[b] \in {"write", "wait"} PROVE WaitsOn(b, AgentOf[b])'
      <4>1. CASE b = a
        BY <2>1, <4>1, <1>a, <1>b DEF RegisterRequest, WaitsOn
      <4>2. CASE b # a
        <5>1. pc[b] \in {"write", "wait"} /\ pc[a] = "dispatch"
          BY <2>1, <3>1, <4>2, <1>a DEF Goto
        <5>2. IdOf[b] # IdOf[a]
          BY <5>1, <4>2, <1>c, DistinctEntries
        <5>. QED BY <2>1, <5>1, <5>2, <1>a, <1>b DEF RegisterRequest, WaitsOn, WaitInv
      <4>. QED BY <4>1, <4>2
    <3>2. NoOrphanedWaiter'
      BY <2>1, <1>a DEF RegisterRequest, Goto, WaitInv, NoOrphanedWaiter
    <3>. QED BY <3>1, <3>2 DEF WaitInv
  <2>2. CASE UNCHANGED <<pending, providers, result>> /\ Goto(a, "dispatch", "update")
    BY <2>2, <1>a DEF Goto, WaitInv, WaitsOn, NoOrphanedWaiter
  <2>. QED BY <1>2, <2>1, <2>2 DEF Dispatch
<1>3. ASSUME NEW a \in Ask, Cleanup(a) PROVE WaitInv'
  <2>1. /\ Goto(a, "cleanup", "update") /\ UNCHANGED <<providers, result>>
        /\ pending' = [pending EXCEPT ![IdOf[a]] = None]
    BY <1>3 DEF Cleanup, UnregisterRequest
  <2>2. ASSUME NEW b \in Ask, pc'[b] \in {"write", "wait"} PROVE WaitsOn(b, AgentOf[b])'
    <3>1. pc[b] \in {"write", "wait"} /\ pc[a] = "cleanup" /\ a # b
      BY <2>1, <2>2, <1>a DEF Goto
    <3>2. IdOf[b] # IdOf[a]
      BY <3>1, <1>c, DistinctEntries
    <3>. QED BY <2>1, <3>1, <3>2, <1>a, <1>b DEF WaitsOn, WaitInv
  <2>3. NoOrphanedWaiter'
    BY <2>1, <1>a DEF Goto, WaitInv, NoOrphanedWaiter
  <2>. QED BY <2>2, <2>3 DEF WaitInv
<1>4. ASSUME UNCHANGED <<pending, providers, result>>,
             NEW a \in Ask, NEW from \in AskPc, NEW to \in AskPc, Goto(a, from, to),
             to \in {"write", "wait"} => from = "write"
      PROVE  WaitInv'
  BY <1>4, <1>a DEF Goto, WaitInv, WaitsOn, NoOrphanedWaiter
<1>5. ASSUME NEW c \in Conn, Attach(c) PROVE WaitInv'
  BY <1>5, <1>a, <1>b DEF Attach, AttachProvider, WaitInv, WaitsOn, NoOrphanedWaiter, askVars
<1>6. ASSUME NEW c \in Conn, Detach(c) PROVE WaitInv'
  <2>1. UNCHANGED <<pc, pending>>
    BY <1>6 DEF Detach, askVars
  <2>2. CASE UNCHANGED <<providers, result>>
    BY <2>1, <2>2 DEF WaitInv, WaitsOn, NoOrphanedWaiter
  <2>3. CASE /\ providers' = [providers EXCEPT ![AgentOfConn[c]] = None]
             /\ result' = [a \in Ask |-> IF WaitsOn(a, AgentOfConn[c]) /\ result[a] = Empty
                                           THEN Disconnected ELSE result[a]]
    <3>1. ASSUME NEW a \in Ask, pc[a] \in {"write", "wait"}, providers'[AgentOf[a]] = None
          PROVE  result'[a] # Empty
      <4>1. WaitsOn(a, AgentOf[a])
        BY <3>1 DEF WaitInv
      <4>2. CASE AgentOf[a] = AgentOfConn[c]
        BY <2>3, <4>1, <4>2 DEF Disconnected, Empty
      <4>3. CASE AgentOf[a] # AgentOfConn[c]
        <5>1. providers[AgentOf[a]] = None
          BY <2>3, <3>1, <4>3, <1>a, <1>b
        <5>2. result[a] # Empty
          BY <3>1, <5>1 DEF WaitInv, NoOrphanedWaiter
        <5>. QED BY <2>3, <5>2 DEF Disconnected, Empty
      <4>. QED BY <4>2, <4>3
    <3>. QED BY <2>1, <3>1 DEF WaitInv, WaitsOn, NoOrphanedWaiter
  <2>. QED BY <1>6, <2>2, <2>3 DEF Detach, DetachProvider
<1>7. ASSUME NEW c \in Conn, Deliver(c) PROVE WaitInv'
  <2>1. UNCHANGED <<pc, pending, providers>>
    BY <1>7 DEF Deliver, askVars
  <2>2. \A a \in Ask : result[a] # Empty => result'[a] # Empty
    BY <1>7, <1>a DEF Deliver, Offer
  <2>. QED BY <2>1, <2>2 DEF WaitInv, WaitsOn, NoOrphanedWaiter
<1>8. CASE Restart
  BY <1>8, <1>a DEF Restart, WaitInv, NoOrphanedWaiter
<1>. QED BY <1>1, <1>2, <1>3, <1>4, <1>5, <1>6, <1>7, <1>8, WaitChanges

\* An ask in dispatch whose Agent no WebSocket serves has something to take
\* from its channel: no interleaving of dispatch, attach, detach and receive
\* leaves it to its deadline.
THEOREM WaitersAreTold == ASSUME IdsPerProject PROVE Spec => []NoOrphanedWaiter
<1>1. Init => WaitInv
  BY DEF Init, WaitInv, NoOrphanedWaiter
<1>2. TypeOK /\ RowInv /\ WaitInv /\ [Next]_vars => WaitInv'
  BY WaitStep
<1>3. WaitInv => NoOrphanedWaiter
  BY DEF WaitInv
<1>. QED BY <1>1, <1>2, <1>3, TypeInvariant, RowsCorrect, PTL DEF Spec

-----------------------------------------------------------------------------
(* Answers: what travels from a device to the reply of an ask is followed  *)
(* through every place that holds it.                                      *)

AnswerInv ==
    /\ \A c \in Conn : busy[c] # None => busy[c] \in executed
    /\ \A c \in Conn : \A i \in 1..Len(toHost[c]) : toHost[c][i].of \in executed
    /\ \A c \in Conn : held[c] # None =>
         held[c].to = held[c].payload.of /\ held[c].to \in executed
    /\ \A a \in Ask : result[a].kind \in Delivered => result[a].of = a /\ a \in executed
    /\ AnswersItsAsk

LEMMA KindFacts ==
    /\ \A code \in ReplyCode : Refusal(code).kind \notin Delivered
    /\ Disconnected.kind \notin Delivered
    /\ Empty.kind \notin Delivered
    /\ NoReply.kind \notin Delivered
  BY DEF Refusal, ReplyCode, Delivered, Disconnected, Empty, NoReply

LEMMA AnswerAskStep ==
    ASSUME TypeOK, AnswerInv, NEW a \in Ask, AskStep(a) \/ RequesterGone(a)
    PROVE  AnswerInv'
<1>a. reply \in [Ask -> Reply] /\ UNCHANGED <<busy, toHost, held, result, executed>>
  BY DEF TypeOK, AskTypeOK, AskStep, CheckAgent, CreateRequest, LoadIdentity, Dispatch, WriteRequest,
     TakeResult, ContextDone, Cleanup, UpdateRequest, RequesterGone, brokerVars, handlerVars, deviceVars
<1>b. \/ UNCHANGED reply
      \/ \E code \in ReplyCode : reply' = [reply EXCEPT ![a] = Refusal(code)]
      \/ reply' = [reply EXCEPT ![a] = result[a]]
  BY DEF AskStep, CheckAgent, CreateRequest, LoadIdentity, Dispatch, WriteRequest, TakeResult,
     ContextDone, Cleanup, UpdateRequest, RequesterGone, Return, ReplyCode
<1>c. AnswersItsAsk'
  <2>1. CASE UNCHANGED reply
    BY <1>a, <2>1 DEF AnswerInv, AnswersItsAsk
  <2>2. ASSUME NEW code \in ReplyCode, reply' = [reply EXCEPT ![a] = Refusal(code)]
        PROVE  AnswersItsAsk'
    BY <1>a, <2>2, KindFacts DEF AnswerInv, AnswersItsAsk
  <2>3. CASE reply' = [reply EXCEPT ![a] = result[a]]
    BY <1>a, <2>3 DEF AnswerInv, AnswersItsAsk
  <2>. QED BY <1>b, <2>1, <2>2, <2>3
<1>. QED BY <1>a, <1>c DEF AnswerInv

LEMMA AnswerReceive ==
    ASSUME TypeOK, AnswerInv, NEW c \in Conn, Receive(c)
    PROVE  AnswerInv'
<1> DEFINE f == Head(toHost[c])
           m == [to |-> pending[IdOf[f.of]].replyTo,
                 payload |-> [kind |-> Normalized(f.kind), of |-> f.of]]
<1>1. /\ toHost \in [Conn -> Seq(Frame)] /\ toHost[c] # <<>>
      /\ held \in [Conn -> Match \cup {None}]
  BY DEF Receive, TypeOK, DeviceTypeOK, HandlerTypeOK
<1>2. f.of \in executed
  BY <1>1 DEF AnswerInv
<1>3. /\ UNCHANGED <<busy, result, executed, reply>>
      /\ toHost' = [toHost EXCEPT ![c] = Tail(toHost[c])]
      /\ \/ UNCHANGED held
         \/ Matches(f.of) /\ held' = [held EXCEPT ![c] = m]
  BY DEF Receive, brokerVars, askVars
<1>4. \A d \in Conn : \A i \in 1..Len(toHost'[d]) : toHost'[d][i].of \in executed
  <2>1. ASSUME NEW i \in 1..Len(Tail(toHost[c])) PROVE Tail(toHost[c])[i].of \in executed
    <3>1. i + 1 \in 1..Len(toHost[c]) /\ Tail(toHost[c])[i] = toHost[c][i + 1]
      BY <1>1, <2>1
    <3>. QED BY <3>1 DEF AnswerInv
  <2>. QED BY <1>1, <1>3, <2>1 DEF AnswerInv
<1>5. Matches(f.of) => m.to = m.payload.of /\ m.to \in executed
  BY <1>2 DEF Matches
<1>6. \A d \in Conn : held'[d] # None =>
        held'[d].to = held'[d].payload.of /\ held'[d].to \in executed
  BY <1>1, <1>3, <1>5 DEF AnswerInv
<1>. QED BY <1>3, <1>4, <1>6 DEF AnswerInv, AnswersItsAsk

LEMMA AnswerHandlerStep ==
    ASSUME TypeOK, HeldOK, AnswerInv, NEW c \in Conn, HandlerStep(c)
    PROVE  AnswerInv'
<1>a. /\ toHost \in [Conn -> Seq(Frame)] /\ held \in [Conn -> Match \cup {None}]
      /\ result \in [Ask -> Payload \cup {Empty}]
  BY DEF TypeOK, DeviceTypeOK, HandlerTypeOK, BrokerTypeOK
<1>1. CASE Attach(c) \/ UpgradeFails(c) \/ MarkOnline(c) \/ ReadFails(c)
  BY <1>1 DEF Attach, UpgradeFails, MarkOnline, ReadFails, AnswerInv, AnswersItsAsk, brokerVars,
     askVars, deviceVars
<1>2. CASE CloseReplaced(c) \/ MarkOffline(c)
  <2>1. /\ UNCHANGED <<busy, executed, held, result, reply>>
        /\ (UNCHANGED toHost \/ \E d : toHost' = [toHost EXCEPT ![d] = <<>>])
    BY <1>2 DEF CloseReplaced, MarkOffline, Close, brokerVars, askVars
  <2>2. \A d \in Conn : \A i \in 1..Len(toHost'[d]) : toHost'[d][i].of \in executed
    BY <2>1, <1>a DEF AnswerInv
  <2>. QED BY <2>1, <2>2 DEF AnswerInv, AnswersItsAsk
<1>3. CASE Receive(c)
  BY <1>3, AnswerReceive
<1>4. CASE Deliver(c)
  <2>1. held[c] # None
    BY <1>4 DEF Deliver, Step, HeldOK
  <2>2. held[c].to = held[c].payload.of /\ held[c].to \in executed
    BY <2>1 DEF AnswerInv
  <2>3. /\ UNCHANGED <<busy, toHost, executed, reply>>
        /\ held' = [held EXCEPT ![c] = None]
        /\ (UNCHANGED result \/ result' = [result EXCEPT ![held[c].to] = held[c].payload])
    BY <1>4 DEF Deliver, Offer, askVars, deviceVars
  <2>4. \A a \in Ask : result'[a].kind \in Delivered => result'[a].of = a /\ a \in executed
    BY <2>2, <2>3, <1>a DEF AnswerInv
  <2>. QED BY <2>3, <2>4, <1>a DEF AnswerInv, AnswersItsAsk
<1>5. CASE Detach(c)
  <2>1. /\ UNCHANGED <<busy, toHost, held, executed, reply>>
        /\ \A a \in Ask : result'[a] \in {result[a], Disconnected}
    BY <1>5 DEF Detach, DetachProvider, askVars, deviceVars
  <2>. QED BY <2>1, KindFacts DEF AnswerInv, AnswersItsAsk
<1>. QED BY <1>1, <1>2, <1>3, <1>4, <1>5 DEF HandlerStep

LEMMA AnswerDeviceStep ==
    ASSUME TypeOK, AnswerInv, NEW c \in Conn,
           DeviceStep(c) \/ Connect(c) \/ PathLost(c) \/ DeviceStops(c)
    PROVE  AnswerInv'
<1>a. /\ toHost \in [Conn -> Seq(Frame)] /\ busy \in [Conn -> Ask \cup {None}]
  BY DEF TypeOK, DeviceTypeOK
<1>1. CASE DeviceTake(c)
  <2>1. /\ UNCHANGED <<toHost, held, result, reply>>
        /\ executed' = executed \cup {Head(toDevice[c])}
        /\ busy' = [busy EXCEPT ![c] = Head(toDevice[c])]
    BY <1>1 DEF DeviceTake, brokerVars, askVars, handlerVars
  <2>2. \A d \in Conn : busy'[d] # None => busy'[d] \in executed'
    BY <2>1, <1>a DEF AnswerInv
  <2>. QED BY <2>1, <2>2 DEF AnswerInv, AnswersItsAsk
<1>2. CASE DeviceReply(c)
  <2>1. /\ UNCHANGED <<held, result, reply, executed>> /\ busy[c] # None
        /\ busy' = [busy EXCEPT ![c] = None]
    BY <1>2 DEF DeviceReply, brokerVars, askVars, handlerVars
  <2>2. busy[c] \in executed
    BY <2>1 DEF AnswerInv
  <2>3. \A d \in Conn : \A i \in 1..Len(toHost'[d]) : toHost'[d][i].of \in executed
    <3>1. CASE UNCHANGED toHost
      BY <3>1 DEF AnswerInv
    <3>2. ASSUME NEW k \in ReplyKind,
                 toHost' = [toHost EXCEPT ![c] = Append(@, [kind |-> k, of |-> busy[c]])]
          PROVE  \A d \in Conn : \A i \in 1..Len(toHost'[d]) : toHost'[d][i].of \in executed
      <4>1. ASSUME NEW i \in 1..Len(Append(toHost[c], [kind |-> k, of |-> busy[c]]))
            PROVE  Append(toHost[c], [kind |-> k, of |-> busy[c]])[i].of \in executed
        BY <1>a, <2>2, <4>1 DEF AnswerInv
      <4>. QED BY <3>2, <4>1, <1>a DEF AnswerInv
    <3>. QED BY <1>2, <3>1, <3>2 DEF DeviceReply
  <2>. QED BY <2>1, <2>3, <1>a DEF AnswerInv, AnswersItsAsk
<1>3. CASE DeviceReadFails(c) \/ Connect(c) \/ PathLost(c) \/ DeviceStops(c)
  <2>1. /\ UNCHANGED <<toHost, held, result, reply, executed>>
        /\ (UNCHANGED busy \/ busy' = [busy EXCEPT ![c] = None])
    BY <1>3 DEF DeviceReadFails, Connect, PathLost, DeviceStops, brokerVars, askVars, handlerVars
  <2>. QED BY <2>1, <1>a DEF AnswerInv, AnswersItsAsk
<1>. QED BY <1>1, <1>2, <1>3 DEF DeviceStep

\* Whatever an ask returns from a device, a device produced for that ask,
\* even when asks of several Projects share a request ID.
THEOREM AnswersAreMatched == Spec => []AnswersItsAsk
<1>1. Init => AnswerInv
  BY KindFacts DEF Init, BrokerInit, AnswerInv, AnswersItsAsk
<1>2. TypeOK /\ HeldOK /\ AnswerInv /\ [Next]_vars => AnswerInv'
  <2> SUFFICES ASSUME TypeOK, HeldOK, AnswerInv, [Next]_vars PROVE AnswerInv'
    OBVIOUS
  <2>1. ASSUME NEW a \in Ask, AskStep(a) \/ RequesterGone(a) PROVE AnswerInv'
    BY <2>1, AnswerAskStep
  <2>2. ASSUME NEW c \in Conn, HandlerStep(c) PROVE AnswerInv'
    BY <2>2, AnswerHandlerStep
  <2>3. ASSUME NEW c \in Conn, DeviceStep(c) \/ Connect(c) \/ PathLost(c) \/ DeviceStops(c)
        PROVE  AnswerInv'
    BY <2>3, AnswerDeviceStep
  <2>4. ASSUME NEW g \in Agent, RemoveAgent(g) PROVE AnswerInv'
    BY <2>4 DEF RemoveAgent, AnswerInv, AnswersItsAsk, brokerVars, askVars, handlerVars, deviceVars
  <2>5. CASE Restart
    BY <2>5, KindFacts DEF Restart, AnswerInv, AnswersItsAsk
  <2>6. CASE UNCHANGED vars
    BY <2>6 DEF vars, AnswerInv, AnswersItsAsk, brokerVars, askVars, handlerVars, deviceVars
  <2>. QED BY <2>1, <2>2, <2>3, <2>4, <2>5, <2>6 DEF Next
<1>3. AnswerInv => AnswersItsAsk
  BY DEF AnswerInv
<1>. QED BY <1>1, <1>2, <1>3, TypeCorrect, PTL DEF Spec

-----------------------------------------------------------------------------
(* Runs: a device only runs what an accepted ask wrote, and RowInv lets a  *)
(* request ID of a Project be accepted once.                               *)

RunInv ==
    /\ executed \subseteq accepted
    /\ \A c \in Conn : \A i \in 1..Len(toDevice[c]) : toDevice[c][i] \in accepted

LEMMA RunAskStep ==
    ASSUME TypeOK, RowInv, RunInv, NEW a \in Ask, AskStep(a) \/ RequesterGone(a)
    PROVE  RunInv'
<1>a. toDevice \in [Conn -> Seq(Ask)]
  BY DEF TypeOK, DeviceTypeOK
<1>1. CASE WriteRequest(a)
  <2>1. /\ UNCHANGED <<accepted, executed>> /\ a \in accepted
        /\ \/ UNCHANGED toDevice
           \/ toDevice' = [toDevice EXCEPT ![via[a]] = Append(@, a)]
    BY <1>1 DEF WriteRequest, RowInv, Active
  <2>2. CASE UNCHANGED toDevice
    BY <2>1, <2>2 DEF RunInv
  <2>3. CASE toDevice' = [toDevice EXCEPT ![via[a]] = Append(@, a)]
    <3>1. ASSUME NEW c \in Conn, NEW i \in 1..Len(toDevice'[c]) PROVE toDevice'[c][i] \in accepted
      <4>1. CASE c = via[a]
        <5>1. toDevice'[c] = Append(toDevice[c], a)
          BY <1>a, <2>3, <4>1
        <5>2. i = Len(toDevice[c]) + 1 \/ i \in 1..Len(toDevice[c])
          BY <1>a, <5>1
        <5>. QED BY <1>a, <2>1, <5>1, <5>2 DEF RunInv
      <4>2. CASE c # via[a]
        BY <1>a, <2>3, <4>2 DEF RunInv
      <4>. QED BY <4>1, <4>2
    <3>. QED BY <2>1, <3>1 DEF RunInv
  <2>. QED BY <2>1, <2>2, <2>3
<1>2. CASE ~WriteRequest(a)
  <2>1. UNCHANGED <<executed, toDevice>> /\ accepted \subseteq accepted'
    BY <1>2 DEF AskStep, CheckAgent, CreateRequest, LoadIdentity, Dispatch, TakeResult, ContextDone,
       Cleanup, UpdateRequest, RequesterGone, deviceVars
  <2>. QED BY <2>1 DEF RunInv
<1>. QED BY <1>1, <1>2

LEMMA RunDeviceStep ==
    ASSUME TypeOK, RunInv, NEW c \in Conn,
           DeviceStep(c) \/ Connect(c) \/ PathLost(c) \/ DeviceStops(c)
    PROVE  RunInv'
<1>a. toDevice \in [Conn -> Seq(Ask)]
  BY DEF TypeOK, DeviceTypeOK
<1>1. CASE DeviceTake(c)
  <2>1. /\ toDevice[c] # <<>> /\ UNCHANGED accepted
        /\ toDevice' = [toDevice EXCEPT ![c] = Tail(toDevice[c])]
        /\ executed' = executed \cup {Head(toDevice[c])}
    BY <1>1 DEF DeviceTake, askVars
  <2>2. Head(toDevice[c]) \in accepted
    BY <1>a, <2>1 DEF RunInv
  <2>3. ASSUME NEW i \in 1..Len(Tail(toDevice[c])) PROVE Tail(toDevice[c])[i] \in accepted
    <3>1. i + 1 \in 1..Len(toDevice[c]) /\ Tail(toDevice[c])[i] = toDevice[c][i + 1]
      BY <1>a, <2>1, <2>3
    <3>. QED BY <3>1 DEF RunInv
  <2>. QED BY <1>a, <2>1, <2>2, <2>3 DEF RunInv
<1>2. CASE DeviceReply(c) \/ DeviceReadFails(c) \/ DeviceStops(c) \/ Connect(c) \/ PathLost(c)
  <2>1. /\ UNCHANGED <<accepted, executed>>
        /\ UNCHANGED toDevice \/ toDevice' = [toDevice EXCEPT ![c] = <<>>]
    BY <1>2 DEF DeviceReply, DeviceReadFails, DeviceStops, Connect, PathLost, EndSession, askVars
  <2>. QED BY <1>a, <2>1 DEF RunInv
<1>. QED BY <1>1, <1>2 DEF DeviceStep

\* What is on its way to a device, or was run by one, was accepted.
THEOREM RunsCorrect == Spec => []RunInv
<1>1. Init => RunInv
  BY DEF Init, RunInv
<1>2. TypeOK /\ RowInv /\ RunInv /\ [Next]_vars => RunInv'
  <2> SUFFICES ASSUME TypeOK, RowInv, RunInv, [Next]_vars PROVE RunInv'
    OBVIOUS
  <2>1. ASSUME NEW a \in Ask, AskStep(a) \/ RequesterGone(a) PROVE RunInv'
    BY <2>1, RunAskStep
  <2>2. ASSUME NEW c \in Conn, HandlerStep(c) PROVE RunInv'
    BY <2>2 DEF HandlerStep, Attach, UpgradeFails, CloseReplaced, MarkOnline, ReadFails, Receive,
       Deliver, Detach, MarkOffline, RunInv, askVars, deviceVars
  <2>3. ASSUME NEW c \in Conn, DeviceStep(c) \/ Connect(c) \/ PathLost(c) \/ DeviceStops(c)
        PROVE  RunInv'
    BY <2>3, RunDeviceStep
  <2>4. ASSUME NEW g \in Agent, RemoveAgent(g) PROVE RunInv'
    BY <2>4 DEF RemoveAgent, RunInv, askVars, deviceVars
  <2>5. CASE Restart
    BY <2>5 DEF Restart, RunInv
  <2>6. CASE UNCHANGED vars
    BY <2>6 DEF vars, RunInv, askVars, deviceVars
  <2>. QED BY <2>1, <2>2, <2>3, <2>4, <2>5, <2>6 DEF Next
<1>. QED BY <1>1, <1>2, TypeInvariant, RowsCorrect, PTL DEF Spec

\* A request ID of a Project is run at most once, by whichever devices and
\* across whatever restarts of the host.
THEOREM RunsAreUnique == Spec => []AtMostOneRun
<1>1. RowInv /\ RunInv => AtMostOneRun
  BY DEF RowInv, RunInv, AtMostOneRun
<1>. QED BY <1>1, RowsCorrect, RunsCorrect, PTL

-----------------------------------------------------------------------------
(* Provider handlers: who serves an Agent, which sockets are open, and what *)
(* the Agents' rows say.                                                   *)

\* The steps that touch what the three invariants are about.
LEMMA HandlerChanges ==
    ASSUME [Next]_vars
    PROVE  \/ UNCHANGED <<providers, handler, replaced, agents, link, restarts>>
           \/ /\ UNCHANGED <<providers, handler, replaced, link, restarts>>
              /\ \E g \in Agent : RemoveAgent(g)
           \/ /\ UNCHANGED <<providers, handler, replaced, agents, restarts>>
              /\ \E c \in Conn : link[c] = "up" /\ link' = [link EXCEPT ![c] = "lost"]
           \/ /\ UNCHANGED <<providers, replaced, agents, link, restarts>>
              /\ \E c \in Conn : UpgradeFails(c) \/ ReadFails(c) \/ Receive(c) \/ Deliver(c)
           \/ \E c \in Conn : Connect(c) \/ Attach(c) \/ CloseReplaced(c) \/ MarkOnline(c)
                                \/ Detach(c) \/ MarkOffline(c)
           \/ Restart
<1>1. ASSUME NEW a \in Ask, AskStep(a) \/ RequesterGone(a)
      PROVE  UNCHANGED <<providers, handler, replaced, agents, link, restarts>>
  BY <1>1 DEF AskStep, CheckAgent, CreateRequest, LoadIdentity, Dispatch, WriteRequest, TakeResult,
     ContextDone, Cleanup, UpdateRequest, RequesterGone, brokerVars, storeVars, handlerVars, deviceVars
<1>2. ASSUME NEW c \in Conn, DeviceStep(c)
      PROVE  UNCHANGED <<providers, handler, replaced, agents, link, restarts>>
  BY <1>2 DEF DeviceStep, DeviceTake, DeviceReply, DeviceReadFails, brokerVars, storeVars, handlerVars
<1>3. ASSUME NEW c \in Conn, PathLost(c) \/ DeviceStops(c)
      PROVE  /\ UNCHANGED <<providers, handler, replaced, agents, restarts>>
             /\ link' = link \/ (link[c] = "up" /\ link' = [link EXCEPT ![c] = "lost"])
  BY <1>3 DEF PathLost, DeviceStops, brokerVars, storeVars, handlerVars
<1>4. ASSUME NEW c \in Conn, UpgradeFails(c) \/ ReadFails(c) \/ Receive(c) \/ Deliver(c)
      PROVE  UNCHANGED <<providers, replaced, agents, link, restarts>>
  BY <1>4 DEF UpgradeFails, ReadFails, Receive, Deliver, brokerVars, storeVars, deviceVars
<1>5. ASSUME NEW g \in Agent, RemoveAgent(g)
      PROVE  UNCHANGED <<providers, handler, replaced, link, restarts>>
  BY <1>5 DEF RemoveAgent, brokerVars, handlerVars, deviceVars
<1>6. CASE UNCHANGED vars
  BY <1>6 DEF vars, brokerVars, storeVars, handlerVars, deviceVars
<1>. QED BY <1>1, <1>2, <1>3, <1>4, <1>5, <1>6 DEF Next, HandlerStep

\* The WebSocket that serves an Agent is one of its own, and has a handler
\* that has not detached.
RouteInv ==
    \A g \in Agent : providers[g] # None =>
        AgentOfConn[providers[g]] = g /\ handler[providers[g]] \in Serving

LEMMA RouteStep == TypeOK /\ RouteInv /\ [Next]_vars => RouteInv'
<1> SUFFICES ASSUME TypeOK, RouteInv, [Next]_vars PROVE RouteInv'
  OBVIOUS
<1>a. /\ providers \in [Agent -> Conn \cup {None}] /\ handler \in [Conn -> HandlerPc]
      /\ AgentOfConn \in [Conn -> Agent] /\ None \notin Conn
  BY BrokerAssumption DEF BrokerAssumption, TypeOK, BrokerTypeOK, HandlerTypeOK
<1>1. CASE UNCHANGED <<providers, handler>>
  BY <1>1 DEF RouteInv
<1>2. ASSUME NEW c \in Conn, ReadFails(c) \/ Receive(c) \/ Deliver(c) \/ CloseReplaced(c) \/ MarkOnline(c)
      PROVE  RouteInv'
  <2>1. /\ UNCHANGED providers
        /\ \E to \in Serving : handler' = [handler EXCEPT ![c] = to]
    BY <1>2 DEF ReadFails, Receive, Deliver, CloseReplaced, MarkOnline, Step, Serving, brokerVars
  <2>. QED BY <2>1, <1>a DEF RouteInv
<1>3. ASSUME NEW c \in Conn, Connect(c) \/ UpgradeFails(c) \/ MarkOffline(c)
      PROVE  RouteInv'
  <2>1. /\ UNCHANGED providers /\ handler[c] \notin Serving
        /\ \E to \in HandlerPc : handler' = [handler EXCEPT ![c] = to]
    BY <1>3 DEF Connect, UpgradeFails, MarkOffline, Step, Serving, HandlerPc, brokerVars
  <2>. QED BY <2>1, <1>a DEF RouteInv
<1>4. ASSUME NEW c \in Conn, Attach(c) PROVE RouteInv'
  <2>1. /\ providers' = [providers EXCEPT ![AgentOfConn[c]] = c]
        /\ handler' = [handler EXCEPT ![c] = "replacing"]
    BY <1>4 DEF Attach, AttachProvider, Step
  <2>. QED BY <2>1, <1>a DEF RouteInv, Serving
<1>5. ASSUME NEW c \in Conn, Detach(c) PROVE RouteInv'
  <2>1. /\ handler' = [handler EXCEPT ![c] = "detached"]
        /\ providers' = IF providers[AgentOfConn[c]] = c
                          THEN [providers EXCEPT ![AgentOfConn[c]] = None] ELSE providers
    BY <1>5 DEF Detach, DetachProvider, Step
  <2>2. \A g \in Agent : providers'[g] # None => providers'[g] = providers[g] /\ providers[g] # c
    BY <2>1, <1>a DEF RouteInv
  <2>. QED BY <2>1, <2>2, <1>a DEF RouteInv
<1>6. CASE Restart
  BY <1>6 DEF Restart, RouteInv
<1>. QED BY <1>1, <1>2, <1>3, <1>4, <1>5, <1>6, HandlerChanges

\* No request is routed to a WebSocket whose handler has detached.
THEOREM ProvidersAreServed == Spec => []ProviderIsServed
<1>1. Init => RouteInv
  BY DEF Init, BrokerInit, RouteInv
<1>2. RouteInv => ProviderIsServed
  BY DEF RouteInv, ProviderIsServed
<1>. QED BY <1>1, <1>2, RouteStep, TypeInvariant, PTL DEF Spec

\* SupersededIsClosed, for handlers that have still to close the WebSocket
\* they replaced too: one that is replaced meanwhile goes on afterwards.
Closing(c) == \E d \in Conn : handler[d] = "replacing" /\ replaced[d] = c

CloseInv ==
    \A c \in Conn :
        handler[c] \in {"replacing", "marking", "reading", "deliver"} /\ providers[AgentOfConn[c]] # c
        => link[c] = "closed" \/ Closing(c)

\* A handler that moves on without closing anything disturbs nothing.
LEMMA ClosingKept ==
    ASSUME TypeOK, UNCHANGED replaced, NEW c \in Conn, handler[c] # "replacing",
           NEW to \in HandlerPc, handler' = [handler EXCEPT ![c] = to]
    PROVE  \A d \in Conn : Closing(d) => Closing(d)'
<1>1. handler \in [Conn -> HandlerPc]
  BY DEF TypeOK, HandlerTypeOK
<1>. QED BY <1>1 DEF Closing

LEMMA CloseStep == TypeOK /\ CloseInv /\ [Next]_vars => CloseInv'
<1> SUFFICES ASSUME TypeOK, CloseInv, [Next]_vars PROVE CloseInv'
  OBVIOUS
<1>a. /\ providers \in [Agent -> Conn \cup {None}] /\ handler \in [Conn -> HandlerPc]
      /\ link \in [Conn -> {"none", "up", "lost", "closed"}]
      /\ replaced \in [Conn -> Conn \cup {None}]
      /\ AgentOfConn \in [Conn -> Agent] /\ None \notin Conn
  BY BrokerAssumption DEF BrokerAssumption, TypeOK, BrokerTypeOK, HandlerTypeOK, DeviceTypeOK
<1>1. CASE UNCHANGED <<providers, handler, replaced, link>>
  BY <1>1 DEF CloseInv, Closing
<1>2. ASSUME UNCHANGED <<providers, handler, replaced>>,
             NEW c \in Conn, link[c] = "up", link' = [link EXCEPT ![c] = "lost"]
      PROVE  CloseInv'
  BY <1>2, <1>a DEF CloseInv, Closing
<1>3. ASSUME NEW c \in Conn, UpgradeFails(c) \/ ReadFails(c) \/ Receive(c) \/ Deliver(c) \/ MarkOnline(c)
      PROVE  CloseInv'
  <2>1. /\ UNCHANGED <<providers, replaced, link>>
        /\ \/ handler[c] \in {"marking", "reading", "deliver"}
           \/ handler[c] = "accepted" /\ handler' = [handler EXCEPT ![c] = "done"]
        /\ \E to \in {"reading", "deliver", "leaving", "done"} : handler' = [handler EXCEPT ![c] = to]
    BY <1>3 DEF UpgradeFails, ReadFails, Receive, Deliver, MarkOnline, Step, brokerVars, deviceVars
  <2>2. \A d \in Conn : Closing(d) => Closing(d)'
    BY <2>1, ClosingKept DEF HandlerPc
  <2>. QED BY <2>1, <2>2, <1>a DEF CloseInv
<1>4. ASSUME NEW c \in Conn, Connect(c) PROVE CloseInv'
  <2>1. /\ UNCHANGED <<providers, replaced>> /\ handler[c] = "none"
        /\ handler' = [handler EXCEPT ![c] = "accepted"] /\ link' = [link EXCEPT ![c] = "up"]
    BY <1>4 DEF Connect, Step, brokerVars
  <2>2. \A d \in Conn : Closing(d) => Closing(d)'
    BY <2>1, ClosingKept DEF HandlerPc
  <2>. QED BY <2>1, <2>2, <1>a DEF CloseInv
<1>5. ASSUME NEW c \in Conn, Attach(c) PROVE CloseInv'
  <2>1. /\ UNCHANGED link /\ handler[c] = "accepted"
        /\ handler' = [handler EXCEPT ![c] = "replacing"]
        /\ providers' = [providers EXCEPT ![AgentOfConn[c]] = c]
        /\ replaced' = [replaced EXCEPT ![c] = providers[AgentOfConn[c]]]
    BY <1>5 DEF Attach, AttachProvider, Step, deviceVars
  <2>2. \A d \in Conn : Closing(d) => Closing(d)'
    BY <2>1, <1>a DEF Closing
  <2>3. \A d \in Conn : d # c /\ providers[AgentOfConn[d]] = d /\ providers'[AgentOfConn[d]] # d => Closing(d)'
    BY <2>1, <1>a DEF Closing
  <2>. QED BY <2>1, <2>2, <2>3, <1>a DEF CloseInv
<1>6. ASSUME NEW c \in Conn, CloseReplaced(c) PROVE CloseInv'
  <2>1. /\ UNCHANGED providers /\ handler[c] = "replacing"
        /\ handler' = [handler EXCEPT ![c] = "marking"]
        /\ replaced' = [replaced EXCEPT ![c] = None]
        /\ IF replaced[c] = None THEN UNCHANGED link ELSE link' = [link EXCEPT ![replaced[c]] = "closed"]
    BY <1>6 DEF CloseReplaced, Close, Step, brokerVars
  <2>2. \A d \in Conn : link[d] = "closed" => link'[d] = "closed"
    BY <2>1, <1>a
  <2>3. \A d \in Conn : Closing(d) => Closing(d)' \/ link'[d] = "closed"
    BY <2>1, <1>a DEF Closing
  <2>. QED BY <2>1, <2>2, <2>3, <1>a DEF CloseInv
<1>7. ASSUME NEW c \in Conn, Detach(c) PROVE CloseInv'
  <2>1. /\ UNCHANGED <<replaced, link>> /\ handler[c] = "leaving"
        /\ handler' = [handler EXCEPT ![c] = "detached"]
        /\ providers' = IF providers[AgentOfConn[c]] = c
                          THEN [providers EXCEPT ![AgentOfConn[c]] = None] ELSE providers
    BY <1>7 DEF Detach, DetachProvider, Step, deviceVars
  <2>2. \A d \in Conn : Closing(d) => Closing(d)'
    BY <2>1, ClosingKept DEF HandlerPc
  <2>3. \A d \in Conn : d # c /\ providers[AgentOfConn[d]] = d => providers'[AgentOfConn[d]] = d
    BY <2>1, <1>a
  <2>. QED BY <2>1, <2>2, <2>3, <1>a DEF CloseInv
<1>8. ASSUME NEW c \in Conn, MarkOffline(c) PROVE CloseInv'
  <2>1. /\ UNCHANGED <<providers, replaced>> /\ handler[c] = "detached"
        /\ handler' = [handler EXCEPT ![c] = "done"] /\ link' = [link EXCEPT ![c] = "closed"]
    BY <1>8 DEF MarkOffline, Close, Step, brokerVars
  <2>2. \A d \in Conn : Closing(d) => Closing(d)'
    BY <2>1, ClosingKept DEF HandlerPc
  <2>. QED BY <2>1, <2>2, <1>a DEF CloseInv
<1>9. CASE Restart
  BY <1>9 DEF Restart, CloseInv
<1>. QED BY <1>1, <1>2, <1>3, <1>4, <1>5, <1>6, <1>7, <1>8, <1>9, HandlerChanges

\* A WebSocket that another has replaced is closed, or the handler of the other
\* is about to close it, however many reconnects overlap.
THEOREM SupersededAreClosed == Spec => []SupersededIsClosed
<1>1. Init => CloseInv
  BY DEF Init, CloseInv
<1>2. CloseInv => SupersededIsClosed
  BY DEF CloseInv, Closing, SupersededIsClosed
<1>. QED BY <1>1, <1>2, CloseStep, TypeInvariant, PTL DEF Spec

LEMMA OnlineStep == TypeOK /\ OnlineHasHandler /\ [Next]_vars => OnlineHasHandler'
<1> DEFINE Last == {"reading", "deliver", "leaving", "detached"}
<1> SUFFICES ASSUME TypeOK, OnlineHasHandler, [Next]_vars, restarts' = 0, NEW g \in Agent, agents'[g] = "online"
             PROVE  \E c \in Conn : AgentOfConn[c] = g /\ handler'[c] \in Last
  BY DEF OnlineHasHandler
<1>a. /\ agents \in [Agent -> {"absent", "offline", "online"}] /\ handler \in [Conn -> HandlerPc]
      /\ AgentOfConn \in [Conn -> Agent] /\ restarts \in Nat
  BY BrokerAssumption, HostAssumption DEF BrokerAssumption, HostAssumption, TypeOK, StoreTypeOK, HandlerTypeOK
<1>b. restarts = 0 /\ agents[g] = "online" =>
        \E c \in Conn : AgentOfConn[c] = g /\ handler[c] \in Last
  BY DEF OnlineHasHandler
<1>1. CASE UNCHANGED <<handler, agents, restarts>>
  BY <1>1, <1>b
<1>2. ASSUME NEW h \in Agent, RemoveAgent(h), UNCHANGED <<handler, restarts>>
      PROVE  \E c \in Conn : AgentOfConn[c] = g /\ handler'[c] \in Last
  <2>1. agents[g] = "online"
    BY <1>2, <1>a DEF RemoveAgent
  <2>. QED BY <2>1, <1>2, <1>b
<1>3. ASSUME NEW c \in Conn,
             \/ UpgradeFails(c) \/ ReadFails(c) \/ Receive(c) \/ Deliver(c)
             \/ Connect(c) \/ Attach(c) \/ CloseReplaced(c) \/ Detach(c)
      PROVE  \E d \in Conn : AgentOfConn[d] = g /\ handler'[d] \in Last
  <2>1. /\ UNCHANGED <<agents, restarts>>
        /\ \/ handler[c] \notin Last \/ handler'[c] \in Last
        /\ \A d \in Conn \ {c} : handler'[d] = handler[d]
    BY <1>3, <1>a DEF UpgradeFails, ReadFails, Receive, Deliver, Connect, Attach, CloseReplaced, Detach, Step,
       storeVars
  <2>. QED BY <2>1, <1>b
<1>4. ASSUME NEW c \in Conn, MarkOnline(c)
      PROVE  \E d \in Conn : AgentOfConn[d] = g /\ handler'[d] \in Last
  <2>1. /\ UNCHANGED restarts /\ handler[c] = "marking" /\ handler' = [handler EXCEPT ![c] = "reading"]
        /\ AgentOfConn[c] # g => agents[g] = "online"
    BY <1>4, <1>a DEF MarkOnline, SetAgentOnline, Step
  <2>. QED BY <2>1, <1>a, <1>b
<1>5. ASSUME NEW c \in Conn, MarkOffline(c)
      PROVE  \E d \in Conn : AgentOfConn[d] = g /\ handler'[d] \in Last
  <2>1. /\ UNCHANGED restarts /\ handler' = [handler EXCEPT ![c] = "done"]
        /\ AgentOfConn[c] # g /\ agents[g] = "online"
    BY <1>5, <1>a DEF MarkOffline, SetAgentOnline, Step
  <2>. QED BY <2>1, <1>a, <1>b
<1>6. CASE Restart
  BY <1>6, <1>a DEF Restart
<1>. QED BY <1>1, <1>2, <1>3, <1>4, <1>5, <1>6, HandlerChanges

\* While the host runs, a row that says online has a handler behind it that
\* will take it offline.
THEOREM OnlineIsUndone == Spec => []OnlineHasHandler
<1>1. Init => OnlineHasHandler
  BY DEF Init, OnlineHasHandler
<1>. QED BY <1>1, OnlineStep, TypeInvariant, PTL DEF Spec

-----------------------------------------------------------------------------
(* The pending map.                                                        *)

\* An entry stands under the request ID of an ask that is still in dispatch.
EntryInv ==
    \A id \in RequestId : pending[id] # None =>
        /\ pending[id].replyTo \in Ask /\ IdOf[pending[id].replyTo] = id
        /\ pc[pending[id].replyTo] \in InDispatch

LEMMA EntryStep == TypeOK /\ EntryInv /\ [Next]_vars => EntryInv'
<1> SUFFICES ASSUME TypeOK, EntryInv, [Next]_vars PROVE EntryInv'
  OBVIOUS
<1>a. /\ pending \in [RequestId -> Entry \cup {None}] /\ pc \in [Ask -> AskPc]
      /\ IdOf \in [Ask -> RequestId]
  BY BrokerAssumption DEF BrokerAssumption, TypeOK, BrokerTypeOK, AskTypeOK
<1>1. CASE UNCHANGED <<pending, pc>>
  BY <1>1 DEF EntryInv
<1>2. ASSUME NEW a \in Ask, CheckAgent(a) \/ CreateRequest(a) \/ LoadIdentity(a) \/ UpdateRequest(a)
      PROVE  EntryInv'
  <2>1. /\ UNCHANGED pending /\ pc[a] \notin InDispatch
        /\ \A b \in Ask \ {a} : pc'[b] = pc[b]
    BY <1>2, <1>a DEF CheckAgent, CreateRequest, LoadIdentity, UpdateRequest, Return, Goto, InDispatch, brokerVars
  <2>. QED BY <2>1 DEF EntryInv
<1>3. ASSUME NEW a \in Ask, WriteRequest(a) \/ TakeResult(a) \/ ContextDone(a)
      PROVE  EntryInv'
  <2>1. UNCHANGED pending /\ pc'[a] \in InDispatch /\ \A b \in Ask \ {a} : pc'[b] = pc[b]
    BY <1>3, <1>a DEF WriteRequest, TakeResult, ContextDone, Goto, InDispatch, brokerVars
  <2>. QED BY <2>1 DEF EntryInv
<1>4. ASSUME NEW a \in Ask, Dispatch(a) PROVE EntryInv'
  <2>1. CASE RegisterRequest(a) /\ Goto(a, "dispatch", "write")
    <3>1. /\ pending' = [pending EXCEPT ![IdOf[a]] = [provider |-> AgentOf[a], replyTo |-> a]]
          /\ pc' = [pc EXCEPT ![a] = "write"]
      BY <2>1 DEF RegisterRequest, Goto
    <3>. QED BY <3>1, <1>a DEF EntryInv, InDispatch
  <2>2. CASE Goto(a, "dispatch", "update") /\ UNCHANGED pending
    BY <2>2, <1>a DEF EntryInv, Goto, InDispatch
  <2>. QED BY <1>4, <2>1, <2>2 DEF Dispatch
<1>5. ASSUME NEW a \in Ask, Cleanup(a) PROVE EntryInv'
  <2>1. pending' = [pending EXCEPT ![IdOf[a]] = None] /\ pc' = [pc EXCEPT ![a] = "update"]
    BY <1>5 DEF Cleanup, UnregisterRequest, Goto
  <2>2. \A id \in RequestId : pending'[id] # None =>
          pending'[id] = pending[id] /\ pending[id].replyTo # a
    BY <2>1, <1>a DEF EntryInv
  <2>. QED BY <2>1, <2>2, <1>a DEF EntryInv
<1>6. CASE Restart
  BY <1>6 DEF Restart, EntryInv
<1>7. ASSUME NEW c \in Conn,
             HandlerStep(c) \/ DeviceStep(c) \/ Connect(c) \/ PathLost(c) \/ DeviceStops(c)
      PROVE  UNCHANGED <<pending, pc>>
  BY <1>7 DEF HandlerStep, DeviceStep, Attach, UpgradeFails, CloseReplaced, MarkOnline, ReadFails,
     Receive, Deliver, Detach, MarkOffline, DeviceTake, DeviceReply, DeviceReadFails, Connect,
     PathLost, DeviceStops, brokerVars, askVars
<1>8. ASSUME NEW a \in Ask, RequesterGone(a) PROVE UNCHANGED <<pending, pc>>
  BY <1>8 DEF RequesterGone, brokerVars
<1>9. ASSUME NEW g \in Agent, RemoveAgent(g) PROVE UNCHANGED <<pending, pc>>
  BY <1>9 DEF RemoveAgent, brokerVars, askVars
<1>10. CASE UNCHANGED vars
  BY <1>10 DEF vars, brokerVars, askVars, EntryInv
<1>. QED BY <1>1, <1>2, <1>3, <1>4, <1>5, <1>6, <1>7, <1>8, <1>9, <1>10 DEF Next, AskStep

\* The pending map keeps no entry of an ask that has left dispatch, also when
\* asks share a request ID and delete each other's entries.
THEOREM EntriesAreLive == Spec => []NoStaleEntry
<1>1. Init => EntryInv
  BY DEF Init, BrokerInit, EntryInv
<1>2. EntryInv => NoStaleEntry
  BY DEF EntryInv, NoStaleEntry
<1>. QED BY <1>1, <1>2, EntryStep, TypeInvariant, PTL DEF Spec

-----------------------------------------------------------------------------
(* The read path implements ReadService: the initial states map to initial *)
(* states, and every step maps to a step of the service or to none.        *)

\* Only an ask that has returned says that the host's identity is missing: the
\* row of such an ask stays as it is, and no update of it follows.
ReplyInv == \A a \in Ask : pc[a] # "done" => reply[a].kind # "host_identity_unavailable"

LEMMA ReplyAskStep ==
    ASSUME TypeOK, ReplyInv, NEW a \in Ask, AskStep(a) \/ RequesterGone(a)
    PROVE  ReplyInv'
<1>a. /\ pc \in [Ask -> AskPc] /\ reply \in [Ask -> Reply]
      /\ result[a].kind # "host_identity_unavailable"
      /\ Refusal("agent_offline").kind # "host_identity_unavailable"
  BY DEF TypeOK, AskTypeOK, BrokerTypeOK, Payload, Empty, Refusal
<1>1. \/ UNCHANGED reply
      \/ reply' = [reply EXCEPT ![a] = result[a]]
      \/ reply' = [reply EXCEPT ![a] = Refusal("agent_offline")]
      \/ pc'[a] = "done" /\ \E code \in ReplyCode : reply' = [reply EXCEPT ![a] = Refusal(code)]
  BY <1>a DEF AskStep, CheckAgent, CreateRequest, LoadIdentity, Dispatch, WriteRequest, TakeResult,
     ContextDone, Cleanup, UpdateRequest, RequesterGone, Return, Goto, ReplyCode
<1>2. /\ pc[a] # "done" \/ pc' = pc
      /\ \A b \in Ask \ {a} : pc'[b] = pc[b]
  BY <1>a DEF AskStep, CheckAgent, CreateRequest, LoadIdentity, Dispatch, WriteRequest, TakeResult,
     ContextDone, Cleanup, UpdateRequest, RequesterGone, Return, Goto
<1>3. \A b \in Ask \ {a} : reply'[b] = reply[b]
  BY <1>a, <1>1
<1>4. pc'[a] # "done" => reply'[a].kind # "host_identity_unavailable"
  BY <1>a, <1>1, <1>2 DEF ReplyInv
<1>. QED BY <1>2, <1>3, <1>4 DEF ReplyInv

LEMMA ReplyStep == TypeOK /\ ReplyInv /\ [Next]_vars => ReplyInv'
<1> SUFFICES ASSUME TypeOK, ReplyInv, [Next]_vars PROVE ReplyInv'
  OBVIOUS
<1>1. ASSUME NEW a \in Ask, AskStep(a) \/ RequesterGone(a) PROVE ReplyInv'
  BY <1>1, ReplyAskStep
<1>2. ASSUME NEW c \in Conn, HandlerStep(c) \/ DeviceStep(c) \/ Connect(c) \/ PathLost(c) \/ DeviceStops(c)
      PROVE  UNCHANGED askVars
  BY <1>2 DEF HandlerStep, DeviceStep, Attach, UpgradeFails, CloseReplaced, MarkOnline, ReadFails,
     Receive, Deliver, Detach, MarkOffline, DeviceTake, DeviceReply, DeviceReadFails, Connect,
     PathLost, DeviceStops
<1>3. ASSUME NEW g \in Agent, RemoveAgent(g) PROVE UNCHANGED askVars
  BY <1>3 DEF RemoveAgent
<1>4. CASE Restart
  BY <1>4 DEF Restart, TypeOK, AskTypeOK, ReplyInv
<1>5. CASE UNCHANGED askVars
  BY <1>5 DEF askVars, ReplyInv
<1>6. CASE UNCHANGED vars
  BY <1>5, <1>6 DEF vars
<1>. QED BY <1>1, <1>2, <1>3, <1>4, <1>5, <1>6 DEF Next

LEMMA RepliesCorrect == Spec => []ReplyInv
<1>1. Init => ReplyInv
  BY DEF Init, ReplyInv, NoReply
<1>. QED BY <1>1, ReplyStep, TypeInvariant, PTL DEF Spec

-----------------------------------------------------------------------------
(* How an ask stands with the service.                                     *)

LEMMA Outcomes ==
    ASSUME RowInv, NEW a \in Ask
    PROVE  /\ pc[a] \in {"idle", "create"} => OutcomeOf(a) = "none"
           /\ pc[a] \in Active => OutcomeOf(a) = "open"
           /\ a \in accepted => OutcomeOf(a) \in {"open", "answered", "failed", "abandoned"}
           /\ OutcomeOf(a) = "answered" => pc[a] = "done" /\ reply[a].kind = "answer"
<1>1. /\ pc[a] \in Active => pc[a] \notin {"idle", "create", "lost", "done"}
      /\ a \in accepted => pc[a] \notin {"idle", "create"}
  BY DEF RowInv, Active
<1>. QED BY <1>1 DEF OutcomeOf

LEMMA OutcomeKept ==
    ASSUME NEW a \in Ask, pc'[a] = pc[a], reply'[a] = reply[a], a \in accepted' <=> a \in accepted
    PROVE  OutcomeOf(a)' = OutcomeOf(a)
  BY DEF OutcomeOf

\* A step within the handler of an accepted ask is invisible to the service.
LEMMA OpenKept ==
    ASSUME NEW a \in Ask, pc[a] \in Active, pc'[a] \in Active
    PROVE  OutcomeOf(a)' = OutcomeOf(a)
<1>1. pc[a] \notin {"idle", "create", "lost", "done"} /\ pc'[a] \notin {"idle", "create", "lost", "done"}
  BY DEF Active
<1>. QED BY <1>1 DEF OutcomeOf

\* The outcomes of all asks, when one of them changes its own.
Outcome == [a \in Ask |-> OutcomeOf(a)]

LEMMA OutcomeMoves ==
    ASSUME NEW a \in Ask, \A b \in Ask \ {a} : OutcomeOf(b)' = OutcomeOf(b)
    PROVE  /\ Outcome' = [Outcome EXCEPT ![a] = OutcomeOf(a)']
           /\ OutcomeOf(a)' = OutcomeOf(a) => Outcome' = Outcome
  BY DEF Outcome

\* Steps of the service, in terms of the read path.
LEMMA ServiceSteps ==
    ASSUME NEW a \in Ask
    PROVE  /\ /\ Outcome[a] = "none" /\ requests[Key(a)] = "none"
              /\ Outcome' = [Outcome EXCEPT ![a] = "open"]
              /\ requests' = [requests EXCEPT ![Key(a)] = "running"]
              /\ UNCHANGED executed
              => Service!Accept(a)
           /\ /\ Outcome[a] = "none"
              /\ Outcome' = [Outcome EXCEPT ![a] = "refused"]
              /\ UNCHANGED <<requests, executed>>
              => Service!Refuse(a)
           /\ /\ Outcome[a] \in {"open", "failed", "abandoned"} /\ a \notin executed
              /\ executed' = executed \cup {a}
              /\ UNCHANGED <<requests, Outcome>>
              => Service!Run(a)
           /\ /\ Outcome[a] = "open" /\ a \in executed
              /\ Outcome' = [Outcome EXCEPT ![a] = "answered"]
              /\ requests' = [requests EXCEPT ![Key(a)] = "succeeded"]
              /\ UNCHANGED executed
              => Service!Answer(a)
           /\ /\ Outcome[a] = "open"
              /\ Outcome' = [Outcome EXCEPT ![a] = "failed"]
              /\ requests' = [requests EXCEPT ![Key(a)] = "failed"]
              /\ UNCHANGED executed
              => Service!Fail(a)
  BY DEF Outcome, Service!Accept, Service!Refuse, Service!Run, Service!Answer, Service!Fail

LEMMA ServiceStutter == UNCHANGED <<requests, Outcome, executed>> => UNCHANGED Service!vars
  BY DEF Outcome, Service!vars

LEMMA AskImplements ==
    ASSUME TypeOK, RowInv, AnswersItsAsk, ReplyInv, NEW a \in Ask, AskStep(a) \/ RequesterGone(a)
    PROVE  Service!Next \/ UNCHANGED Service!vars
<1>a. /\ pc \in [Ask -> AskPc] /\ reply \in [Ask -> Reply] /\ accepted \in SUBSET Ask
      /\ Outcome[a] = OutcomeOf(a)
  BY DEF TypeOK, AskTypeOK, Outcome
<1>b. UNCHANGED executed
  BY DEF AskStep, CheckAgent, CreateRequest, LoadIdentity, Dispatch, WriteRequest, TakeResult,
     ContextDone, Cleanup, UpdateRequest, RequesterGone, deviceVars
<1>c. \A b \in Ask \ {a} : pc'[b] = pc[b] /\ reply'[b] = reply[b] /\ (b \in accepted' <=> b \in accepted)
  BY <1>a DEF AskStep, CheckAgent, CreateRequest, LoadIdentity, Dispatch, WriteRequest, TakeResult,
     ContextDone, Cleanup, UpdateRequest, RequesterGone, Return, Goto
<1>d. /\ Outcome' = [Outcome EXCEPT ![a] = OutcomeOf(a)']
      /\ OutcomeOf(a)' = OutcomeOf(a) => Outcome' = Outcome
  BY <1>c, OutcomeKept, OutcomeMoves
<1>e. Service!Accept(a) \/ Service!Refuse(a) \/ Service!Answer(a) \/ Service!Fail(a) => Service!Next
  BY DEF Service!Next
<1>1. CASE CheckAgent(a)
  <2>1. UNCHANGED <<requests, accepted>> /\ pc[a] = "idle" /\ a \notin accepted
    BY <1>1 DEF CheckAgent, Return, Goto, RowInv, storeVars
  <2>2. OutcomeOf(a) = "none"
    BY <2>1, Outcomes
  <2>3. CASE pc'[a] = "create"
    <3>1. OutcomeOf(a)' = "none"
      BY <2>3 DEF OutcomeOf
    <3>. QED BY <3>1, <2>1, <2>2, <1>b, <1>d, ServiceStutter
  <2>4. CASE pc'[a] = "done"
    <3>1. OutcomeOf(a)' = "refused"
      BY <2>1, <2>4 DEF OutcomeOf
    <3>. QED BY <3>1, <2>1, <2>2, <1>a, <1>b, <1>d, <1>e, ServiceSteps
  <2>. QED BY <1>1, <1>a, <2>3, <2>4 DEF CheckAgent, Return, Goto
<1>2. CASE CreateRequest(a)
  <2>1. pc[a] = "create" /\ a \notin accepted
    BY <1>2 DEF CreateRequest, Return, Goto, RowInv
  <2>2. OutcomeOf(a) = "none"
    BY <2>1, Outcomes
  <2>3. CASE /\ requests[Key(a)] = "none" /\ requests' = [requests EXCEPT ![Key(a)] = "running"]
             /\ Goto(a, "create", "identity")
    <3>1. pc'[a] = "identity"
      BY <1>a, <2>3 DEF Goto
    <3>2. OutcomeOf(a)' = "open"
      BY <3>1 DEF OutcomeOf
    <3>. QED BY <3>2, <2>2, <2>3, <1>a, <1>b, <1>d, <1>e, ServiceSteps
  <2>4. CASE Return(a, "create", "request_failed") /\ UNCHANGED <<requests, accepted>>
    <3>1. pc'[a] = "done" /\ a \notin accepted'
      BY <1>a, <2>1, <2>4 DEF Return, Goto
    <3>2. OutcomeOf(a)' = "refused"
      BY <3>1 DEF OutcomeOf
    <3>. QED BY <3>2, <2>2, <2>4, <1>a, <1>b, <1>d, <1>e, ServiceSteps
  <2>. QED BY <1>2, <2>3, <2>4 DEF CreateRequest
<1>3. CASE LoadIdentity(a)
  <2>1. UNCHANGED <<requests, accepted>> /\ pc[a] = "identity"
    BY <1>3 DEF LoadIdentity, Return, Goto, storeVars
  <2>2. OutcomeOf(a) = "open" /\ a \in accepted
    BY <2>1, Outcomes DEF RowInv, Active
  <2>3. CASE Goto(a, "identity", "dispatch")
    <3>1. pc[a] \in Active /\ pc'[a] \in Active
      BY <1>a, <2>1, <2>3 DEF Goto, Active
    <3>. QED BY <3>1, <2>1, <1>b, <1>d, OpenKept, ServiceStutter
  <2>4. CASE Return(a, "identity", "host_identity_unavailable")
    <3>1. /\ pc'[a] = "done" /\ reply'[a] = Refusal("host_identity_unavailable") /\ a \in accepted'
      BY <1>a, <2>1, <2>2, <2>4 DEF Return, Goto
    <3>2. OutcomeOf(a)' = "abandoned"
      BY <3>1 DEF OutcomeOf, Refusal
    <3>3. Outcome' = [b \in Ask |-> IF b \notin {a} THEN Outcome[b]
                                     ELSE IF Outcome[b] = "open" THEN "abandoned" ELSE "refused"]
      BY <3>2, <2>2, <1>a, <1>d DEF Outcome
    <3>4. Service!GiveUp({a})
      BY <3>3, <2>1, <2>2, <1>a, <1>b DEF Service!GiveUp, Outcome
    <3>. QED BY <3>4 DEF Service!Next
  <2>. QED BY <1>3, <2>3, <2>4 DEF LoadIdentity
<1>4. CASE Dispatch(a) \/ WriteRequest(a) \/ TakeResult(a) \/ ContextDone(a) \/ Cleanup(a)
  <2>1. UNCHANGED requests /\ pc[a] \in Active /\ pc'[a] \in Active
    BY <1>4, <1>a DEF Dispatch, WriteRequest, TakeResult, ContextDone, Cleanup, Goto, Active, storeVars
  <2>. QED BY <2>1, <1>b, <1>d, OpenKept, ServiceStutter
<1>5. CASE UpdateRequest(a)
  <2>1. /\ pc[a] = "update" /\ pc'[a] = "done" /\ UNCHANGED <<accepted, reply>>
        /\ requests' = [requests EXCEPT ![Key(a)] =
                          IF reply[a].kind = "answer" THEN "succeeded" ELSE "failed"]
    BY <1>5, <1>a DEF UpdateRequest, Goto
  <2>2. /\ OutcomeOf(a) = "open" /\ a \in accepted
        /\ reply[a].kind # "host_identity_unavailable"
    BY <2>1, Outcomes DEF RowInv, Active, ReplyInv
  <2>3. CASE reply[a].kind = "answer"
    <3>1. OutcomeOf(a)' = "answered"
      BY <2>1, <2>2, <2>3 DEF OutcomeOf
    <3>2. a \in executed
      BY <2>3 DEF AnswersItsAsk, Delivered
    <3>. QED BY <3>1, <3>2, <2>1, <2>2, <2>3, <1>a, <1>b, <1>d, <1>e, ServiceSteps
  <2>4. CASE reply[a].kind # "answer"
    <3>1. OutcomeOf(a)' = "failed"
      BY <2>1, <2>2, <2>4 DEF OutcomeOf
    <3>. QED BY <3>1, <2>1, <2>2, <2>4, <1>a, <1>b, <1>d, <1>e, ServiceSteps
  <2>. QED BY <2>3, <2>4
<1>6. CASE RequesterGone(a)
  <2>1. UNCHANGED <<pc, reply, accepted, requests>>
    BY <1>6 DEF RequesterGone, storeVars
  <2>. QED BY <2>1, <1>b, <1>d, OutcomeKept, ServiceStutter
<1>. QED BY <1>1, <1>2, <1>3, <1>4, <1>5, <1>6 DEF AskStep

LEMMA OutcomesKept == UNCHANGED askVars => Outcome' = Outcome
<1> SUFFICES ASSUME UNCHANGED askVars PROVE Outcome' = Outcome
  OBVIOUS
<1>1. \A a \in Ask : OutcomeOf(a)' = OutcomeOf(a)
  BY OutcomeKept DEF askVars
<1>. QED BY <1>1 DEF Outcome

\* The service sees a device only when it takes up a request it has not run.
LEMMA TakeImplements ==
    ASSUME TypeOK, RowInv, RunInv, AnswersItsAsk, NEW c \in Conn, DeviceTake(c)
    PROVE  Service!Next \/ UNCHANGED Service!vars
<1> DEFINE a == Head(toDevice[c])
<1>1. /\ UNCHANGED <<requests, Outcome>>
      /\ executed' = executed \cup {a}
  BY OutcomesKept DEF DeviceTake, storeVars
<1>2. toDevice[c] \in Seq(Ask) /\ toDevice[c] # <<>>
  BY DEF DeviceTake, TypeOK, DeviceTypeOK
<1>3. a \in Ask /\ a \in accepted
  BY <1>2 DEF RunInv
<1>4. CASE a \in executed
  BY <1>1, <1>4, ServiceStutter
<1>5. CASE a \notin executed
  <2>1. OutcomeOf(a) \in {"open", "failed", "abandoned"}
    BY <1>3, <1>5, Outcomes DEF AnswersItsAsk, Delivered
  <2>2. Service!Run(a)
    BY <2>1, <1>1, <1>3, <1>5, ServiceSteps DEF Outcome
  <2>. QED BY <1>3, <2>2 DEF Service!Next
<1>. QED BY <1>4, <1>5

\* A crash gives up every ask the host was working on, all at once.
LEMMA RestartImplements ==
    ASSUME TypeOK, RowInv, Restart
    PROVE  Service!Next \/ UNCHANGED Service!vars
<1> DEFINE S == {a \in Ask : pc[a] \in {"create"} \cup Active}
<1>1. /\ UNCHANGED <<requests, executed, reply, accepted>>
      /\ pc' = [a \in Ask |-> IF pc[a] \in {"idle", "done"} THEN pc[a] ELSE "lost"]
  BY DEF Restart, storeVars
<1>2. \A a \in Ask : pc[a] \in {"idle", "create", "done", "lost"} \cup Active
  BY DEF TypeOK, AskTypeOK, AskPc, Active
<1>3. ASSUME NEW a \in Ask \ S PROVE OutcomeOf(a)' = OutcomeOf(a)
  <2>1. pc'[a] = pc[a]
    BY <1>1, <1>2
  <2>. QED BY <2>1, <1>1, OutcomeKept
<1>4. ASSUME NEW a \in S
      PROVE  /\ OutcomeOf(a) \in {"none", "open"}
             /\ OutcomeOf(a)' = IF OutcomeOf(a) = "open" THEN "abandoned" ELSE "refused"
  <2>1. pc'[a] = "lost"
    BY <1>1 DEF Active
  <2>2. CASE pc[a] = "create"
    <3>1. OutcomeOf(a) = "none" /\ a \notin accepted
      BY <2>2, Outcomes DEF RowInv
    <3>. QED BY <2>1, <3>1, <1>1 DEF OutcomeOf
  <2>3. CASE pc[a] \in Active
    <3>1. OutcomeOf(a) = "open" /\ a \in accepted
      BY <2>3, Outcomes DEF RowInv
    <3>. QED BY <2>1, <3>1, <1>1 DEF OutcomeOf
  <2>. QED BY <2>2, <2>3
<1>5. Outcome' = [a \in Ask |-> IF a \notin S THEN Outcome[a]
                                 ELSE IF Outcome[a] = "open" THEN "abandoned" ELSE "refused"]
  BY <1>3, <1>4 DEF Outcome
<1>6. CASE S = {}
  BY <1>1, <1>5, <1>6, ServiceStutter DEF Outcome
<1>7. CASE S # {}
  <2>1. Service!GiveUp(S)
    BY <1>1, <1>4, <1>5, <1>7 DEF Service!GiveUp, Outcome
  <2>. QED BY <2>1 DEF Service!Next
<1>. QED BY <1>6, <1>7

LEMMA StepImplements ==
    ASSUME TypeOK, RowInv, RunInv, AnswersItsAsk, ReplyInv, [Next]_vars
    PROVE  Service!Next \/ UNCHANGED Service!vars
<1>1. ASSUME NEW a \in Ask, AskStep(a) \/ RequesterGone(a)
      PROVE  Service!Next \/ UNCHANGED Service!vars
  BY <1>1, AskImplements
<1>2. ASSUME NEW c \in Conn, DeviceTake(c)
      PROVE  Service!Next \/ UNCHANGED Service!vars
  BY <1>2, TakeImplements
<1>3. ASSUME NEW c \in Conn,
             \/ HandlerStep(c) \/ DeviceReply(c) \/ DeviceReadFails(c)
             \/ Connect(c) \/ PathLost(c) \/ DeviceStops(c)
      PROVE  UNCHANGED <<askVars, requests, executed>>
  BY <1>3 DEF HandlerStep, Attach, UpgradeFails, CloseReplaced, MarkOnline, ReadFails, Receive,
     Deliver, Detach, MarkOffline, DeviceReply, DeviceReadFails, Connect, PathLost, DeviceStops,
     storeVars, deviceVars
<1>4. ASSUME NEW g \in Agent, RemoveAgent(g)
      PROVE  UNCHANGED <<askVars, requests, executed>>
  BY <1>4 DEF RemoveAgent, deviceVars
<1>5. CASE UNCHANGED vars
  BY <1>5, OutcomesKept, ServiceStutter DEF vars, storeVars, deviceVars
<1>6. CASE UNCHANGED <<askVars, requests, executed>>
  BY <1>6, OutcomesKept, ServiceStutter
<1>. QED BY <1>1, <1>2, <1>3, <1>4, <1>5, <1>6, RestartImplements DEF Next, DeviceStep

\* The read path keeps the promises of ReadService: whatever the handlers, the
\* sockets, the devices and crashes do to an ask is, seen from outside, that it
\* is accepted or refused, run once, and answered, failed or given up.
THEOREM ReadPathImplements == Spec => ImplementsReadService
<1>1. Init => Service!Init
  BY KeyType DEF Init, Service!Init, OutcomeOf
<1>2. TypeOK /\ RowInv /\ RunInv /\ AnswersItsAsk /\ ReplyInv /\ [Next]_vars
        => [Service!Next]_(Service!vars)
  BY StepImplements
<1>. QED BY <1>1, <1>2, TypeInvariant, RowsCorrect, RunsCorrect, AnswersAreMatched, RepliesCorrect, PTL
         DEF Spec, ImplementsReadService, Service!Spec

-----------------------------------------------------------------------------
(* What the service promises then holds of the read path.                  *)

ServiceTheory == INSTANCE ReadServiceProofs WITH
    KeyOf <- [a \in Ask |-> Key(a)],
    status <- requests,
    outcome <- [a \in Ask |-> OutcomeOf(a)],
    ran <- executed

\* When the handler of an accepted ask has returned, the row of the ask says
\* what the requester was told.
THEOREM RowsTellReplies == Spec => []RowAgreesWithReply
<1>1. ServiceTheory!ServiceAssumption
  BY KeyType DEF ServiceTheory!ServiceAssumption
<1>2. Service!Init => ServiceTheory!Init
  BY DEF Service!Init, ServiceTheory!Init
<1>3. [Service!Next]_(Service!vars) => [ServiceTheory!Next]_(ServiceTheory!vars)
  BY DEF Service!Next, Service!Accept, Service!Refuse, Service!Run, Service!Answer, Service!Fail,
     Service!GiveUp, Service!vars, ServiceTheory!Next, ServiceTheory!Accept, ServiceTheory!Refuse,
     ServiceTheory!Run, ServiceTheory!Answer, ServiceTheory!Fail, ServiceTheory!GiveUp,
     ServiceTheory!vars
<1>4. TypeOK /\ ServiceTheory!StatusTellsOutcome => RowAgreesWithReply
  <2> SUFFICES ASSUME TypeOK, ServiceTheory!StatusTellsOutcome, NEW a \in accepted, pc[a] = "done"
               PROVE  CASE reply[a].kind = "answer" -> requests[Key(a)] = "succeeded"
                        [] reply[a].kind = "host_identity_unavailable" -> requests[Key(a)] = "running"
                        [] OTHER -> requests[Key(a)] = "failed"
    BY DEF RowAgreesWithReply
  <2>1. a \in Ask
    BY DEF TypeOK, AskTypeOK
  <2>2. OutcomeOf(a) = IF reply[a].kind = "answer" THEN "answered"
                       ELSE IF reply[a].kind = "host_identity_unavailable" THEN "abandoned"
                       ELSE "failed"
    BY DEF OutcomeOf
  <2>3. OutcomeOf(a) \in ServiceTheory!Taken =>
          requests[Key(a)] = CASE OutcomeOf(a) = "answered" -> "succeeded"
                               [] OutcomeOf(a) = "failed" -> "failed"
                               [] OTHER -> "running"
    BY <2>1 DEF ServiceTheory!StatusTellsOutcome
  <2>. QED BY <2>2, <2>3 DEF ServiceTheory!Taken
<1>. QED BY <1>1, <1>2, <1>3, <1>4, TypeInvariant, ReadPathImplements, ServiceTheory!StatusIsTrue, PTL
         DEF ImplementsReadService, Service!Spec, ServiceTheory!Spec
=============================================================================

------------------------------ MODULE Reconnect ------------------------------
(***************************************************************************)
(* How a device finds its Project Host again: the endpoints in state.json, *)
(* the loop of an Agent's provider over them (Daemon.startProvider,        *)
(* Client.RunProviderWithState), the RPCs of commands, which ask mDNS when *)
(* no endpoint answers (Client.RPC, discovery.Discover), and the map of    *)
(* connected Agents that the service status is counted from.               *)
(*                                                                         *)
(* Grain: one step per dial or post, per load or save of state.json, per   *)
(* critical section of Daemon.mu, and per answer that Discover takes.      *)
(***************************************************************************)
EXTENDS Naturals, Sequences

CONSTANTS
    Address,   \* where a host may listen
    Invited,   \* the endpoints of the invitation, in order
    Call,      \* RPCs of commands
    MaxMoves,  \* bound: changes of the host's address
    MaxDrops,  \* bound: connections lost although the host stays
    None

AddressesOf(list) == {list[i] : i \in DOMAIN list}
Distinct(list) == \A i, j \in DOMAIN list : list[i] = list[j] => i = j

ReconnectAssumption ==
    /\ Invited \in Seq(Address) /\ Invited # <<>> /\ Distinct(Invited)
    /\ MaxMoves \in Nat /\ MaxDrops \in Nat
    /\ None \notin Address

ASSUME ReconnectAssumption

VARIABLES
    host,      \* the address of the host, None while it is down
    mdns,      \* whether multicast reaches the host
    saved,     \* state.json: the endpoints of the Project's profile
    \* the provider
    loop,      \* where its goroutine stands
    profile,   \* the endpoints it has loaded
    left,      \* those it has still to dial
    conn,      \* the endpoint it is connected to
    canceled,  \* whether it was stopped
    connected, \* Daemon.connected of its Agent: none, off or on
    \* the RPCs
    at,        \* where a call stands
    known,     \* the endpoints its client was made with
    rest,      \* those it has still to post to
    outcome,   \* what it returned: none, ok, failed or offline
    \* bounds and history
    moves, drops,
    steady,    \* calls begun since the host last moved, with the host up
    missed     \* calls whose query ended before an answer of the host was taken

worldVars == <<host, mdns, moves, drops>>
loopVars == <<loop, profile, left, conn, canceled, connected>>
callVars == <<at, known, rest, outcome, steady, missed>>
vars == <<worldVars, saved, loopVars, callVars>>

EndpointList == {s \in Seq(Address) : Distinct(s)}

TypeOK ==
    /\ host \in Address \cup {None} /\ mdns \in BOOLEAN
    /\ saved \in EndpointList \ {<<>>}
    /\ loop \in {"load", "dial", "announce", "remember", "serve", "wait", "exit", "gone"}
    /\ profile \in EndpointList /\ left \in EndpointList
    /\ conn \in Address \cup {None}
    /\ canceled \in BOOLEAN /\ connected \in {"none", "off", "on"}
    /\ at \in [Call -> {"idle", "post", "query", "validate", "again", "remember", "done"}]
    /\ known \in [Call -> EndpointList] /\ rest \in [Call -> EndpointList]
    /\ outcome \in [Call -> {"none", "ok", "failed", "offline"}]
    /\ moves \in 0..MaxMoves /\ drops \in 0..MaxDrops
    /\ steady \in SUBSET Call /\ missed \in SUBSET Call

\* The device has just joined, and has registered its Agent.
Init ==
    /\ host = Invited[1] /\ mdns \in BOOLEAN
    /\ saved = Invited
    /\ loop = "load" /\ profile = <<>> /\ left = <<>> /\ conn = None
    /\ canceled = FALSE /\ connected = "off"
    /\ at = [c \in Call |-> "idle"]
    /\ known = [c \in Call |-> <<>>] /\ rest = [c \in Call |-> <<>>]
    /\ outcome = [c \in Call |-> "none"]
    /\ moves = 0 /\ drops = 0 /\ steady = {} /\ missed = {}

-----------------------------------------------------------------------------
(* The network.                                                            *)

\* The host gets another address, goes away or comes back.
HostMoves ==
    /\ moves < MaxMoves
    /\ moves' = moves + 1
    /\ host' \in (Address \cup {None}) \ {host}
    /\ steady' = {}
    /\ UNCHANGED <<mdns, drops, saved, loopVars, at, known, rest, outcome, missed>>

-----------------------------------------------------------------------------
(* Endpoints: Client.rememberEndpoint and Client.OnEndpoint.               *)

\* Fault: the other endpoints are not kept.
Prioritized_Alone(e, list) == <<e>>

\* Fault: the endpoint stays in its old place too.
Prioritized_Twice(e, list) == <<e>> \o list

\* Where an endpoint stands in a list, past its end if it is not there.
PlaceOf(e, list) ==
    IF e \in AddressesOf(list) THEN CHOOSE i \in DOMAIN list : list[i] = e ELSE Len(list) + 1

\* The endpoint that answered, before the others the client was made with.
Prioritized(e, list) ==
    LET p == PlaceOf(e, list)
    IN  <<e>> \o SubSeq(list, 1, p - 1) \o SubSeq(list, p + 1, Len(list))

\* Manager.UpdateEndpoints, unless the endpoint was the first already.
Remember(e, list) ==
    saved' = IF e = list[1] THEN saved ELSE Prioritized(e, list)

-----------------------------------------------------------------------------
(* The provider: the goroutine of Daemon.startProvider.                    *)

LoopGoes(from, to) == loop = from /\ loop' = to

\* Fault: the profile is read once.
LoadProfile_Once ==
    /\ ~canceled /\ LoopGoes("load", "dial")
    /\ profile' = IF profile = <<>> THEN saved ELSE profile
    /\ left' = profile'
    /\ UNCHANGED <<worldVars, saved, conn, canceled, connected, callVars>>

\* It loads the profile, and makes a client of its endpoints ...
LoadProfile ==
    /\ ~canceled /\ LoopGoes("load", "dial")
    /\ profile' = saved /\ left' = saved
    /\ UNCHANGED <<worldVars, saved, conn, canceled, connected, callVars>>

\* ... which dials one after another, and no others ...
Dial ==
    /\ ~canceled /\ left # <<>>
    /\ left' = Tail(left)
    /\ \/ host = Head(left) /\ LoopGoes("dial", "announce") /\ conn' = host
       \/ host # Head(left) /\ LoopGoes("dial", "dial") /\ UNCHANGED conn
    /\ UNCHANGED <<worldVars, saved, profile, canceled, connected, callVars>>

\* ... says that the Agent is connected, also when it was stopped meanwhile ...
Announce ==
    /\ LoopGoes("announce", "remember")
    /\ connected' = "on"
    /\ UNCHANGED <<worldVars, saved, profile, left, conn, canceled, callVars>>

RememberDialed ==
    /\ LoopGoes("remember", "serve")
    /\ Remember(conn, profile)
    /\ UNCHANGED <<worldVars, profile, left, conn, canceled, connected, callVars>>

\* ... and serves, until the host is no longer there or the provider is stopped.
HangUp == connected' = "off" /\ conn' = None

SessionEnds ==
    /\ host # conn \/ canceled
    /\ LoopGoes("serve", "dial") /\ HangUp
    /\ UNCHANGED <<worldVars, saved, profile, left, canceled, callVars>>

\* The connection is lost although the host stays.
ConnectionDrops ==
    /\ drops < MaxDrops /\ drops' = drops + 1
    /\ LoopGoes("serve", "dial") /\ HangUp
    /\ UNCHANGED <<host, mdns, moves, saved, profile, left, canceled, callVars>>

\* No endpoint is left: the client is done, and the loop waits a while.
NoneLeft ==
    /\ ~canceled /\ left = <<>> /\ LoopGoes("dial", "wait")
    /\ UNCHANGED <<worldVars, saved, profile, left, conn, canceled, connected, callVars>>

BackOff ==
    /\ ~canceled /\ LoopGoes("wait", "load")
    /\ UNCHANGED <<worldVars, saved, profile, left, conn, canceled, connected, callVars>>

\* Daemon.stopProvider forgets the Agent and cancels the loop ...
StopProvider ==
    /\ ~canceled
    /\ canceled' = TRUE /\ connected' = "none"
    /\ UNCHANGED <<worldVars, saved, loop, profile, left, conn, callVars>>

\* ... which notices where it looks at its context ...
NoticeStop ==
    /\ canceled /\ loop \in {"load", "dial", "wait"}
    /\ loop' = "exit"
    /\ UNCHANGED <<worldVars, saved, profile, left, conn, canceled, connected, callVars>>

\* Fault: the deferred function is lost.
Exit_KeepsFlag ==
    /\ LoopGoes("exit", "gone")
    /\ UNCHANGED <<worldVars, saved, profile, left, conn, canceled, connected, callVars>>

\* ... and forgets the Agent again on its way out.
Exit ==
    /\ LoopGoes("exit", "gone")
    /\ connected' = "none"
    /\ UNCHANGED <<worldVars, saved, profile, left, conn, canceled, callVars>>

-----------------------------------------------------------------------------
(* An RPC: Client.RPC with the client of Daemon.currentClient.             *)

CallGoes(c, from, to) == at[c] = from /\ at' = [at EXCEPT ![c] = to]

\* A call returns, and its client is gone.
CallEnds(c, result) ==
    /\ at' = [at EXCEPT ![c] = "done"]
    /\ known' = [known EXCEPT ![c] = <<>>] /\ rest' = [rest EXCEPT ![c] = <<>>]
    /\ outcome' = [outcome EXCEPT ![c] = result]

Begin(c) ==
    /\ CallGoes(c, "idle", "post")
    /\ known' = [known EXCEPT ![c] = saved] /\ rest' = [rest EXCEPT ![c] = saved]
    /\ steady' = IF host = None THEN steady ELSE steady \cup {c}
    /\ UNCHANGED <<worldVars, saved, loopVars, outcome, missed>>

\* The host answers at its own address only: elsewhere nothing answers, or nothing
\* that can be read.
Post(c) ==
    /\ at[c] \in {"post", "again"} /\ rest[c] # <<>>
    /\ \/ /\ host = Head(rest[c])
          /\ at' = [at EXCEPT ![c] = "remember"]
          /\ UNCHANGED rest
       \/ /\ host # Head(rest[c])
          /\ rest' = [rest EXCEPT ![c] = Tail(@)]
          /\ UNCHANGED at
    /\ UNCHANGED <<worldVars, saved, loopVars, known, outcome, steady, missed>>

\* The host rejects the call, or a stranger answers with a message that the host
\* did not sign: the error ends the call, whatever endpoints are left.
Refused(c) ==
    /\ at[c] \in {"post", "again"} /\ rest[c] # <<>>
    /\ CallEnds(c, "failed")
    /\ UNCHANGED <<worldVars, saved, loopVars, steady, missed>>

\* Fault: the host is not looked for.
Discover_Skipped(c) ==
    /\ rest[c] = <<>> /\ CallGoes(c, "post", "again")
    /\ UNCHANGED <<worldVars, saved, loopVars, known, rest, outcome, steady, missed>>

\* No endpoint answered: discovery.Discover queries mDNS ...
Discover(c) ==
    /\ rest[c] = <<>> /\ CallGoes(c, "post", "query")
    /\ UNCHANGED <<worldVars, saved, loopVars, known, rest, outcome, steady, missed>>

\* ... and takes the answers as they come.  Those of other devices, which prove
\* nothing, are left out.
TakeEntry(c) ==
    /\ at[c] = "query" /\ mdns /\ host # None
    /\ host \notin AddressesOf(rest[c])
    /\ rest' = [rest EXCEPT ![c] = Append(@, host)]
    /\ UNCHANGED <<worldVars, saved, loopVars, at, known, outcome, steady, missed>>

\* Two seconds later the query is over.  The select may take its end before an
\* answer that is still in the channel.
QueryEnds(c) ==
    /\ CallGoes(c, "query", "validate")
    /\ missed' = IF host \in AddressesOf(rest[c]) THEN missed ELSE missed \cup {c}
    /\ UNCHANGED <<worldVars, saved, loopVars, known, rest, outcome, steady>>

\* validateCandidates keeps the endpoints where the host proves its identity.
Validate(c) ==
    /\ CallGoes(c, "validate", "again")
    /\ rest' = [rest EXCEPT ![c] = IF host \in AddressesOf(@) THEN <<host>> ELSE <<>>]
    /\ UNCHANGED <<worldVars, saved, loopVars, known, outcome, steady, missed>>

\* The deadline of the caller has passed.
Expire(c) ==
    /\ at[c] \in {"post", "query", "validate", "again"}
    /\ CallEnds(c, "failed")
    /\ UNCHANGED <<worldVars, saved, loopVars, steady, missed>>

GiveUp(c) ==
    /\ at[c] = "again" /\ rest[c] = <<>>
    /\ CallEnds(c, "offline")
    /\ UNCHANGED <<worldVars, saved, loopVars, steady, missed>>

RememberAnswered(c) ==
    /\ at[c] = "remember"
    /\ CallEnds(c, "ok")
    /\ Remember(Head(rest[c]), known[c])
    /\ UNCHANGED <<worldVars, loopVars, steady, missed>>

-----------------------------------------------------------------------------

LoopStep ==
    \/ LoadProfile \/ Dial    \/ Announce   \/ RememberDialed
    \/ NoneLeft    \/ BackOff \/ NoticeStop \/ Exit
    \/ SessionEnds

CallStep(c) ==
    \/ Post(c)   \/ Refused(c) \/ Discover(c) \/ QueryEnds(c) \/ Validate(c)
    \/ GiveUp(c) \/ RememberAnswered(c)

Next ==
    \/ HostMoves \/ ConnectionDrops \/ StopProvider \/ LoopStep
    \/ \E c \in Call : Begin(c) \/ TakeEntry(c) \/ Expire(c) \/ CallStep(c)

Spec == Init /\ [][Next]_vars

\* The goroutine of the provider and the calls that were begun go on.
FairSpec == Spec /\ WF_vars(LoopStep) /\ \A c \in Call : WF_vars(CallStep(c))

-----------------------------------------------------------------------------

\* However clients with different ideas of the endpoints overwrite each other,
\* state.json keeps every address of the invitation.
InvitedAreKept == AddressesOf(Invited) \subseteq AddressesOf(saved)

\* A call reports the host as offline only when it moved or was down meanwhile,
\* or when its answer was not taken in time, as without multicast: no endpoint in
\* state.json, and nothing discovery found, is passed over.
OfflineIsReal ==
    \A c \in Call : outcome[c] = "offline" => c \notin steady \/ c \in missed

\* A provider that was stopped disappears from the status for good, also when
\* it was just connecting.
StoppedIsForgotten == canceled ~> [](connected = "none" /\ loop = "gone")

\* When the endpoints in state.json come to hold the address of the host, and
\* keep it, the provider comes to serve, whatever it had loaded before.
KnownHostIsServed ==
    <>[](host \in AddressesOf(saved)) => <>[](loop = "serve" \/ canceled)

-----------------------------------------------------------------------------
(* What the documentation says and the code does not do.                   *)

\* "When the host's address changes and mDNS is there, the connection is back
\* within 15 seconds": the provider comes to serve a host that stays up.
ProviderFollowsHost ==
    <>[](host # None /\ mdns) => <>[](loop = "serve" \/ canceled)
=============================================================================

----------------------------- MODULE Membership -----------------------------
(***************************************************************************)
(* Who belongs to one Project and which Agents it lists: the rows of its   *)
(* Project Host (internal/lanhost/store.go), the RPC handlers that change  *)
(* them (server.go), and devices that join with an invitation (client.go). *)
(*                                                                         *)
(* Grain: one step per SQL statement or transaction; the store has one     *)
(* database connection, so they are serial.  A handler that runs several   *)
(* of them interleaves with the others in between.                         *)
(***************************************************************************)
EXTENDS Naturals, FiniteSets

CONSTANTS
    Member,      \* member IDs; each join makes a key, and so an ID, of its own
    Owner,       \* the member that created the Project
    Agent,       \* Agent IDs
    Name,        \* Agent names
    Invite,      \* invitation IDs
    InviteOf,    \* the invitation a member joins with
    Op,          \* signed RPCs that reach their handler
    MaxPosts,    \* bound: posts of one join request
    MaxWork,     \* bound: RPCs, and devices that post theirs more than once, together
    MaxRestarts, \* bound: restarts of the host process
    None

Joiner == Member \ {Owner}
Row == [owner : Member, name : Name]

\* The RPCs that change rows, with the member that signed them.  An Agent is
\* selected by its ID or by its name.
InviteRPC == [kind : {"invite"}, by : Member, invite : Invite]
RemoveRPC == [kind : {"remove"}, by : Member, target : Member]
RegisterRPC == [kind : {"register"}, by : Member, agent : Agent, name : Name]
UnregisterRPC == [kind : {"unregister"}, by : Member, selector : Agent \cup Name]
Request == InviteRPC \cup RemoveRPC \cup RegisterRPC \cup UnregisterRPC

MembershipAssumption ==
    /\ Owner \in Member
    /\ InviteOf \in [Member \ {Owner} -> Invite]
    /\ MaxPosts \in Nat /\ MaxWork \in Nat /\ MaxRestarts \in Nat
    /\ None \notin Row \cup Request \cup [agent : Agent, owner : Member]

ASSUME MembershipAssumption

VARIABLES
    \* the store
    members,    \* members rows
    agents,     \* agents rows
    invites,    \* per invitation: none, open or consumed
    expired,    \* invitations past their expiry
    \* RPC handlers
    at,         \* where the handler of an RPC stands
    request,    \* what it handles
    found,      \* the Agent row it has read
    \* joining devices
    joining,    \* idle, next (about to post), waiting or done
    tries,      \* posts of a join request so far
    outcome,    \* what Join returned
    post,       \* where a post of a join request stands
    restarts,
    \* history
    admitted,   \* members an invitation has ever let in
    overlapped  \* members removed while an RPC of theirs was about to register

storeVars == <<members, agents, invites, expired>>
opVars == <<at, request, found>>
joinVars == <<joining, tries, outcome, post>>
historyVars == <<admitted, overlapped>>
vars == <<storeVars, opVars, joinVars, restarts, historyVars>>

InProgress == {"add", "actor", "target", "delete", "member", "insert", "row", "rights", "erase"}
Verdict == {"joined", "invite_consumed", "invite_expired",
            "clock_skew", "join_failed"}
PostPc == {"none", "sent", "admitted", "gone"} \cup Verdict

TypeOK ==
    /\ members \in SUBSET Member
    /\ agents \in [Agent -> Row \cup {None}]
    /\ invites \in [Invite -> {"none", "open", "consumed"}]
    /\ expired \in SUBSET Invite
    /\ at \in [Op -> {"new", "done", "refused", "lost"} \cup InProgress]
    /\ request \in [Op -> Request \cup {None}]
    /\ found \in [Op -> [agent : Agent, owner : Member] \cup {None}]
    /\ joining \in [Joiner -> {"idle", "next", "waiting", "done"}]
    /\ tries \in [Joiner -> 0..MaxPosts]
    /\ outcome \in [Joiner -> Verdict \cup {"none", "offline"}]
    /\ post \in [Joiner -> [1..MaxPosts -> PostPc]]
    /\ restarts \in 0..MaxRestarts
    /\ admitted \in [Invite -> SUBSET Member]
    /\ overlapped \in SUBSET Member

\* A Project is handed out with its Owner and a first invitation
\* (Daemon.createProject); more of them may have been made by now.
Init ==
    /\ members = {Owner}
    /\ agents = [g \in Agent |-> None]
    /\ invites \in [Invite -> {"none", "open"}]
    /\ expired = {}
    /\ at = [o \in Op |-> "new"]
    /\ request = [o \in Op |-> None]
    /\ found = [o \in Op |-> None]
    /\ joining = [m \in Joiner |-> "idle"]
    /\ tries = [m \in Joiner |-> 0]
    /\ outcome = [m \in Joiner |-> "none"]
    /\ post = [m \in Joiner |-> [n \in 1..MaxPosts |-> "none"]]
    /\ restarts = 0
    /\ admitted = [i \in Invite |-> {}]
    /\ overlapped = {}

-----------------------------------------------------------------------------
(* RPC handlers: Server.handleRPC, dispatchRPC and the Store operations.   *)

Goto(o, from, to) == at[o] = from /\ at' = [at EXCEPT ![o] = to]

\* Devices that have posted their join request more than once.
Reposters == {m \in Joiner : tries[m] > 1}

MoreWork == Cardinality({o \in Op : at[o] # "new"}) + Cardinality(Reposters) < MaxWork

FirstStep == [invite |-> "add", remove |-> "actor", register |-> "member", unregister |-> "row"]

\* Server.authenticate reads the sender's row; the handler then starts on the
\* operation.
Authenticate(o) ==
    /\ MoreWork
    /\ \E r \in Request :
         /\ request' = [request EXCEPT ![o] = r]
         /\ Goto(o, "new", IF r.by \in members THEN FirstStep[r.kind] ELSE "refused")
    /\ UNCHANGED <<storeVars, found, joinVars, restarts, historyVars>>

\* Server.createInvitation, for the Owner only; an invitation ID is new.
AddInvitation(o) ==
    /\ at[o] = "add"
    /\ \/ /\ request[o].by = Owner /\ invites[request[o].invite] = "none"
          /\ invites' = [invites EXCEPT ![request[o].invite] = "open"]
          /\ Goto(o, "add", "done")
       \/ request[o].by # Owner /\ Goto(o, "add", "refused") /\ UNCHANGED invites
    /\ UNCHANGED <<members, agents, expired, request, found, joinVars, restarts, historyVars>>

\* Store.RemoveMember reads the row of the actor ...
CheckActor(o) ==
    /\ Goto(o, "actor", IF request[o].by \in members /\ request[o].by = Owner
                          THEN "target" ELSE "refused")
    /\ UNCHANGED <<storeVars, request, found, joinVars, restarts, historyVars>>

\* ... and that of the target, which must not be the Owner ...
CheckTarget(o) ==
    /\ Goto(o, "target", IF request[o].target \in members /\ request[o].target # Owner
                           THEN "delete" ELSE "refused")
    /\ UNCHANGED <<storeVars, request, found, joinVars, restarts, historyVars>>

DeleteWith(o, rows) ==
    LET t == request[o].target IN
    /\ at[o] = "delete"
    /\ \/ /\ t \in members
          /\ members' = members \ {t}
          /\ agents' = rows
          /\ overlapped' = IF \E p \in Op : /\ at[p] = "insert" /\ request[p].by = t
                             THEN overlapped \cup {t} ELSE overlapped
          /\ Goto(o, "delete", "done")
       \/ /\ t \notin members
          /\ Goto(o, "delete", "refused")
          /\ UNCHANGED <<members, agents, overlapped>>
    /\ UNCHANGED <<invites, expired, request, found, joinVars, restarts, admitted>>

\* Fault: the Agents of the member stay.
DeleteMember_KeepsAgents(o) == DeleteWith(o, agents)

\* ... then deletes the Agents of the member and the member in a transaction,
\* which is rolled back when the member was gone already.
DeleteMember(o) ==
    DeleteWith(o, [g \in Agent |->
        IF agents[g] # None /\ agents[g].owner = request[o].target THEN None ELSE agents[g]])

\* Store.RegisterAgent reads the row of the member ...
CheckMember(o) ==
    /\ Goto(o, "member", IF request[o].by \in members THEN "insert" ELSE "refused")
    /\ UNCHANGED <<storeVars, request, found, joinVars, restarts, historyVars>>

NameTaken(g, n) == \E h \in Agent \ {g} : agents[h] # None /\ agents[h].name = n

InsertWith(o, allowed) ==
    LET r == request[o] IN
    /\ at[o] = "insert"
    /\ \/ /\ allowed
          /\ agents' = [agents EXCEPT ![r.agent] = [owner |-> IF @ = None THEN r.by ELSE @.owner,
                                                   name |-> r.name]]
          /\ Goto(o, "insert", "done")
       \/ ~allowed /\ Goto(o, "insert", "refused") /\ UNCHANGED agents
    /\ UNCHANGED <<members, invites, expired, request, found, joinVars, restarts, historyVars>>

\* Fault: a row that is met is renamed, whoever owns it.
InsertAgent_AnyOwner(o) ==
    InsertWith(o, ~NameTaken(request[o].agent, request[o].name))

\* ... then inserts the Agent, or renames one that the member owns; no two
\* Agents of the Project have one name.
InsertAgent(o) ==
    LET r == request[o] IN
    InsertWith(o, /\ ~NameTaken(r.agent, r.name)
                  /\ agents[r.agent] # None => agents[r.agent].owner = r.by)

\* Store.RemoveAgent reads the row that the selector names, by ID or by name ...
ReadRow(o) ==
    LET sel == request[o].selector
        Selected == {g \in Agent : agents[g] # None /\ sel \in {g, agents[g].name}}
    IN  /\ at[o] = "row"
        /\ \/ \E g \in Selected :
                /\ found' = [found EXCEPT ![o] = [agent |-> g, owner |-> agents[g].owner]]
                /\ Goto(o, "row", "rights")
           \/ Selected = {} /\ Goto(o, "row", "refused") /\ UNCHANGED found
        /\ UNCHANGED <<storeVars, request, joinVars, restarts, historyVars>>

\* ... then the row of the actor, who owns the Agent or the Project ...
CheckRights(o) ==
    /\ Goto(o, "rights", IF request[o].by \in members /\ request[o].by \in {found[o].owner, Owner}
                           THEN "erase" ELSE "refused")
    /\ UNCHANGED <<storeVars, request, found, joinVars, restarts, historyVars>>

\* ... and deletes the Agent by the ID it read.
EraseAgent(o) ==
    /\ Goto(o, "erase", "done")
    /\ agents' = [agents EXCEPT ![found[o].agent] = None]
    /\ UNCHANGED <<members, invites, expired, request, found, joinVars, restarts, historyVars>>

\* A statement fails, or the requester goes away: the handler returns.
StatementFails(o) ==
    /\ at[o] \in InProgress
    /\ at' = [at EXCEPT ![o] = "refused"]
    /\ UNCHANGED <<storeVars, request, found, joinVars, restarts, historyVars>>

\* The time of an invitation runs out.
Expire(i) ==
    /\ invites[i] # "none" /\ i \notin expired
    /\ expired' = expired \cup {i}
    /\ UNCHANGED <<members, agents, invites, opVars, joinVars, restarts, historyVars>>

-----------------------------------------------------------------------------
(* A device joins: lanhost.Join, Server.handleJoin, ConsumeInvitation.     *)

\* The device signs a join request with a key of its own and the invitation.
StartJoin(m) ==
    /\ joining[m] = "idle" /\ invites[InviteOf[m]] # "none"
    /\ joining' = [joining EXCEPT ![m] = "next"]
    /\ UNCHANGED <<storeVars, opVars, tries, outcome, post, restarts, historyVars>>

\* Fault: the device starts over when no endpoint is left.
PostJoin_StartsOver(m) ==
    /\ joining[m] = "next"
    /\ joining' = [joining EXCEPT ![m] = "waiting"]
    /\ tries' = [tries EXCEPT ![m] = @ + 1]
    /\ post' = [post EXCEPT ![m][tries[m] + 1] = "sent"]
    /\ UNCHANGED <<storeVars, opVars, outcome, restarts, historyVars>>

\* It posts the same request to one endpoint after another ...
PostJoin(m) ==
    /\ joining[m] = "next" /\ tries[m] < MaxPosts
    /\ tries[m] = 0 \/ m \in Reposters \/ MoreWork
    /\ joining' = [joining EXCEPT ![m] = "waiting"]
    /\ tries' = [tries EXCEPT ![m] = @ + 1]
    /\ post' = [post EXCEPT ![m][tries[m] + 1] = "sent"]
    /\ UNCHANGED <<storeVars, opVars, outcome, restarts, historyVars>>

\* ... and goes on to the next when the post fails or its response is lost ...
PostFails(m) ==
    /\ joining[m] = "waiting"
    /\ joining' = [joining EXCEPT ![m] = "next"]
    /\ post' = [post EXCEPT ![m][tries[m]] = IF @ \in Verdict THEN "gone" ELSE @]
    /\ UNCHANGED <<storeVars, opVars, tries, outcome, restarts, historyVars>>

\* ... until none is left.
GiveUp(m) ==
    /\ joining[m] = "next"
    /\ joining' = [joining EXCEPT ![m] = "done"]
    /\ outcome' = [outcome EXCEPT ![m] = "offline"]
    /\ UNCHANGED <<storeVars, opVars, tries, post, restarts, historyVars>>

\* A response, a refusal too, ends the join.
TakeVerdict(m) ==
    /\ joining[m] = "waiting" /\ post[m][tries[m]] \in Verdict
    /\ joining' = [joining EXCEPT ![m] = "done"]
    /\ outcome' = [outcome EXCEPT ![m] = post[m][tries[m]]]
    /\ post' = [post EXCEPT ![m][tries[m]] = "gone"]
    /\ UNCHANGED <<storeVars, opVars, tries, restarts, historyVars>>

\* A response reaches the device only while it waits for that post.
Respond(m, n, verdict) ==
    post' = [post EXCEPT ![m][n] =
               IF joining[m] = "waiting" /\ tries[m] = n THEN verdict ELSE "gone"]

ConsumeIf(m, n, usable) ==
    LET i == InviteOf[m] IN
    /\ post[m][n] = "sent"
    /\ \/ /\ usable /\ m \notin members
          /\ members' = members \cup {m}
          /\ invites' = [invites EXCEPT ![i] = "consumed"]
          /\ admitted' = [admitted EXCEPT ![i] = @ \cup {m}]
          /\ post' = [post EXCEPT ![m][n] = "admitted"]
       \/ /\ \/ invites[i] = "consumed" /\ Respond(m, n, "invite_consumed")
             \/ invites[i] = "open" /\ i \in expired /\ Respond(m, n, "invite_expired")
             \/ invites[i] = "open" /\ i \notin expired /\ Respond(m, n, "clock_skew")
          /\ UNCHANGED <<members, invites, admitted>>
    /\ UNCHANGED <<agents, expired, opVars, joining, tries, outcome, restarts, overlapped>>

\* Fault: the invitation is only looked at.
ConsumeInvitation_Unmarked(m, n) ==
    ConsumeIf(m, n, InviteOf[m] \notin expired)

\* Store.ConsumeInvitation, one transaction: an invitation that is open and
\* not expired, and a request signed recently, make the device a member and
\* consume the invitation.
ConsumeInvitation(m, n) ==
    ConsumeIf(m, n, invites[InviteOf[m]] = "open" /\ InviteOf[m] \notin expired)

\* Server.handleJoin reads the new row for its response; it may be gone again.
ReadJoined(m, n) ==
    /\ post[m][n] = "admitted"
    /\ Respond(m, n, IF m \in members THEN "joined" ELSE "join_failed")
    /\ UNCHANGED <<storeVars, opVars, joining, tries, outcome, restarts, historyVars>>

\* The host process dies and starts again; rows survive.
Restart ==
    /\ restarts < MaxRestarts
    /\ restarts' = restarts + 1
    /\ at' = [o \in Op |-> IF at[o] \in InProgress THEN "lost" ELSE at[o]]
    /\ post' = [m \in Joiner |-> [n \in 1..MaxPosts |->
                  IF post[m][n] \in {"sent", "admitted"} THEN "gone" ELSE post[m][n]]]
    /\ UNCHANGED <<storeVars, request, found, joining, tries, outcome, historyVars>>

-----------------------------------------------------------------------------

OpStep(o) ==
    \/ Authenticate(o) \/ AddInvitation(o) \/ CheckActor(o) \/ CheckTarget(o) \/ DeleteMember(o)
    \/ CheckMember(o) \/ InsertAgent(o) \/ ReadRow(o) \/ CheckRights(o) \/ EraseAgent(o)
    \/ StatementFails(o)

JoinStep(m) ==
    \/ StartJoin(m) \/ PostJoin(m) \/ PostFails(m) \/ GiveUp(m) \/ TakeVerdict(m)
    \/ \E n \in 1..MaxPosts : ConsumeInvitation(m, n) \/ ReadJoined(m, n)

Next ==
    \/ \E o \in Op : OpStep(o)
    \/ \E m \in Joiner : JoinStep(m)
    \/ \E i \in Invite : Expire(i)
    \/ Restart

Spec == Init /\ [][Next]_vars

-----------------------------------------------------------------------------

\* An invitation makes at most one member, however many devices hold it and
\* however often their requests are posted, and nobody joins without one.
InviteAdmitsOne ==
    /\ \A i \in Invite : \A m, k \in admitted[i] : m = k
    /\ \A m \in members \ {Owner} : m \in admitted[InviteOf[m]]

\* A device that was told it joined did become a member.
JoinedWasAdmitted ==
    \A m \in Joiner : outcome[m] = "joined" => m \in admitted[InviteOf[m]]

\* The Project keeps its Owner: no order of removals takes its row away.
OwnerStays == Owner \in members

\* The Agents of a removed member are gone, but for those of a registration
\* that the removal overtook between its two statements.
OrphansAreLate ==
    \A g \in Agent :
        agents[g] # None => agents[g].owner \in members \cup overlapped

\* No handler hands an Agent to another owner: an Agent row changes owner only
\* by going away first.
OwnershipIsFixed ==
    [][\A g \in Agent :
         agents[g] # None /\ agents'[g] # None => agents'[g].owner = agents[g].owner]_vars

-----------------------------------------------------------------------------
(* The directory that these rows and handlers implement.                   *)

\* The RPCs that have succeeded, each with its request.
Done == [o \in Op |-> IF at[o] = "done" THEN request[o] ELSE None]

\* Every Agent that is listed was registered by its owner under its name, in an
\* RPC that succeeded: however the statements of renames, removals and failing
\* registrations meet, no row is made up, outlives its name or changes hands.
ListedWasRegistered ==
    \A g \in Agent : agents[g] # None =>
        \E p \in Op :
            Done[p] = [kind |-> "register", agent |-> g,
                       by |-> agents[g].owner, name |-> agents[g].name]

\* The devices that an invitation has let in, and those that know of it.
Joined == {m \in Joiner : m \in admitted[InviteOf[m]]}
Told == {m \in Joiner : outcome[m] = "joined"}

Registry == INSTANCE Directory WITH done <- Done, late <- overlapped, joined <- Joined, told <- Told

\* The handlers, whose statements interleave, implement a directory on which
\* each RPC acts at once: a handler that is refused, that fails or dies has done
\* nothing, and one that succeeds has done what its member may do.
ImplementsDirectory == Registry!Spec
=============================================================================

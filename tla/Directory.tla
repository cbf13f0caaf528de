------------------------------ MODULE Directory ------------------------------
(***************************************************************************)
(* What the directory of a Project promises, without handlers, statements  *)
(* or processes: each RPC that succeeds takes effect at once, by the       *)
(* rights of the member that signed it, and a join uses up an invitation.  *)
(* Two things that the host does not prevent are part of the promise: the  *)
(* last registration of a removed member may come late, and the removal of *)
(* an Agent may go by a registration that is no longer the latest one.     *)
(***************************************************************************)
CONSTANTS Member, Owner, Agent, Invite, InviteOf, Op, Request, None

VARIABLES
    members,  \* who belongs to the Project
    agents,   \* per Agent: its owner and name, or None
    invites,  \* per invitation: none, open or consumed
    done,     \* per RPC: the request that succeeded, or None
    late,     \* members removed while a registration of theirs was under way
    joined,   \* who has joined with an invitation
    told      \* who was told so

vars == <<members, agents, invites, done, late, joined, told>>

Init ==
    /\ members = {Owner}
    /\ agents = [g \in Agent |-> None]
    /\ invites \in [Invite -> {"none", "open"}]
    /\ done = [o \in Op |-> None]
    /\ late = {} /\ joined = {} /\ told = {}

\* The Owner makes another invitation.
Invites(r) ==
    /\ r.by = Owner /\ invites[r.invite] = "none"
    /\ invites' = [invites EXCEPT ![r.invite] = "open"]
    /\ UNCHANGED <<members, agents, late>>

\* The Owner removes another member with its Agents.
Removes(r) ==
    /\ r.by = Owner /\ r.target \in members \ {Owner}
    /\ members' = members \ {r.target}
    /\ agents' = [g \in Agent |->
         IF agents[g] # None /\ agents[g].owner = r.target THEN None ELSE agents[g]]
    /\ late' \in {late, late \cup {r.target}}
    /\ UNCHANGED invites

\* A member, or one removed at that moment, lists a new Agent or renames its own.
Registers(r) ==
    /\ r.by \in members \cup late
    /\ agents[r.agent] # None => agents[r.agent].owner = r.by
    /\ \A h \in Agent \ {r.agent} : agents[h] # None => agents[h].name # r.name
    /\ agents' = [agents EXCEPT ![r.agent] = [owner |-> r.by, name |-> r.name]]
    /\ UNCHANGED <<members, invites, late>>

\* The Owner, or a member that has registered it, removes an Agent by its ID or
\* by a name it was registered under.
Unregisters(r) ==
    /\ \E p \in Op : LET q == done[p] IN
         /\ q # None /\ q.kind = "register"
         /\ r.by \in {q.by, Owner} /\ r.selector \in {q.agent, q.name}
         /\ agents' = [agents EXCEPT ![q.agent] = None]
    /\ UNCHANGED <<members, invites, late>>

Effect(r) ==
    \/ r.kind = "invite" /\ Invites(r)
    \/ r.kind = "remove" /\ Removes(r)
    \/ r.kind = "register" /\ Registers(r)
    \/ r.kind = "unregister" /\ Unregisters(r)

Serve(o) ==
    /\ done[o] = None /\ done'[o] # None
    /\ \E r \in Request : done' = [done EXCEPT ![o] = r] /\ Effect(r)
    /\ UNCHANGED <<joined, told>>

Join(m) ==
    /\ invites[InviteOf[m]] = "open"
    /\ invites' = [invites EXCEPT ![InviteOf[m]] = "consumed"]
    /\ members' = members \cup {m}
    /\ joined' = joined \cup {m}
    /\ UNCHANGED <<agents, done, late, told>>

Tell(m) ==
    /\ m \in joined
    /\ told' = told \cup {m}
    /\ UNCHANGED <<members, agents, invites, done, late, joined>>

Next ==
    \/ \E o \in Op : Serve(o)
    \/ \E m \in Member \ {Owner} : Join(m) \/ Tell(m)

Spec == Init /\ [][Next]_vars
=============================================================================

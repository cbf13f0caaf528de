-------------------------- MODULE MembershipProofs --------------------------
(***************************************************************************)
(* Proofs about Membership, for any number of members, Agents, invitations *)
(* and handlers.                                                           *)
(***************************************************************************)
EXTENDS Membership, TLAPS

\* A handler works on an RPC of its kind, with the row it has read.
HandlerInv ==
    \A o \in Op :
        /\ at[o] \in {"add"} => request[o] \in InviteRPC
        /\ at[o] \in {"actor", "target", "delete"} => request[o] \in RemoveRPC
        /\ at[o] \in {"member", "insert"} => request[o] \in RegisterRPC
        /\ at[o] \in {"row", "rights", "erase"} => request[o] \in UnregisterRPC
        /\ at[o] \in {"rights", "erase"} => found[o] \in [agent : Agent, owner : Member]

\* What a step of an RPC handler does to at, request and found.
LEMMA OpMoves ==
    ASSUME TypeOK, NEW o \in Op, OpStep(o)
    PROVE  /\ \A p \in Op \ {o} : at'[p] = at[p] /\ request'[p] = request[p] /\ found'[p] = found[p]
           /\ at' \in [Op -> {"new", "done", "refused", "lost"} \cup InProgress]
           /\ request' \in [Op -> Request \cup {None}]
           /\ UNCHANGED <<joinVars, restarts, expired>>
           /\ \/ /\ at'[o] \in {"done", "refused"}
                 /\ request'[o] = request[o] \/ at[o] = "new"
              \/ /\ at[o] = "new"
                 /\ \/ request'[o] \in InviteRPC /\ at'[o] = "add"
                    \/ request'[o] \in RemoveRPC /\ at'[o] = "actor"
                    \/ request'[o] \in RegisterRPC /\ at'[o] = "member"
                    \/ request'[o] \in UnregisterRPC /\ at'[o] = "row"
              \/ /\ request'[o] = request[o]
                 /\ <<at[o], at'[o]>> \in {<<"actor", "target">>, <<"target", "delete">>,
                                           <<"member", "insert">>, <<"row", "rights">>,
                                           <<"rights", "erase">>}
<1>a. /\ at \in [Op -> {"new", "done", "refused", "lost"} \cup InProgress]
      /\ request \in [Op -> Request \cup {None}]
      /\ found \in [Op -> [agent : Agent, owner : Member] \cup {None}]
  BY DEF TypeOK
<1>1. CASE Authenticate(o)
  <2>1. PICK r \in Request :
          /\ request' = [request EXCEPT ![o] = r]
          /\ Goto(o, "new", IF r.by \in members THEN FirstStep[r.kind] ELSE "refused")
    BY <1>1 DEF Authenticate
  <2>2. \/ r \in InviteRPC /\ FirstStep[r.kind] = "add"
        \/ r \in RemoveRPC /\ FirstStep[r.kind] = "actor"
        \/ r \in RegisterRPC /\ FirstStep[r.kind] = "member"
        \/ r \in UnregisterRPC /\ FirstStep[r.kind] = "row"
    BY DEF Request, InviteRPC, RemoveRPC, RegisterRPC, UnregisterRPC, FirstStep
  <2>3. UNCHANGED <<found, joinVars, restarts, expired>>
    BY <1>1 DEF Authenticate, storeVars
  <2>. QED BY <1>a, <2>1, <2>2, <2>3 DEF Goto, InProgress
<1>2. CASE AddInvitation(o) \/ CheckActor(o) \/ CheckTarget(o) \/ DeleteMember(o) \/ CheckMember(o)
  BY <1>a, <1>2 DEF AddInvitation, CheckActor, CheckTarget, DeleteMember, DeleteWith, CheckMember,
     Goto, InProgress, storeVars
<1>3. CASE InsertAgent(o) \/ CheckRights(o) \/ EraseAgent(o) \/ StatementFails(o)
  BY <1>a, <1>3 DEF InsertAgent, InsertWith, CheckRights, EraseAgent, StatementFails,
     Goto, InProgress, storeVars
<1>4. CASE ReadRow(o)
  BY <1>a, <1>4 DEF ReadRow, Goto, InProgress, storeVars
<1>. QED BY <1>1, <1>2, <1>3, <1>4 DEF OpStep

LEMMA OpHandlerInv ==
    ASSUME TypeOK, HandlerInv, NEW o \in Op, OpStep(o)
    PROVE  HandlerInv'
<1>1. ASSUME NEW p \in Op, p # o
      PROVE  at'[p] = at[p] /\ request'[p] = request[p] /\ found'[p] = found[p]
  BY <1>1, OpMoves
<1>2. /\ at'[o] \in {"rights", "erase"} => found'[o] \in [agent : Agent, owner : Member]
  <2>1. CASE ReadRow(o)
    BY <2>1 DEF ReadRow, TypeOK, Goto, Row
  <2>2. CASE ~ReadRow(o)
    <3>1. UNCHANGED found
      BY <2>2 DEF OpStep, Authenticate, AddInvitation, CheckActor, CheckTarget, DeleteMember,
         DeleteWith, CheckMember, InsertAgent, InsertWith, CheckRights, EraseAgent, StatementFails
    <3>2. at[o] \notin {"row"} \/ at'[o] \notin {"rights"}
      BY <2>2 DEF OpStep, Authenticate, AddInvitation, CheckActor, CheckTarget, DeleteMember,
         DeleteWith, CheckMember, InsertAgent, InsertWith, CheckRights, EraseAgent, StatementFails,
         Goto, TypeOK
    <3>. QED BY <3>1, <3>2, OpMoves DEF HandlerInv
  <2>. QED BY <2>1, <2>2
<1>3. /\ at'[o] \in {"add"} => request'[o] \in InviteRPC
      /\ at'[o] \in {"actor", "target", "delete"} => request'[o] \in RemoveRPC
      /\ at'[o] \in {"member", "insert"} => request'[o] \in RegisterRPC
      /\ at'[o] \in {"row", "rights", "erase"} => request'[o] \in UnregisterRPC
  BY OpMoves DEF HandlerInv
<1>. QED BY <1>1, <1>2, <1>3 DEF HandlerInv

LEMMA OpTypeOK ==
    ASSUME TypeOK, HandlerInv, NEW o \in Op, OpStep(o)
    PROVE  TypeOK'
<1>a. /\ members \in SUBSET Member /\ agents \in [Agent -> Row \cup {None}]
      /\ invites \in [Invite -> {"none", "open", "consumed"}]
      /\ admitted \in [Invite -> SUBSET Member] /\ overlapped \in SUBSET Member
      /\ at \in [Op -> {"new", "done", "refused", "lost"} \cup InProgress]
      /\ found \in [Op -> [agent : Agent, owner : Member] \cup {None}]
  BY DEF TypeOK
<1>1. /\ members' \in SUBSET Member /\ overlapped' \in SUBSET Member
      /\ invites' \in [Invite -> {"none", "open", "consumed"}]
      /\ UNCHANGED admitted
  <2>1. CASE DeleteMember(o)
    <3>1. request[o].target \in Member
      BY <2>1 DEF DeleteMember, DeleteWith, HandlerInv, RemoveRPC
    <3>. QED BY <1>a, <2>1, <3>1 DEF DeleteMember, DeleteWith
  <2>2. CASE AddInvitation(o)
    BY <1>a, <2>2 DEF AddInvitation, historyVars
  <2>3. CASE ~DeleteMember(o) /\ ~AddInvitation(o)
    BY <1>a, <2>3 DEF OpStep, Authenticate, CheckActor, CheckTarget, CheckMember, InsertAgent,
       InsertWith, ReadRow, CheckRights, EraseAgent, StatementFails, storeVars, historyVars
  <2>. QED BY <2>1, <2>2, <2>3
<1>2. agents' \in [Agent -> Row \cup {None}]
  <2>1. CASE InsertAgent(o)
    <3>1. request[o].by \in Member /\ request[o].name \in Name /\ request[o].agent \in Agent
      BY <2>1 DEF InsertAgent, InsertWith, HandlerInv, RegisterRPC
    <3>2. \A g \in Agent : [owner |-> IF agents[g] = None THEN request[o].by ELSE agents[g].owner,
                             name |-> request[o].name] \in Row
      BY <1>a, <3>1 DEF Row
    <3>. QED BY <1>a, <2>1, <3>1, <3>2 DEF InsertAgent, InsertWith
  <2>2. CASE DeleteMember(o)
    BY <1>a, <2>2 DEF DeleteMember, DeleteWith
  <2>3. CASE EraseAgent(o)
    BY <1>a, <2>3 DEF EraseAgent
  <2>4. CASE ~InsertAgent(o) /\ ~DeleteMember(o) /\ ~EraseAgent(o)
    BY <1>a, <2>4 DEF OpStep, Authenticate, AddInvitation, CheckActor, CheckTarget, CheckMember,
       ReadRow, CheckRights, StatementFails, storeVars
  <2>. QED BY <2>1, <2>2, <2>3, <2>4
<1>3. found' \in [Op -> [agent : Agent, owner : Member] \cup {None}]
  <2>1. CASE ReadRow(o)
    BY <1>a, <2>1 DEF ReadRow, Row
  <2>2. CASE ~ReadRow(o)
    BY <1>a, <2>2 DEF OpStep, Authenticate, AddInvitation, CheckActor, CheckTarget, DeleteMember,
       DeleteWith, CheckMember, InsertAgent, InsertWith, CheckRights, EraseAgent, StatementFails
  <2>. QED BY <2>1, <2>2
<1>. QED BY <1>1, <1>2, <1>3, OpMoves DEF TypeOK, joinVars

\* What a step of a joining device, or of the host on its request, does.
LEMMA JoinMoves ==
    ASSUME TypeOK, NEW m \in Joiner, JoinStep(m)
    PROVE  /\ UNCHANGED <<opVars, agents, expired, restarts, overlapped>>
           /\ TypeOK'
<1>a. /\ joining \in [Joiner -> {"idle", "next", "waiting", "done"}]
      /\ tries \in [Joiner -> 0..MaxPosts]
      /\ outcome \in [Joiner -> Verdict \cup {"none", "offline"}]
      /\ post \in [Joiner -> [1..MaxPosts -> PostPc]]
      /\ members \in SUBSET Member
      /\ invites \in [Invite -> {"none", "open", "consumed"}]
      /\ admitted \in [Invite -> SUBSET Member]
      /\ m \in Member /\ InviteOf[m] \in Invite /\ MaxPosts \in Nat
  BY MembershipAssumption DEF TypeOK, Joiner, MembershipAssumption
<1>1. CASE StartJoin(m) \/ GiveUp(m)
  BY <1>a, <1>1 DEF StartJoin, GiveUp, TypeOK, storeVars, opVars, historyVars
<1>6. "gone" \in PostPc
  BY DEF PostPc
<1>7. CASE PostFails(m)
  <2>1. post' \in [Joiner -> [1..MaxPosts -> PostPc]]
    BY <1>a, <1>6, <1>7 DEF PostFails
  <2>2. joining' \in [Joiner -> {"idle", "next", "waiting", "done"}]
    BY <1>a, <1>7 DEF PostFails
  <2>. QED BY <1>7, <2>1, <2>2 DEF PostFails, TypeOK, storeVars, opVars, historyVars
<1>5. CASE TakeVerdict(m)
  <2>1. post[m][tries[m]] \in Verdict \cup {"none", "offline"}
    BY <1>5 DEF TakeVerdict
  <2>2. outcome' \in [Joiner -> Verdict \cup {"none", "offline"}]
    BY <1>a, <1>5, <2>1 DEF TakeVerdict
  <2>3. post' \in [Joiner -> [1..MaxPosts -> PostPc]]
    BY <1>a, <1>5, <1>6 DEF TakeVerdict
  <2>4. joining' \in [Joiner -> {"idle", "next", "waiting", "done"}]
    BY <1>a, <1>5 DEF TakeVerdict
  <2>. QED BY <1>5, <2>2, <2>3, <2>4 DEF TakeVerdict, TypeOK, storeVars, opVars, historyVars
<1>2. CASE PostJoin(m)
  <2>1. tries[m] + 1 \in 1..MaxPosts /\ "sent" \in PostPc
    BY <1>a, <1>2 DEF PostJoin, PostPc
  <2>2. /\ post' \in [Joiner -> [1..MaxPosts -> PostPc]]
        /\ tries' \in [Joiner -> 0..MaxPosts]
        /\ joining' \in [Joiner -> {"idle", "next", "waiting", "done"}]
    BY <1>a, <1>2, <2>1 DEF PostJoin
  <2>3. UNCHANGED <<storeVars, opVars, outcome, restarts, historyVars>>
    BY <1>2 DEF PostJoin
  <2>. QED BY <2>2, <2>3 DEF TypeOK, storeVars, opVars, historyVars
<1>3. ASSUME NEW n \in 1..MaxPosts, ConsumeInvitation(m, n)
      PROVE  UNCHANGED <<opVars, agents, expired, restarts, overlapped>> /\ TypeOK'
  <2>1. UNCHANGED <<agents, expired, opVars, joining, tries, outcome, restarts, overlapped>>
    BY <1>3 DEF ConsumeInvitation, ConsumeIf
  <2>2. \E v \in PostPc : post' = [post EXCEPT ![m][n] = v]
    BY <1>3 DEF ConsumeInvitation, ConsumeIf, Respond, PostPc, Verdict
  <2>3. post' \in [Joiner -> [1..MaxPosts -> PostPc]]
    BY <1>a, <2>2
  <2>4. /\ members' \in SUBSET Member
        /\ invites' \in [Invite -> {"none", "open", "consumed"}]
        /\ admitted' \in [Invite -> SUBSET Member]
    <3>1. \/ UNCHANGED <<members, invites, admitted>>
          \/ /\ members' = members \cup {m}
             /\ invites' = [invites EXCEPT ![InviteOf[m]] = "consumed"]
             /\ admitted' = [admitted EXCEPT ![InviteOf[m]] = @ \cup {m}]
      BY <1>3 DEF ConsumeInvitation, ConsumeIf
    <3>2. CASE UNCHANGED <<members, invites, admitted>>
      BY <1>a, <3>2
    <3>3. CASE /\ members' = members \cup {m}
               /\ invites' = [invites EXCEPT ![InviteOf[m]] = "consumed"]
               /\ admitted' = [admitted EXCEPT ![InviteOf[m]] = @ \cup {m}]
      <4>1. admitted[InviteOf[m]] \cup {m} \in SUBSET Member
        BY <1>a
      <4>2. admitted' \in [Invite -> SUBSET Member]
        BY <3>3, <4>1, <1>a
      <4>. QED BY <1>a, <3>3, <4>2
    <3>. QED BY <3>1, <3>2, <3>3
  <2>. QED BY <2>1, <2>3, <2>4 DEF TypeOK, opVars
<1>4. ASSUME NEW n \in 1..MaxPosts, ReadJoined(m, n)
      PROVE  UNCHANGED <<opVars, agents, expired, restarts, overlapped>> /\ TypeOK'
  <2>1. \E v \in PostPc : post' = [post EXCEPT ![m][n] = v]
    BY <1>4 DEF ReadJoined, Respond, PostPc, Verdict
  <2>2. post' \in [Joiner -> [1..MaxPosts -> PostPc]]
    BY <1>a, <2>1
  <2>. QED BY <1>4, <2>2 DEF ReadJoined, TypeOK, opVars, storeVars, historyVars
<1>. QED BY <1>1, <1>2, <1>3, <1>4, <1>5, <1>7 DEF JoinStep

LEMMA RestartTypeOK == TypeOK /\ HandlerInv /\ Restart => TypeOK' /\ HandlerInv'
  BY MembershipAssumption DEF MembershipAssumption, Restart, TypeOK, HandlerInv, PostPc, storeVars,
     historyVars, InProgress

LEMMA TypeStep == TypeOK /\ HandlerInv /\ [Next]_vars => TypeOK' /\ HandlerInv'
<1> SUFFICES ASSUME TypeOK, HandlerInv, [Next]_vars PROVE TypeOK' /\ HandlerInv'
  OBVIOUS
<1>1. ASSUME NEW o \in Op, OpStep(o) PROVE TypeOK' /\ HandlerInv'
  BY <1>1, OpTypeOK, OpHandlerInv
<1>2. ASSUME NEW m \in Joiner, JoinStep(m) PROVE TypeOK' /\ HandlerInv'
  BY <1>2, JoinMoves DEF HandlerInv, opVars
<1>3. ASSUME NEW i \in Invite, Expire(i) PROVE TypeOK' /\ HandlerInv'
  BY <1>3 DEF Expire, TypeOK, HandlerInv, opVars, joinVars, historyVars
<1>4. CASE UNCHANGED vars
  BY <1>4 DEF vars, TypeOK, HandlerInv, storeVars, opVars, joinVars, historyVars
<1>. QED BY <1>1, <1>2, <1>3, <1>4, RestartTypeOK DEF Next

LEMMA InitTypes == Init => TypeOK /\ HandlerInv
  BY MembershipAssumption
     DEF MembershipAssumption, Init, TypeOK, HandlerInv, InProgress, PostPc, Verdict

\* The types hold in every reachable state, and every handler works on an RPC
\* of its kind.
THEOREM TypeCorrect == Spec => [](TypeOK /\ HandlerInv)
  BY InitTypes, TypeStep, PTL DEF Spec

\* The type invariant, for the run that checks it.
THEOREM TypeInvariant == Spec => []TypeOK
  BY TypeCorrect, PTL
-----------------------------------------------------------------------------
(* The rows.                                                               *)

\* No handler is about to delete the Owner.
OwnerInv ==
    /\ OwnerStays
    /\ \A o \in Op : at[o] = "delete" => request[o].target # Owner

LEMMA OpOwner ==
    ASSUME TypeOK, HandlerInv, OwnerInv, NEW o \in Op, OpStep(o)
    PROVE  OwnerInv'
<1>1. ASSUME NEW p \in Op, p # o
      PROVE  at'[p] = at[p] /\ request'[p] = request[p]
  BY <1>1, OpMoves
<1>2. at'[o] = "delete" => request'[o].target # Owner
  <2>1. CASE CheckTarget(o)
    BY <2>1 DEF CheckTarget, Goto, TypeOK
  <2>2. CASE ~CheckTarget(o)
    <3>1. at[o] # "target" \/ at'[o] # "delete"
      BY <2>2 DEF OpStep, Authenticate, AddInvitation, CheckActor, DeleteMember, DeleteWith,
         CheckMember, InsertAgent, InsertWith, ReadRow, CheckRights, EraseAgent, StatementFails,
         Goto, TypeOK
    <3>. QED BY <3>1, OpMoves
  <2>. QED BY <2>1, <2>2
<1>3. Owner \in members'
  <2>1. CASE DeleteMember(o)
    BY <2>1 DEF DeleteMember, DeleteWith, OwnerInv, OwnerStays
  <2>2. CASE ~DeleteMember(o)
    <3>1. UNCHANGED members
      BY <2>2 DEF OpStep, Authenticate, AddInvitation, CheckActor, CheckTarget, CheckMember,
         InsertAgent, InsertWith, ReadRow, CheckRights, EraseAgent, StatementFails, storeVars
    <3>. QED BY <3>1 DEF OwnerInv, OwnerStays
  <2>. QED BY <2>1, <2>2
<1>. QED BY <1>1, <1>2, <1>3 DEF OwnerInv, OwnerStays

\* A step of a joining device adds at most itself to the members, and then
\* consumes an open invitation.
LEMMA JoinRows ==
    ASSUME TypeOK, NEW m \in Joiner, JoinStep(m)
    PROVE  \/ UNCHANGED <<members, invites, admitted>>
           \/ /\ invites[InviteOf[m]] = "open"
              /\ members' = members \cup {m}
              /\ invites' = [invites EXCEPT ![InviteOf[m]] = "consumed"]
              /\ admitted' = [admitted EXCEPT ![InviteOf[m]] = @ \cup {m}]
<1>1. CASE StartJoin(m) \/ PostJoin(m) \/ PostFails(m) \/ GiveUp(m) \/ TakeVerdict(m)
  BY <1>1 DEF StartJoin, PostJoin, PostFails, GiveUp, TakeVerdict, storeVars, historyVars
<1>2. ASSUME NEW n \in 1..MaxPosts, ConsumeInvitation(m, n)
      PROVE  \/ UNCHANGED <<members, invites, admitted>>
             \/ /\ invites[InviteOf[m]] = "open"
                /\ members' = members \cup {m}
                /\ invites' = [invites EXCEPT ![InviteOf[m]] = "consumed"]
                /\ admitted' = [admitted EXCEPT ![InviteOf[m]] = @ \cup {m}]
  BY <1>2 DEF ConsumeInvitation, ConsumeIf
<1>3. ASSUME NEW n \in 1..MaxPosts, ReadJoined(m, n)
      PROVE  UNCHANGED <<members, invites, admitted>>
  BY <1>3 DEF ReadJoined, storeVars, historyVars
<1>. QED BY <1>1, <1>2, <1>3 DEF JoinStep

LEMMA OwnerStep == TypeOK /\ HandlerInv /\ OwnerInv /\ [Next]_vars => OwnerInv'
<1> SUFFICES ASSUME TypeOK, HandlerInv, OwnerInv, [Next]_vars PROVE OwnerInv'
  OBVIOUS
<1>1. ASSUME NEW o \in Op, OpStep(o) PROVE OwnerInv'
  BY <1>1, OpOwner
<1>2. ASSUME NEW m \in Joiner, JoinStep(m) PROVE OwnerInv'
  BY <1>2, JoinMoves, JoinRows DEF OwnerInv, OwnerStays, opVars
<1>3. ASSUME NEW i \in Invite, Expire(i) PROVE OwnerInv'
  BY <1>3 DEF Expire, OwnerInv, OwnerStays, opVars
<1>4. CASE Restart
  BY <1>4 DEF Restart, OwnerInv, OwnerStays, storeVars, InProgress
<1>5. CASE UNCHANGED vars
  BY <1>5 DEF vars, OwnerInv, OwnerStays, storeVars, opVars
<1>. QED BY <1>1, <1>2, <1>3, <1>4, <1>5 DEF Next

LEMMA OwnerCorrect == Spec => []OwnerInv
<1>1. Init => OwnerInv
  BY DEF Init, OwnerInv, OwnerStays
<1>. QED BY <1>1, OwnerStep, TypeCorrect, PTL DEF Spec

\* No order of removals takes the row of the Owner away.
THEOREM OwnerIsKept == Spec => []OwnerStays
<1>1. OwnerInv => OwnerStays
  BY DEF OwnerInv
<1>. QED BY <1>1, OwnerCorrect, PTL

\* Only a consumed invitation has admitted anyone, and only one member; a post
\* that was answered "joined" did become a member.
InviteInv ==
    /\ \A i \in Invite : invites[i] # "consumed" => admitted[i] = {}
    /\ InviteAdmitsOne
    /\ \A m \in Joiner, n \in 1..MaxPosts :
         post[m][n] \in {"admitted", "joined"} => m \in admitted[InviteOf[m]]
    /\ \A m \in Joiner : joining[m] = "waiting" => tries[m] # 0
    /\ JoinedWasAdmitted

\* An RPC handler consumes no invitation.
LEMMA OpRows ==
    ASSUME TypeOK, NEW o \in Op, OpStep(o)
    PROVE  /\ members' \in SUBSET members
           /\ UNCHANGED <<admitted, joinVars>>
           /\ \A i \in Invite : invites'[i] # "consumed" => invites[i] # "consumed"
<1>1. CASE AddInvitation(o)
  BY <1>1 DEF AddInvitation, joinVars, historyVars, TypeOK
<1>2. CASE DeleteMember(o)
  BY <1>2 DEF DeleteMember, DeleteWith, joinVars
<1>3. CASE ~AddInvitation(o) /\ ~DeleteMember(o)
  BY <1>3 DEF OpStep, Authenticate, CheckActor, CheckTarget, CheckMember, InsertAgent, InsertWith,
     ReadRow, CheckRights, EraseAgent, StatementFails, storeVars, joinVars, historyVars
<1>. QED BY <1>1, <1>2, <1>3

\* What a step of a joining device answers and is told.
LEMMA JoinAnswers ==
    ASSUME TypeOK, InviteInv, NEW m \in Joiner, JoinStep(m)
    PROVE  /\ \A k \in Joiner \ {m} :
                /\ post'[k] = post[k] /\ outcome'[k] = outcome[k]
                /\ joining'[k] = joining[k] /\ tries'[k] = tries[k]
           /\ joining'[m] = "waiting" => tries'[m] # 0
           /\ \A n \in 1..MaxPosts :
                post'[m][n] \in {"admitted", "joined"} => m \in admitted'[InviteOf[m]]
           /\ outcome'[m] = "joined" => m \in admitted'[InviteOf[m]]
<1>a. /\ post \in [Joiner -> [1..MaxPosts -> PostPc]]
      /\ outcome \in [Joiner -> Verdict \cup {"none", "offline"}]
      /\ tries \in [Joiner -> 0..MaxPosts]
      /\ joining \in [Joiner -> {"idle", "next", "waiting", "done"}]
      /\ admitted \in [Invite -> SUBSET Member]
      /\ m \in Member /\ InviteOf[m] \in Invite /\ MaxPosts \in Nat
  BY MembershipAssumption DEF TypeOK, Joiner, MembershipAssumption
<1>b. /\ \A n \in 1..MaxPosts :
           post[m][n] \in {"admitted", "joined"} => m \in admitted[InviteOf[m]]
      /\ outcome[m] = "joined" => m \in admitted[InviteOf[m]]
      /\ joining[m] = "waiting" => tries[m] # 0
  BY DEF InviteInv, JoinedWasAdmitted
<1>c. m \in admitted[InviteOf[m]] => m \in admitted'[InviteOf[m]]
  BY <1>a, JoinRows
<1>1. CASE StartJoin(m)
  BY <1>1, <1>a, <1>b DEF StartJoin, historyVars
<1>7. CASE PostFails(m)
  <2>1. \A l \in 1..MaxPosts : post'[m][l] \in {post[m][l], "gone"}
    BY <1>7, <1>a DEF PostFails
  <2>2. /\ \A k \in Joiner \ {m} : post'[k] = post[k]
        /\ UNCHANGED <<tries, outcome, admitted>>
        /\ joining' = [joining EXCEPT ![m] = "next"]
    BY <1>7, <1>a DEF PostFails, historyVars
  <2>. QED BY <1>a, <1>b, <2>1, <2>2
<1>2. CASE PostJoin(m)
  <2>1. /\ joining' = [joining EXCEPT ![m] = "waiting"]
        /\ tries' = [tries EXCEPT ![m] = @ + 1]
        /\ post' = [post EXCEPT ![m][tries[m] + 1] = "sent"]
        /\ UNCHANGED <<outcome, admitted>>
    BY <1>2 DEF PostJoin, historyVars
  <2>2. tries[m] + 1 # 0 /\ tries'[m] = tries[m] + 1
    BY <1>a, <2>1
  <2>3. \A n \in 1..MaxPosts : post'[m][n] = "sent" \/ post'[m][n] = post[m][n]
    BY <1>a, <2>1
  <2>. QED BY <1>a, <1>b, <2>1, <2>2, <2>3
<1>3. CASE GiveUp(m)
  BY <1>3, <1>a, <1>b DEF GiveUp, historyVars
<1>4. CASE TakeVerdict(m)
  <2>1. tries[m] \in 1..MaxPosts
    BY <1>4, <1>a, <1>b DEF TakeVerdict
  <2>2. /\ \A l \in 1..MaxPosts : post'[m][l] \in {post[m][l], "gone"}
        /\ \A k \in Joiner \ {m} : post'[k] = post[k]
        /\ joining' = [joining EXCEPT ![m] = "done"]
        /\ UNCHANGED <<tries, admitted>>
    BY <1>4, <1>a DEF TakeVerdict, historyVars
  <2>3. /\ outcome'[m] = post[m][tries[m]]
        /\ \A k \in Joiner \ {m} : outcome'[k] = outcome[k]
    BY <1>4, <1>a DEF TakeVerdict
  <2>. QED BY <1>a, <1>b, <2>1, <2>2, <2>3
<1>5. ASSUME NEW n \in 1..MaxPosts, ConsumeInvitation(m, n)
      PROVE  /\ \A k \in Joiner \ {m} : post'[k] = post[k] /\ outcome'[k] = outcome[k]
             /\ UNCHANGED <<joining, tries>>
             /\ \A l \in 1..MaxPosts :
                  post'[m][l] \in {"admitted", "joined"} => m \in admitted'[InviteOf[m]]
             /\ outcome'[m] = "joined" => m \in admitted'[InviteOf[m]]
  <2>1. UNCHANGED <<outcome, joining, tries>>
    BY <1>5 DEF ConsumeInvitation, ConsumeIf
  <2>2. \/ /\ admitted' = [admitted EXCEPT ![InviteOf[m]] = @ \cup {m}]
           /\ post' = [post EXCEPT ![m][n] = "admitted"]
        \/ \E v \in {"invite_consumed", "invite_expired", "clock_skew", "gone"} :
             post' = [post EXCEPT ![m][n] = v]
    BY <1>5 DEF ConsumeInvitation, ConsumeIf, Respond
  <2>3. CASE /\ admitted' = [admitted EXCEPT ![InviteOf[m]] = @ \cup {m}]
             /\ post' = [post EXCEPT ![m][n] = "admitted"]
    <3>1. m \in admitted'[InviteOf[m]]
      BY <1>a, <2>3
    <3>. QED BY <1>a, <2>1, <2>3, <3>1
  <2>4. CASE \E v \in {"invite_consumed", "invite_expired", "clock_skew", "gone"} :
               post' = [post EXCEPT ![m][n] = v]
    <3>1. \A l \in 1..MaxPosts : post'[m][l] \in {"admitted", "joined"} => post'[m][l] = post[m][l]
      BY <1>a, <2>4
    <3>2. \A k \in Joiner \ {m} : post'[k] = post[k]
      BY <1>a, <2>4
    <3>. QED BY <1>b, <1>c, <2>1, <3>1, <3>2
  <2>. QED BY <2>2, <2>3, <2>4
<1>6. ASSUME NEW n \in 1..MaxPosts, ReadJoined(m, n)
      PROVE  /\ \A k \in Joiner \ {m} : post'[k] = post[k] /\ outcome'[k] = outcome[k]
             /\ UNCHANGED <<joining, tries>>
             /\ \A l \in 1..MaxPosts :
                  post'[m][l] \in {"admitted", "joined"} => m \in admitted'[InviteOf[m]]
             /\ outcome'[m] = "joined" => m \in admitted'[InviteOf[m]]
  <2>1. /\ UNCHANGED <<outcome, admitted, joining, tries>> /\ post[m][n] = "admitted"
        /\ \E v \in {"joined", "join_failed", "gone"} : post' = [post EXCEPT ![m][n] = v]
    BY <1>6 DEF ReadJoined, Respond, historyVars
  <2>2. \A k \in Joiner \ {m} : post'[k] = post[k]
    BY <1>a, <2>1
  <2>3. m \in admitted[InviteOf[m]]
    BY <1>6, <1>b, <2>1
  <2>4. UNCHANGED <<outcome, admitted, joining, tries>>
    BY <2>1
  <2>. QED BY <2>2, <2>3, <2>4
<1>. QED BY <1>b, <1>1, <1>2, <1>3, <1>4, <1>5, <1>6, <1>7 DEF JoinStep

LEMMA JoinInvites ==
    ASSUME TypeOK, InviteInv, NEW m \in Joiner, JoinStep(m)
    PROVE  InviteInv'
<1>a. /\ invites \in [Invite -> {"none", "open", "consumed"}]
      /\ admitted \in [Invite -> SUBSET Member]
      /\ m \in Member /\ InviteOf[m] \in Invite /\ m # Owner
      /\ \A k \in members \ {Owner} : k \in Joiner /\ InviteOf[k] \in Invite
  BY MembershipAssumption DEF TypeOK, Joiner, MembershipAssumption
<1>b. /\ \A i \in Invite : invites[i] # "consumed" => admitted[i] = {}
      /\ \A i \in Invite : \A j, k \in admitted[i] : j = k
      /\ \A k \in members \ {Owner} : k \in admitted[InviteOf[k]]
  BY DEF InviteInv, InviteAdmitsOne
<1>1. /\ \A i \in Invite : invites'[i] # "consumed" => admitted'[i] = {}
      /\ \A i \in Invite : \A j, k \in admitted'[i] : j = k
      /\ \A k \in members' \ {Owner} : k \in admitted'[InviteOf[k]]
      /\ \A i \in Invite : admitted[i] \in SUBSET admitted'[i]
  <2>1. CASE UNCHANGED <<members, invites, admitted>>
    BY <1>b, <2>1
  <2>2. CASE /\ invites[InviteOf[m]] = "open"
             /\ members' = members \cup {m}
             /\ invites' = [invites EXCEPT ![InviteOf[m]] = "consumed"]
             /\ admitted' = [admitted EXCEPT ![InviteOf[m]] = @ \cup {m}]
    <3>1. admitted[InviteOf[m]] = {}
      BY <1>a, <1>b, <2>2
    <3>2. /\ \A i \in Invite \ {InviteOf[m]} : admitted'[i] = admitted[i] /\ invites'[i] = invites[i]
          /\ admitted'[InviteOf[m]] = {m} /\ invites'[InviteOf[m]] = "consumed"
      BY <1>a, <2>2, <3>1
    <3>. QED BY <1>a, <1>b, <2>2, <3>1, <3>2
  <2>. QED BY <2>1, <2>2, JoinRows
<1>2. \A k \in Joiner : InviteOf[k] \in Invite
  BY MembershipAssumption DEF MembershipAssumption, Joiner
<1>3. \A k \in Joiner, n \in 1..MaxPosts :
        post'[k][n] \in {"admitted", "joined"} => k \in admitted'[InviteOf[k]]
  <2> SUFFICES ASSUME NEW k \in Joiner, NEW n \in 1..MaxPosts,
                      post'[k][n] \in {"admitted", "joined"}
               PROVE  k \in admitted'[InviteOf[k]]
    OBVIOUS
  <2>1. CASE k = m
    BY <2>1, JoinAnswers
  <2>2. CASE k # m
    <3>1. post'[k] = post[k]
      BY <2>2, JoinAnswers
    <3>2. k \in admitted[InviteOf[k]]
      BY <3>1 DEF InviteInv
    <3>. QED BY <1>1, <1>2, <3>2
  <2>. QED BY <2>1, <2>2
<1>4. \A k \in Joiner : outcome'[k] = "joined" => k \in admitted'[InviteOf[k]]
  <2> SUFFICES ASSUME NEW k \in Joiner, outcome'[k] = "joined"
               PROVE  k \in admitted'[InviteOf[k]]
    OBVIOUS
  <2>1. CASE k = m
    BY <2>1, JoinAnswers
  <2>2. CASE k # m
    <3>1. outcome'[k] = outcome[k]
      BY <2>2, JoinAnswers
    <3>2. k \in admitted[InviteOf[k]]
      BY <3>1 DEF InviteInv, JoinedWasAdmitted
    <3>. QED BY <1>1, <1>2, <3>2
  <2>. QED BY <2>1, <2>2
<1>5. \A k \in Joiner : joining'[k] = "waiting" => tries'[k] # 0
  BY JoinAnswers DEF InviteInv
<1>. QED BY <1>1, <1>3, <1>4, <1>5 DEF InviteInv, InviteAdmitsOne, JoinedWasAdmitted

LEMMA InviteStep == TypeOK /\ InviteInv /\ [Next]_vars => InviteInv'
<1> SUFFICES ASSUME TypeOK, InviteInv, [Next]_vars PROVE InviteInv'
  OBVIOUS
<1>1. ASSUME NEW o \in Op, OpStep(o) PROVE InviteInv'
  BY <1>1, OpRows DEF InviteInv, InviteAdmitsOne, JoinedWasAdmitted, joinVars
<1>2. ASSUME NEW m \in Joiner, JoinStep(m) PROVE InviteInv'
  BY <1>2, JoinInvites
<1>3. ASSUME NEW i \in Invite, Expire(i) PROVE InviteInv'
  BY <1>3 DEF Expire, InviteInv, InviteAdmitsOne, JoinedWasAdmitted, joinVars, historyVars
<1>4. CASE Restart
  BY <1>4 DEF Restart, InviteInv, InviteAdmitsOne, JoinedWasAdmitted, storeVars, historyVars
<1>5. CASE UNCHANGED vars
  BY <1>5 DEF vars, InviteInv, InviteAdmitsOne, JoinedWasAdmitted, storeVars, joinVars, historyVars
<1>. QED BY <1>1, <1>2, <1>3, <1>4, <1>5 DEF Next

LEMMA InviteInit == Init => InviteInv
<1> SUFFICES ASSUME Init PROVE InviteInv
  OBVIOUS
<1>1. /\ \A m \in Joiner, n \in 1..MaxPosts : post[m][n] = "none"
      /\ \A m \in Joiner : outcome[m] = "none" /\ joining[m] = "idle"
  BY DEF Init
<1>. QED BY <1>1 DEF Init, InviteInv, InviteAdmitsOne, JoinedWasAdmitted

LEMMA InvitesCorrect == Spec => []InviteInv
  BY InviteInit, InviteStep, TypeCorrect, PTL DEF Spec

\* An invitation makes at most one member, and nobody joins without one.
THEOREM InvitesAreSingleUse == Spec => []InviteAdmitsOne
<1>1. InviteInv => InviteAdmitsOne
  BY DEF InviteInv
<1>. QED BY <1>1, InvitesCorrect, PTL

\* A device that was told it joined did become a member.
THEOREM JoinsAreReal == Spec => []JoinedWasAdmitted
<1>1. InviteInv => JoinedWasAdmitted
  BY DEF InviteInv
<1>. QED BY <1>1, InvitesCorrect, PTL

\* A registration past its first statement has a member behind it, or one that
\* was removed since.
OrphanInv ==
    /\ OrphansAreLate
    /\ \A o \in Op : at[o] = "insert" => request[o].by \in members \cup overlapped

\* The Agents that an operation other than a deletion of a member leaves.
LEMMA OpAgents ==
    ASSUME TypeOK, HandlerInv, NEW o \in Op, OpStep(o), ~DeleteMember(o)
    PROVE  /\ UNCHANGED <<members, overlapped>>
           /\ \A g \in Agent :
                agents'[g] # None =>
                  \/ agents[g] # None /\ agents'[g].owner = agents[g].owner
                  \/ agents[g] = None /\ at[o] = "insert" /\ agents'[g].owner = request[o].by
<1>a. agents \in [Agent -> Row \cup {None}]
  BY DEF TypeOK
<1>1. CASE InsertAgent(o)
  <2>1. /\ at[o] = "insert" /\ UNCHANGED <<members, overlapped>>
        /\ \/ agents' = [agents EXCEPT ![request[o].agent] =
                           [owner |-> IF @ = None THEN request[o].by ELSE @.owner,
                            name |-> request[o].name]]
           \/ agents' = agents
    BY <1>1 DEF InsertAgent, InsertWith, Goto, historyVars
  <2>. QED BY <1>a, <2>1
<1>2. CASE EraseAgent(o)
  BY <1>a, <1>2 DEF EraseAgent, historyVars
<1>3. CASE ~InsertAgent(o) /\ ~EraseAgent(o)
  BY <1>3 DEF OpStep, Authenticate, AddInvitation, CheckActor, CheckTarget, CheckMember,
     ReadRow, CheckRights, StatementFails, storeVars, historyVars
<1>. QED BY <1>1, <1>2, <1>3

\* The Agents and members that the deletion of a member leaves.
LEMMA DeleteLeaves ==
    ASSUME TypeOK, NEW o \in Op, DeleteMember(o)
    PROVE  /\ \A g \in Agent : agents'[g] # None =>
                /\ agents[g] # None /\ agents'[g] = agents[g]
                /\ agents[g].owner \in members => agents[g].owner \in members'
           /\ overlapped \in SUBSET overlapped'
           /\ \A p \in Op : at[p] = "insert" /\ request[p].by \in members =>
                            request[p].by \in members' \cup overlapped'
<1>a. agents \in [Agent -> Row \cup {None}]
  BY DEF TypeOK
<1>1. CASE UNCHANGED <<members, agents, overlapped>>
  BY <1>1
<1>2. CASE /\ members' = members \ {request[o].target}
           /\ agents' = [g \in Agent |->
                IF agents[g] # None /\ agents[g].owner = request[o].target THEN None ELSE agents[g]]
           /\ overlapped' = IF \E p \in Op : at[p] = "insert" /\ request[p].by = request[o].target
                              THEN overlapped \cup {request[o].target} ELSE overlapped
  BY <1>a, <1>2
<1>. QED BY <1>1, <1>2 DEF DeleteMember, DeleteWith

LEMMA OpOrphans ==
    ASSUME TypeOK, HandlerInv, OrphanInv, NEW o \in Op, OpStep(o)
    PROVE  OrphanInv'
<1>1. \A p \in Op \ {o} : at'[p] = at[p] /\ request'[p] = request[p]
  BY OpMoves
<1>2. CASE DeleteMember(o)
  <2>1. at'[o] # "insert"
    BY <1>2 DEF DeleteMember, DeleteWith, Goto, TypeOK
  <2>. QED BY <1>1, <1>2, <2>1, DeleteLeaves DEF OrphanInv, OrphansAreLate
<1>3. CASE ~DeleteMember(o)
  <2>1. at'[o] = "insert" => request'[o].by \in members
    <3>1. CASE CheckMember(o)
      BY <3>1 DEF CheckMember, Goto, TypeOK
    <3>2. CASE ~CheckMember(o)
      BY <3>2 DEF OpStep, Authenticate, AddInvitation, CheckActor, CheckTarget, DeleteMember,
         DeleteWith, InsertAgent, InsertWith, ReadRow, CheckRights, EraseAgent, StatementFails,
         Goto, TypeOK, FirstStep, Request, InviteRPC, RemoveRPC, RegisterRPC, UnregisterRPC
    <3>. QED BY <3>1, <3>2
  <2>. QED BY <1>1, <1>3, <2>1, OpAgents DEF OrphanInv, OrphansAreLate
<1>. QED BY <1>2, <1>3

LEMMA OrphanStep == TypeOK /\ HandlerInv /\ OrphanInv /\ [Next]_vars => OrphanInv'
<1> SUFFICES ASSUME TypeOK, HandlerInv, OrphanInv, [Next]_vars PROVE OrphanInv'
  OBVIOUS
<1>1. ASSUME NEW o \in Op, OpStep(o) PROVE OrphanInv'
  BY <1>1, OpOrphans
<1>2. ASSUME NEW m \in Joiner, JoinStep(m) PROVE OrphanInv'
  <2>1. members \in SUBSET members'
    BY <1>2, JoinRows
  <2>2. UNCHANGED <<at, request, agents, overlapped>>
    BY <1>2, JoinMoves DEF opVars
  <2>. QED BY <2>1, <2>2 DEF OrphanInv, OrphansAreLate
<1>3. ASSUME NEW i \in Invite, Expire(i) PROVE OrphanInv'
  BY <1>3 DEF Expire, OrphanInv, OrphansAreLate, opVars, historyVars
<1>4. CASE Restart
  BY <1>4 DEF Restart, OrphanInv, OrphansAreLate, storeVars, historyVars, InProgress
<1>5. CASE UNCHANGED vars
  BY <1>5 DEF vars, OrphanInv, OrphansAreLate, storeVars, opVars, historyVars
<1>. QED BY <1>1, <1>2, <1>3, <1>4, <1>5 DEF Next

LEMMA OrphansCorrect == Spec => []OrphanInv
<1>1. Init => OrphanInv
  BY DEF Init, OrphanInv, OrphansAreLate
<1>. QED BY <1>1, OrphanStep, TypeCorrect, PTL DEF Spec

\* The Agents of a removed member are gone, but for those of a registration
\* that the removal overtook.
THEOREM OnlyLateOrphans == Spec => []OrphansAreLate
<1>1. OrphanInv => OrphansAreLate
  BY DEF OrphanInv
<1>. QED BY <1>1, OrphansCorrect, PTL

\* No step hands an Agent to another owner.
THEOREM OwnersAreFixed == Spec => OwnershipIsFixed
<1>1. TypeOK /\ HandlerInv /\ [Next]_vars =>
        [\A g \in Agent : agents[g] # None /\ agents'[g] # None
                            => agents'[g].owner = agents[g].owner]_vars
  <2> SUFFICES ASSUME TypeOK, HandlerInv, [Next]_vars, NEW g \in Agent,
                      agents[g] # None, agents'[g] # None
               PROVE  agents'[g].owner = agents[g].owner
    OBVIOUS
  <2>1. ASSUME NEW o \in Op, OpStep(o) PROVE agents'[g].owner = agents[g].owner
    BY <2>1, OpAgents, DeleteLeaves
  <2>2. ASSUME NEW m \in Joiner, JoinStep(m) PROVE agents'[g].owner = agents[g].owner
    BY <2>2, JoinMoves
  <2>3. ASSUME NEW i \in Invite, Expire(i) PROVE agents'[g].owner = agents[g].owner
    BY <2>3 DEF Expire
  <2>4. CASE Restart \/ UNCHANGED vars
    BY <2>4 DEF Restart, vars, storeVars
  <2>. QED BY <2>1, <2>2, <2>3, <2>4 DEF Next
<1>. QED BY <1>1, TypeCorrect, PTL DEF Spec, OwnershipIsFixed

-----------------------------------------------------------------------------
(* The directory.                                                          *)

RegisteredAs(g, m, n) ==
    \E p \in Op : Done[p] = [kind |-> "register", agent |-> g, by |-> m, name |-> n]

\* What the first statements of a handler have found out still holds at its last
\* one: who removes a member is the Owner, and who removes an Agent is the Owner
\* or has registered it, under the selector if that is a name.
Rights(o) ==
    /\ at[o] = "done" => request[o] \in Request
    /\ at[o] \in {"target", "delete"} => request[o].by = Owner
    /\ at[o] \in {"rights", "erase"} =>
         \E n \in Name : /\ RegisteredAs(found[o].agent, found[o].owner, n)
                        /\ request[o].selector \in {found[o].agent, n}
    /\ at[o] = "erase" => request[o].by \in {found[o].owner, Owner}

RightsInv ==
    /\ ListedWasRegistered
    /\ \A o \in Op : Rights(o)

\* An RPC that has succeeded stays so.
LEMMA DoneKept ==
    ASSUME TypeOK, [Next]_vars, NEW p \in Op, at[p] = "done"
    PROVE  at'[p] = "done" /\ request'[p] = request[p] /\ Done'[p] = Done[p]
<1>1. ASSUME NEW o \in Op, OpStep(o) PROVE at'[p] = "done" /\ request'[p] = request[p]
  <2>1. at[o] # "done"
    BY <1>1 DEF OpStep, Authenticate, AddInvitation, CheckActor, CheckTarget, DeleteMember,
       DeleteWith, CheckMember, InsertAgent, InsertWith, ReadRow, CheckRights, EraseAgent,
       StatementFails, Goto, InProgress
  <2>. QED BY <1>1, <2>1, OpMoves
<1>2. ASSUME NEW m \in Joiner, JoinStep(m) PROVE at'[p] = "done" /\ request'[p] = request[p]
  BY <1>2, JoinMoves DEF opVars
<1>3. ASSUME NEW i \in Invite, Expire(i) PROVE at'[p] = "done" /\ request'[p] = request[p]
  BY <1>3 DEF Expire, opVars
<1>4. ASSUME Restart \/ UNCHANGED vars PROVE at'[p] = "done" /\ request'[p] = request[p]
  BY <1>4 DEF Restart, vars, opVars, InProgress
<1>5. at'[p] = "done" /\ request'[p] = request[p]
  BY <1>1, <1>2, <1>3, <1>4 DEF Next
<1>. QED BY <1>5 DEF Done

LEMMA RegisteredKept ==
    ASSUME TypeOK, [Next]_vars, NEW g \in Agent, NEW m \in Member, NEW n \in Name,
           RegisteredAs(g, m, n)
    PROVE  \E p \in Op : Done'[p] = [kind |-> "register", agent |-> g, by |-> m, name |-> n]
<1>1. PICK p \in Op : Done[p] = [kind |-> "register", agent |-> g, by |-> m, name |-> n]
  BY DEF RegisteredAs
<1>2. [kind |-> "register", agent |-> g, by |-> m, name |-> n] \in Request
  BY DEF Request, RegisterRPC
<1>3. at[p] = "done"
  BY <1>1, <1>2, MembershipAssumption DEF Done, MembershipAssumption
<1>. QED BY <1>1, <1>3, DoneKept

\* A row that an RPC leaves was there, or is that of its own registration.
LEMMA OpListed ==
    ASSUME TypeOK, HandlerInv, NEW o \in Op, OpStep(o), NEW g \in Agent, agents'[g] # None
    PROVE  \/ agents'[g] = agents[g]
           \/ /\ at[o] = "insert" /\ at'[o] = "done" /\ request'[o] = request[o]
              /\ request[o].agent = g
              /\ agents'[g] = [owner |-> request[o].by, name |-> request[o].name]
<1>a. agents \in [Agent -> Row \cup {None}] /\ at \in [Op -> {"new", "done", "refused", "lost"} \cup InProgress]
  BY DEF TypeOK
<1>1. CASE InsertAgent(o)
  <2>1. CASE agents' = agents
    BY <2>1
  <2>2. CASE agents' # agents
    <3>1. /\ at[o] = "insert" /\ at'[o] = "done" /\ request'[o] = request[o]
          /\ agents[request[o].agent] # None => agents[request[o].agent].owner = request[o].by
          /\ agents' = [agents EXCEPT ![request[o].agent] =
               [owner |-> IF @ = None THEN request[o].by ELSE @.owner, name |-> request[o].name]]
      BY <1>1, <1>a, <2>2 DEF InsertAgent, InsertWith, Goto
    <3>2. \/ agents'[g] = agents[g]
          \/ /\ request[o].agent = g
             /\ agents'[g] = [owner |-> IF agents[g] = None THEN request[o].by ELSE agents[g].owner,
                              name |-> request[o].name]
      BY <1>a, <3>1
    <3>. QED BY <3>1, <3>2
  <2>. QED BY <2>1, <2>2
<1>2. CASE DeleteMember(o)
  BY <1>2, DeleteLeaves
<1>3. CASE EraseAgent(o)
  BY <1>a, <1>3 DEF EraseAgent
<1>4. CASE ~InsertAgent(o) /\ ~DeleteMember(o) /\ ~EraseAgent(o)
  BY <1>4 DEF OpStep, Authenticate, AddInvitation, CheckActor, CheckTarget, CheckMember,
     ReadRow, CheckRights, StatementFails, storeVars
<1>. QED BY <1>1, <1>2, <1>3, <1>4

LEMMA OpKeepsListed ==
    ASSUME TypeOK, HandlerInv, RightsInv, NEW o \in Op, OpStep(o)
    PROVE  ListedWasRegistered'
<1> SUFFICES ASSUME NEW g \in Agent, agents'[g] # None
             PROVE  \E p \in Op : Done'[p] = [kind |-> "register", agent |-> g,
                                             by |-> agents'[g].owner, name |-> agents'[g].name]
  BY DEF ListedWasRegistered
<1>1. CASE agents'[g] = agents[g]
  <2>1. RegisteredAs(g, agents[g].owner, agents[g].name)
    BY <1>1 DEF RightsInv, ListedWasRegistered, RegisteredAs
  <2>2. agents[g].owner \in Member /\ agents[g].name \in Name
    BY <1>1 DEF TypeOK, Row
  <2>3. [Next]_vars
    BY DEF Next
  <2>. QED BY <1>1, <2>1, <2>2, <2>3, RegisteredKept
<1>2. CASE /\ at[o] = "insert" /\ at'[o] = "done" /\ request'[o] = request[o]
           /\ request[o].agent = g
           /\ agents'[g] = [owner |-> request[o].by, name |-> request[o].name]
  <2>1. request[o] \in RegisterRPC
    BY <1>2 DEF HandlerInv
  <2>2. request[o] = [kind |-> "register", agent |-> g,
                      by |-> agents'[g].owner, name |-> agents'[g].name]
    BY <1>2, <2>1 DEF RegisterRPC
  <2>3. Done'[o] = request[o]
    BY <1>2 DEF Done
  <2>. QED BY <2>2, <2>3
<1>. QED BY <1>1, <1>2, OpListed

LEMMA RightsKept ==
    ASSUME TypeOK, HandlerInv, RightsInv, [Next]_vars, NEW p \in Op,
           \/ at'[p] = at[p]
           \/ at'[p] \notin {"done", "target", "delete", "rights", "erase"},
           request'[p] = request[p], found'[p] = found[p]
    PROVE  Rights(p)'
<1>a. Rights(p)
  BY DEF RightsInv, Rights
<1>1. at'[p] \in {"rights", "erase"} =>
         \E n \in Name : /\ \E q \in Op : Done'[q] = [kind |-> "register", agent |-> found[p].agent,
                                                   by |-> found[p].owner, name |-> n]
                        /\ request[p].selector \in {found[p].agent, n}
  <2> SUFFICES ASSUME at'[p] \in {"rights", "erase"}
               PROVE  \E n \in Name :
                        /\ \E q \in Op : Done'[q] = [kind |-> "register", agent |-> found[p].agent,
                                                    by |-> found[p].owner, name |-> n]
                        /\ request[p].selector \in {found[p].agent, n}
    OBVIOUS
  <2>1. PICK n \in Name : /\ RegisteredAs(found[p].agent, found[p].owner, n)
                          /\ request[p].selector \in {found[p].agent, n}
    BY <1>a DEF Rights
  <2>2. found[p].agent \in Agent /\ found[p].owner \in Member
    BY DEF HandlerInv
  <2>. QED BY <2>1, <2>2, RegisteredKept
<1>. QED BY <1>a, <1>1 DEF Rights, RegisteredAs

LEMMA OpRights ==
    ASSUME TypeOK, HandlerInv, RightsInv, NEW o \in Op, OpStep(o)
    PROVE  Rights(o)'
<1>a. Rights(o) /\ at \in [Op -> {"new", "done", "refused", "lost"} \cup InProgress]
  BY DEF RightsInv, Rights, TypeOK
<1>b. [Next]_vars
  BY DEF Next
<1>c. request[o] \in InviteRPC \cup RemoveRPC \cup RegisterRPC \cup UnregisterRPC
        \/ at[o] \notin InProgress
  BY DEF HandlerInv, InProgress
<1>1. CASE ReadRow(o)
  <2>1. CASE at'[o] \notin {"done", "target", "delete", "rights", "erase"}
    BY <2>1 DEF Rights
  <2>2. CASE at'[o] \in {"done", "target", "delete", "rights", "erase"}
    <3>1. PICK g \in Agent :
            /\ agents[g] # None /\ request[o].selector \in {g, agents[g].name}
            /\ found'[o] = [agent |-> g, owner |-> agents[g].owner]
            /\ at'[o] = "rights" /\ request'[o] = request[o]
      BY <1>1, <1>a, <2>2 DEF ReadRow, Goto, TypeOK
    <3>2. RegisteredAs(g, agents[g].owner, agents[g].name)
      BY <3>1 DEF RightsInv, ListedWasRegistered, RegisteredAs
    <3>3. agents[g].owner \in Member /\ agents[g].name \in Name
      BY <3>1 DEF TypeOK, Row
    <3>4. \E q \in Op : Done'[q] = [kind |-> "register", agent |-> g,
                                  by |-> agents[g].owner, name |-> agents[g].name]
      BY <1>b, <3>2, <3>3, RegisteredKept
    <3>5. found'[o].agent = g /\ found'[o].owner = agents[g].owner
      BY <3>1
    <3>. QED BY <3>1, <3>3, <3>4, <3>5 DEF Rights, RegisteredAs
  <2>. QED BY <2>1, <2>2
<1>2. CASE CheckRights(o)
  <2>1. /\ at[o] = "rights" /\ UNCHANGED <<request, found>>
        /\ \/ at'[o] = "erase" /\ request[o].by \in {found[o].owner, Owner}
           \/ at'[o] = "refused"
    BY <1>2, <1>a DEF CheckRights, Goto
  <2>2. found[o].agent \in Agent /\ found[o].owner \in Member
    BY <2>1 DEF HandlerInv
  <2>3. PICK n \in Name : /\ RegisteredAs(found[o].agent, found[o].owner, n)
                          /\ request[o].selector \in {found[o].agent, n}
    BY <1>a, <2>1 DEF Rights
  <2>4. \E q \in Op : Done'[q] = [kind |-> "register", agent |-> found[o].agent,
                                by |-> found[o].owner, name |-> n]
    BY <1>b, <2>2, <2>3, RegisteredKept
  <2>. QED BY <2>1, <2>3, <2>4 DEF Rights, RegisteredAs
<1>3. CASE CheckActor(o) \/ CheckTarget(o) \/ CheckMember(o) \/ StatementFails(o)
  BY <1>3, <1>a DEF CheckActor, CheckTarget, CheckMember, StatementFails, Goto, Rights
<1>4. CASE Authenticate(o)
  BY <1>4, <1>a DEF Authenticate, Goto, Rights, FirstStep, Request, InviteRPC, RemoveRPC,
     RegisterRPC, UnregisterRPC
<1>5. CASE AddInvitation(o) \/ DeleteMember(o) \/ InsertAgent(o) \/ EraseAgent(o)
  <2>1. at[o] \in InProgress /\ at'[o] \in {"done", "refused"} /\ request'[o] = request[o]
    BY <1>5, <1>a DEF AddInvitation, DeleteMember, DeleteWith, InsertAgent, InsertWith, EraseAgent,
       Goto, InProgress
  <2>. QED BY <1>c, <2>1 DEF Rights, Request
<1>. QED BY <1>1, <1>2, <1>3, <1>4, <1>5 DEF OpStep

LEMMA RightsStep == TypeOK /\ HandlerInv /\ RightsInv /\ [Next]_vars => RightsInv'
<1> SUFFICES ASSUME TypeOK, HandlerInv, RightsInv, [Next]_vars PROVE RightsInv'
  OBVIOUS
<1>1. ListedWasRegistered' /\ \A p \in Op : Rights(p)'
  <2>1. ASSUME NEW o \in Op, OpStep(o)
        PROVE  ListedWasRegistered' /\ \A p \in Op : Rights(p)'
    <3>1. ASSUME NEW p \in Op, p # o PROVE Rights(p)'
      BY <2>1, <3>1, OpMoves, RightsKept
    <3>. QED BY <2>1, <3>1, OpRights, OpKeepsListed
  <2>2. ASSUME UNCHANGED <<agents, request, found>>,
               \A p \in Op : at'[p] = at[p] \/ at'[p] = "lost"
        PROVE  ListedWasRegistered' /\ \A p \in Op : Rights(p)'
    <3>1. ASSUME NEW p \in Op PROVE Rights(p)'
      BY <2>2, RightsKept
    <3>2. ASSUME NEW g \in Agent, agents'[g] # None
          PROVE  \E p \in Op : Done'[p] = [kind |-> "register", agent |-> g,
                                          by |-> agents'[g].owner, name |-> agents'[g].name]
      <4>1. RegisteredAs(g, agents[g].owner, agents[g].name)
        BY <2>2, <3>2 DEF RightsInv, ListedWasRegistered, RegisteredAs
      <4>2. agents[g].owner \in Member /\ agents[g].name \in Name
        BY <2>2, <3>2 DEF TypeOK, Row
      <4>. QED BY <2>2, <4>1, <4>2, RegisteredKept
    <3>. QED BY <3>1, <3>2 DEF ListedWasRegistered
  <2>3. ASSUME NEW m \in Joiner, JoinStep(m)
        PROVE  UNCHANGED <<agents, opVars>>
    BY <2>3, JoinMoves
  <2>4. ASSUME NEW i \in Invite, Expire(i)
        PROVE  UNCHANGED <<agents, opVars>>
    BY <2>4 DEF Expire
  <2>5. CASE Restart
    <3>1. UNCHANGED <<agents, request, found>> /\ \A p \in Op : at'[p] = at[p] \/ at'[p] = "lost"
      BY <2>5 DEF Restart, storeVars
    <3>. QED BY <3>1, <2>2
  <2>6. CASE UNCHANGED <<agents, opVars>>
    BY <2>2, <2>6 DEF opVars
  <2>. QED BY <2>1, <2>3, <2>4, <2>5, <2>6 DEF Next, vars, storeVars
<1>. QED BY <1>1 DEF RightsInv, Rights

LEMMA RightsCorrect == Spec => []RightsInv
<1>1. Init => RightsInv
  BY DEF Init, RightsInv, Rights, ListedWasRegistered
<1>. QED BY <1>1, RightsStep, TypeCorrect, PTL DEF Spec

\* Every Agent that is listed was registered by its owner under its name, in an
\* RPC that succeeded.
THEOREM RowsAreAskedFor == Spec => []ListedWasRegistered
<1>1. RightsInv => ListedWasRegistered
  BY DEF RightsInv
<1>. QED BY <1>1, RightsCorrect, PTL

\* A device that is still joining has not been told anything.
ToldInv == \A m \in Joiner : joining[m] # "done" => outcome[m] = "none"

LEMMA ToldStep == TypeOK /\ ToldInv /\ [Next]_vars => ToldInv'
<1> SUFFICES ASSUME TypeOK, ToldInv, [Next]_vars PROVE ToldInv'
  OBVIOUS
<1>a. /\ joining \in [Joiner -> {"idle", "next", "waiting", "done"}]
      /\ outcome \in [Joiner -> Verdict \cup {"none", "offline"}]
  BY DEF TypeOK
<1>1. ASSUME NEW o \in Op, OpStep(o) PROVE ToldInv'
  BY <1>1, OpMoves DEF ToldInv, joinVars
<1>2. ASSUME NEW m \in Joiner, JoinStep(m) PROVE ToldInv'
  <2>1. CASE StartJoin(m) \/ PostJoin(m) \/ PostFails(m)
    BY <2>1, <1>a DEF StartJoin, PostJoin, PostFails, ToldInv
  <2>2. CASE GiveUp(m) \/ TakeVerdict(m)
    BY <2>2, <1>a DEF GiveUp, TakeVerdict, ToldInv
  <2>3. ASSUME NEW n \in 1..MaxPosts, ConsumeInvitation(m, n) \/ ReadJoined(m, n) PROVE ToldInv'
    BY <2>3 DEF ConsumeInvitation, ConsumeIf, ReadJoined, ToldInv
  <2>. QED BY <1>2, <2>1, <2>2, <2>3 DEF JoinStep
<1>3. ASSUME NEW i \in Invite, Expire(i) PROVE ToldInv'
  BY <1>3 DEF Expire, ToldInv, joinVars
<1>4. CASE Restart \/ UNCHANGED vars
  BY <1>4 DEF Restart, vars, joinVars, ToldInv
<1>. QED BY <1>1, <1>2, <1>3, <1>4 DEF Next

LEMMA ToldCorrect == Spec => []ToldInv
<1>1. Init => ToldInv
  BY DEF Init, ToldInv
<1>. QED BY <1>1, ToldStep, TypeCorrect, PTL DEF Spec

\* The end of a handler, in the terms of the directory.
LEMMA OpDone ==
    ASSUME TypeOK, NEW o \in Op, OpStep(o)
    PROVE  /\ Done[o] = None /\ Joined' = Joined /\ Told' = Told
           /\ Done' = IF at'[o] = "done" THEN [Done EXCEPT ![o] = request'[o]] ELSE Done
<1>1. at[o] # "done"
  BY DEF OpStep, Authenticate, AddInvitation, CheckActor, CheckTarget, DeleteMember,
     DeleteWith, CheckMember, InsertAgent, InsertWith, ReadRow, CheckRights, EraseAgent,
     StatementFails, Goto, InProgress
<1>2. \A p \in Op \ {o} : Done'[p] = Done[p]
  BY OpMoves DEF Done
<1>3. /\ Done[o] = None /\ Done'[o] = IF at'[o] = "done" THEN request'[o] ELSE None
      /\ Done = [p \in Op |-> Done[p]] /\ Done' = [p \in Op |-> Done'[p]]
  BY <1>1 DEF Done
<1>4. Joined' = Joined /\ Told' = Told
  BY OpRows DEF Joined, Told, joinVars
<1>. QED BY <1>2, <1>3, <1>4

LEMMA DirectoryStutter ==
    ASSUME UNCHANGED <<members, agents, invites, overlapped, Done, Joined, Told>>
    PROVE  UNCHANGED Registry!vars
  BY DEF Registry!vars

\* A handler that succeeds with an effect of the directory is one step of it.
LEMMA Served ==
    ASSUME TypeOK, NEW o \in Op, OpStep(o), at'[o] = "done", request'[o] = request[o],
           request[o] \in Request, Registry!Effect(request[o])
    PROVE  Registry!Next
<1>1. Done[o] = None /\ Done' = [Done EXCEPT ![o] = request[o]] /\ Joined' = Joined /\ Told' = Told
  BY OpDone
<1>2. Done'[o] = request[o] /\ request[o] # None
  BY <1>1, MembershipAssumption DEF Done, MembershipAssumption
<1>. QED BY <1>1, <1>2 DEF Registry!Next, Registry!Serve

\* A handler step is one of the directory or none of its business.
LEMMA OpImplements ==
    ASSUME TypeOK, HandlerInv, OwnerInv, OrphanInv, RightsInv, NEW o \in Op, OpStep(o)
    PROVE  Registry!Next \/ UNCHANGED Registry!vars
<1>a. /\ Rights(o) /\ at \in [Op -> {"new", "done", "refused", "lost"} \cup InProgress]
      /\ agents \in [Agent -> Row \cup {None}]
  BY DEF RightsInv, TypeOK
<1>1. CASE AddInvitation(o)
  <2>1. CASE at'[o] = "done"
    <3>1. request[o] \in InviteRPC /\ request'[o] = request[o]
      BY <1>1 DEF AddInvitation, HandlerInv
    <3>2. Registry!Invites(request[o])
      BY <1>1, <1>a, <2>1 DEF AddInvitation, Goto, historyVars, Registry!Invites
    <3>3. Registry!Effect(request[o])
      BY <3>1, <3>2 DEF InviteRPC, Registry!Effect
    <3>. QED BY <2>1, <3>1, <3>3, Served DEF Request
  <2>2. CASE at'[o] # "done"
    BY <1>1, <1>a, <2>2, OpDone, DirectoryStutter DEF AddInvitation, Goto, historyVars
  <2>. QED BY <2>1, <2>2
<1>2. CASE DeleteMember(o)
  <2>1. CASE at'[o] = "done"
    <3>1. request[o] \in RemoveRPC /\ request'[o] = request[o] /\ request[o].by = Owner
      BY <1>2, <1>a DEF DeleteMember, DeleteWith, HandlerInv, Rights
    <3>2. request[o].target \in members \ {Owner}
      BY <1>2, <1>a, <2>1 DEF DeleteMember, DeleteWith, Goto, OwnerInv
    <3>3. Registry!Removes(request[o])
      BY <1>2, <1>a, <2>1, <3>1, <3>2 DEF DeleteMember, DeleteWith, Goto, Registry!Removes
    <3>4. Registry!Effect(request[o])
      BY <3>1, <3>3 DEF RemoveRPC, Registry!Effect
    <3>. QED BY <2>1, <3>1, <3>4, Served DEF Request
  <2>2. CASE at'[o] # "done"
    BY <1>2, <1>a, <2>2, OpDone, DirectoryStutter DEF DeleteMember, DeleteWith, Goto
  <2>. QED BY <2>1, <2>2
<1>3. CASE InsertAgent(o)
  <2>1. CASE at'[o] = "done"
    <3>1. request[o] \in RegisterRPC /\ request'[o] = request[o]
      BY <1>3 DEF InsertAgent, InsertWith, HandlerInv
    <3>2. /\ request[o].by \in members \cup overlapped
          /\ UNCHANGED <<members, invites, overlapped>>
      BY <1>3 DEF InsertAgent, InsertWith, OrphanInv, historyVars
    <3>3. /\ ~NameTaken(request[o].agent, request[o].name)
          /\ agents[request[o].agent] # None => agents[request[o].agent].owner = request[o].by
          /\ agents' = [agents EXCEPT ![request[o].agent] =
               [owner |-> IF @ = None THEN request[o].by ELSE @.owner, name |-> request[o].name]]
      BY <1>3, <1>a, <2>1 DEF InsertAgent, InsertWith, Goto
    <3>4. agents' = [agents EXCEPT ![request[o].agent] =
                       [owner |-> request[o].by, name |-> request[o].name]]
      BY <3>3
    <3>5. Registry!Registers(request[o])
      BY <3>2, <3>3, <3>4 DEF NameTaken, Registry!Registers
    <3>6. Registry!Effect(request[o])
      BY <3>1, <3>5 DEF RegisterRPC, Registry!Effect
    <3>. QED BY <2>1, <3>1, <3>6, Served DEF Request
  <2>2. CASE at'[o] # "done"
    BY <1>3, <1>a, <2>2, OpDone, DirectoryStutter DEF InsertAgent, InsertWith, Goto, historyVars
  <2>. QED BY <2>1, <2>2
<1>4. CASE EraseAgent(o)
  <2>1. /\ request[o] \in UnregisterRPC /\ request'[o] = request[o] /\ at'[o] = "done"
        /\ found[o].agent \in Agent /\ found[o].owner \in Member
        /\ request[o].by \in {found[o].owner, Owner}
    BY <1>4, <1>a DEF EraseAgent, Goto, HandlerInv, Rights
  <2>2. PICK n \in Name : /\ RegisteredAs(found[o].agent, found[o].owner, n)
                          /\ request[o].selector \in {found[o].agent, n}
    BY <1>4, <1>a DEF EraseAgent, Goto, Rights
  <2>3. PICK p \in Op : Done[p] = [kind |-> "register", agent |-> found[o].agent,
                                  by |-> found[o].owner, name |-> n]
    BY <2>2 DEF RegisteredAs
  <2>4. /\ Done[p] # None /\ Done[p].kind = "register"
        /\ Done[p].agent = found[o].agent /\ Done[p].by = found[o].owner /\ Done[p].name = n
    <3>1. Done[p] \in Request
      BY <2>1, <2>2, <2>3 DEF Request, RegisterRPC
    <3>. QED BY <2>3, <3>1, MembershipAssumption DEF MembershipAssumption
  <2>5. Registry!Unregisters(request[o])
    <3>1. /\ agents' = [agents EXCEPT ![found[o].agent] = None]
          /\ UNCHANGED <<members, invites, overlapped>>
      BY <1>4 DEF EraseAgent, historyVars
    <3>. QED BY <2>1, <2>2, <2>4, <3>1 DEF Registry!Unregisters
  <2>6. Registry!Effect(request[o])
    BY <2>1, <2>5 DEF UnregisterRPC, Registry!Effect
  <2>. QED BY <2>1, <2>6, Served DEF Request
<1>5. CASE \/ Authenticate(o) \/ CheckActor(o) \/ CheckTarget(o) \/ CheckMember(o) \/ ReadRow(o)
           \/ CheckRights(o) \/ StatementFails(o)
  <2>1. at'[o] # "done" /\ UNCHANGED <<members, agents, invites, overlapped>>
    BY <1>5, <1>a DEF Authenticate, CheckActor, CheckTarget, CheckMember, ReadRow, CheckRights,
       StatementFails, Goto, storeVars, historyVars, Request, InviteRPC, RemoveRPC, RegisterRPC,
       UnregisterRPC, FirstStep
  <2>. QED BY <2>1, OpDone, DirectoryStutter
<1>. QED BY <1>1, <1>2, <1>3, <1>4, <1>5 DEF OpStep

LEMMA JoinImplements ==
    ASSUME TypeOK, InviteInv, ToldInv, NEW m \in Joiner, JoinStep(m)
    PROVE  Registry!Next \/ UNCHANGED Registry!vars
<1>a. /\ admitted \in [Invite -> SUBSET Member]
      /\ outcome \in [Joiner -> Verdict \cup {"none", "offline"}]
      /\ \A k \in Joiner : InviteOf[k] \in Invite
      /\ Joiner = Member \ {Owner}
  BY MembershipAssumption DEF MembershipAssumption, TypeOK, Joiner
<1>b. UNCHANGED <<agents, overlapped, Done>>
  BY JoinMoves DEF opVars, Done
<1>1. CASE TakeVerdict(m)
  <2>1. UNCHANGED <<members, invites, admitted>> /\ outcome[m] # "joined"
    BY <1>1 DEF TakeVerdict, storeVars, historyVars, ToldInv
  <2>2. Joined' = Joined
    BY <2>1 DEF Joined
  <2>3. CASE outcome'[m] = "joined"
    <3>1. m \in Joined
      BY <2>1, <2>3, JoinAnswers DEF Joined
    <3>2. Told' = Told \cup {m}
      BY <1>1, <1>a, <2>3 DEF TakeVerdict, Told
    <3>3. Registry!Tell(m)
      BY <1>b, <2>1, <2>2, <3>1, <3>2 DEF Registry!Tell
    <3>. QED BY <1>a, <3>3 DEF Registry!Next
  <2>4. CASE outcome'[m] # "joined"
    <3>1. Told' = Told
      BY <1>1, <1>a, <2>1, <2>4 DEF TakeVerdict, Told
    <3>. QED BY <1>b, <2>1, <2>2, <3>1, DirectoryStutter
  <2>. QED BY <2>3, <2>4
<1>2. CASE ~TakeVerdict(m)
  <2>1. Told' = Told
    <3>1. CASE GiveUp(m)
      <4>1. outcome[m] = "none" /\ outcome' = [outcome EXCEPT ![m] = "offline"]
        BY <3>1 DEF GiveUp, ToldInv
      <4>. QED BY <1>a, <4>1 DEF Told
    <3>2. CASE ~GiveUp(m)
      BY <1>2, <3>2 DEF JoinStep, StartJoin, PostJoin, PostFails, ConsumeInvitation, ConsumeIf,
         ReadJoined, Told
    <3>. QED BY <3>1, <3>2
  <2>2. CASE UNCHANGED <<members, invites, admitted>>
    <3>1. Joined' = Joined
      BY <2>2 DEF Joined
    <3>. QED BY <1>b, <2>1, <2>2, <3>1, DirectoryStutter
  <2>3. CASE /\ invites[InviteOf[m]] = "open"
             /\ members' = members \cup {m}
             /\ invites' = [invites EXCEPT ![InviteOf[m]] = "consumed"]
             /\ admitted' = [admitted EXCEPT ![InviteOf[m]] = @ \cup {m}]
    <3>1. Joined' = Joined \cup {m}
      BY <1>a, <2>3 DEF Joined
    <3>2. Registry!Join(m)
      BY <1>b, <2>1, <2>3, <3>1 DEF Registry!Join
    <3>. QED BY <1>a, <3>2 DEF Registry!Next
  <2>. QED BY <2>2, <2>3, JoinRows
<1>. QED BY <1>1, <1>2

LEMMA DirectoryStep ==
    ASSUME TypeOK, HandlerInv, OwnerInv, OrphanInv, InviteInv, RightsInv, ToldInv, [Next]_vars
    PROVE  Registry!Next \/ UNCHANGED Registry!vars
<1>1. ASSUME UNCHANGED <<members, agents, invites, overlapped, admitted, outcome, request>>,
             \A p \in Op : at'[p] # "done" <=> at[p] # "done"
      PROVE  UNCHANGED Registry!vars
  <2>1. UNCHANGED <<Done, Joined, Told>>
    BY <1>1 DEF Done, Joined, Told
  <2>. QED BY <1>1, <2>1, DirectoryStutter
<1>2. ASSUME NEW i \in Invite, Expire(i) PROVE UNCHANGED Registry!vars
  BY <1>1, <1>2 DEF Expire, opVars, joinVars, historyVars
<1>3. CASE Restart
  BY <1>1, <1>3 DEF Restart, storeVars, historyVars, InProgress
<1>4. CASE UNCHANGED vars
  BY <1>1, <1>4 DEF vars, storeVars, opVars, joinVars, historyVars
<1>. QED BY <1>2, <1>3, <1>4, OpImplements, JoinImplements DEF Next

\* The handlers implement the directory: whatever their statements meet, each
\* RPC acts at once, by the rights of its member, or not at all.
THEOREM DirectoryIsImplemented == Spec => ImplementsDirectory
<1>1. Init => Registry!Init
  <2> SUFFICES ASSUME Init PROVE Registry!Init
    OBVIOUS
  <2>1. Done = [o \in Op |-> None]
    BY DEF Init, Done
  <2>2. Joined = {} /\ Told = {}
    BY MembershipAssumption DEF MembershipAssumption, Init, Joined, Told, Joiner
  <2>. QED BY <2>1, <2>2 DEF Init, Registry!Init
<1>2. TypeOK /\ HandlerInv /\ OwnerInv /\ OrphanInv /\ InviteInv /\ RightsInv /\ ToldInv /\ [Next]_vars
        => [Registry!Next]_(Registry!vars)
  BY DirectoryStep
<1>. QED BY <1>1, <1>2, TypeCorrect, OwnerCorrect, OrphansCorrect, InvitesCorrect, RightsCorrect,
            ToldCorrect, PTL DEF Spec, ImplementsDirectory, Registry!Spec
=============================================================================

---------------------------- MODULE MCMembership ----------------------------
(* A small instance of Membership for TLC.                                  *)
EXTENDS Membership, TLC

CONSTANTS ann, bob, cem, g1, g2, n1, n2, i1, o1, o2, o3

SharedInvite == [m \in Joiner |-> i1]

Symmetry ==
    Permutations(Op) \cup Permutations(Agent) \cup Permutations(Joiner) \cup Permutations(Name)

\* States that differ only in what no step and no property looks at again count
\* as one: the request and the row of a handler that has returned, but for a
\* registration that succeeded; responses that nobody waits for; and whether a
\* consumed invitation has expired.
HandlerView ==
    [o \in Op |->
       IF at[o] \in InProgress \cup {"new"} \/ (at[o] = "done" /\ request[o].kind = "register")
         THEN <<at[o], request[o], IF at[o] \in {"rights", "erase"} THEN found[o] ELSE None>>
         ELSE <<"returned">>]

JoinView ==
    [m \in Joiner |->
       IF joining[m] = "done"
         THEN <<outcome[m] = "joined", {n \in 1..MaxPosts : post[m][n] = "sent"}>>
         ELSE <<joining[m], tries[m], post[m]>>]

View ==
    <<members, agents, invites, {i \in expired : invites[i] # "consumed"},
      HandlerView, JoinView, Cardinality(Reposters), restarts, historyVars>>
=============================================================================

---------------------------- MODULE DeviceProofs ----------------------------
(* Proofs about Device, for any number of commands, Projects, Agents and    *)
(* restarts.                                                                *)
EXTENDS Device, TLAPS

Where == {"idle", "done", "lost"} \cup Saga
Outcome == {"none", "ok", "failed"}
Client == [project : Project \cup {None}, member : Cmd \cup {None}, signer : Cmd \cup {None}]

\* The steps a command may stand at.
StepsOf ==
    [create |-> {"insert", "key", "profile", "invite", "unkey", "unprofile", "unrow"},
     join |-> {"join", "key", "profile"},
     use |-> {"use"},
     register |-> {"client", "sign", "rpc", "save", "start"},
     remove |-> {"client", "sign", "rpc", "stop", "forget"}]

KindInv ==
    \A c \in Cmd : at[c] \in Saga =>
        command[c] \in Command /\ at[c] \in StepsOf[command[c].kind]

LEMMA CommandFields ==
    ASSUME NEW r \in Command
    PROVE  /\ r.kind \in {"create", "join", "use", "register", "remove"}
           /\ r.kind = "create" => r.project \in Local
           /\ r.kind \in {"create", "join", "use"} => r.project \in Project
           /\ r.kind \in {"register", "remove"} => r.agent \in Agent
           /\ r # None
  BY DeviceAssumption DEF DeviceAssumption, Command, CreateCmd, JoinCmd, UseCmd, AgentCmd, Project

\* What a command does follows from where it stands.
LEMMA Fields ==
    ASSUME KindInv, NEW c \in Cmd, at[c] \in Saga
    PROVE  /\ command[c] \in Command /\ command[c] # None
           /\ at[c] \in {"insert", "invite", "unkey", "unprofile", "unrow"} => command[c].kind = "create"
           /\ at[c] = "join" => command[c].kind = "join"
           /\ at[c] \in {"key", "profile"} => command[c].kind \in {"create", "join"}
           /\ at[c] = "use" => command[c].kind = "use"
           /\ at[c] \in {"client", "sign", "rpc"} => command[c].kind \in {"register", "remove"}
           /\ at[c] \in {"save", "start"} => command[c].kind = "register"
           /\ at[c] \in {"stop", "forget"} => command[c].kind = "remove"
           /\ command[c].kind = "create" => ProjectOf(c) \in Local
           /\ command[c].kind \in {"create", "join", "use"} => ProjectOf(c) \in Project
           /\ command[c].kind \in {"register", "remove"} => command[c].agent \in Agent
<1>1. command[c] \in Command /\ at[c] \in StepsOf[command[c].kind]
  BY DEF KindInv
<1>. QED
  BY <1>1, CommandFields DEF StepsOf, ProjectOf

\* A command goes on to a step that its kind has.
LEMMA GotoKind ==
    ASSUME TypeOK, KindInv, NEW c \in Cmd, NEW from \in Saga, NEW to \in Where,
           Goto(c, from, to), UNCHANGED command,
           to \in Saga => to \in StepsOf[command[c].kind]
    PROVE  at' \in [Cmd -> Where] /\ KindInv'
  BY DEF TypeOK, KindInv, Goto, Where, Saga

ClientOK ==
    \A c \in Cmd : at[c] \in {"sign", "rpc", "save"} =>
        client[c].project # None /\ (at[c] # "sign" => client[c].signer # None)

\* The same for a step that cannot bring the command among those with a client.
LEMMA Proceeds ==
    ASSUME TypeOK, KindInv, NEW c \in Cmd, NEW from \in Saga, NEW to \in Where,
           \/ Go(c, from, to) /\ to \in Saga \ {"sign", "rpc", "save"} /\ to \in StepsOf[command[c].kind]
           \/ to = "done" /\ \E o \in Outcome : Finish(c, from, o),
           UNCHANGED <<command, client>>
    PROVE  /\ at' \in [Cmd -> Where] /\ KindInv' /\ ClientOK'
           /\ outcome' \in [Cmd -> Outcome]
<1>1. Goto(c, from, to)
  BY DEF Go, Finish
<1>2. at' \in [Cmd -> Where] /\ KindInv'
  BY <1>1, GotoKind DEF Where, Saga
<1>3. outcome' \in [Cmd -> Outcome]
  BY DEF Go, Finish, TypeOK, Outcome
<1>4. ClientOK'
  BY <1>1 DEF Goto, TypeOK, ClientOK, Where, Saga
<1>. QED BY <1>2, <1>3, <1>4

TypeInv == TypeOK /\ KindInv

\* Giving up, with or without rows to delete, is such a step.
LEMMA Abandons ==
    ASSUME TypeInv, NEW c \in Cmd, NEW from \in {"key", "profile"}, Abandon(c, from),
           UNCHANGED <<command, client>>
    PROVE  /\ at' \in [Cmd -> Where] /\ KindInv' /\ ClientOK'
           /\ outcome' \in [Cmd -> Outcome]
<1>1. from \in Saga /\ "unrow" \in Saga \ {"sign", "rpc", "save"} /\ {"unrow", "done"} \subseteq Where
  BY DEF Saga, Where
<1>2. Creates(c) => "unrow" \in StepsOf[command[c].kind]
  BY DEF Creates, StepsOf
<1>3. CASE Go(c, from, "unrow") /\ Creates(c)
  BY <1>1, <1>2, <1>3, Proceeds DEF TypeInv
<1>4. CASE Finish(c, from, "failed")
  BY <1>1, <1>4, Proceeds DEF TypeInv, Outcome
<1>. QED BY <1>3, <1>4 DEF Abandon

LEMMA CreateType ==
    ASSUME TypeInv, NEW c \in Cmd,
           InsertRows(c) \/ CreateInvitation(c) \/ DeleteKey(c) \/ RemoveProfile(c) \/ DeleteRows(c)
    PROVE  TypeInv'
<1> USE DeviceAssumption DEF DeviceAssumption
<1>1. /\ {"insert", "key", "invite", "unkey", "unprofile", "unrow"} \subseteq Saga \ {"sign", "rpc", "save"}
      /\ {"key", "unkey", "unprofile", "unrow", "done"} \subseteq Where
      /\ {"ok", "failed"} \subseteq Outcome
  BY DEF Saga, Where, Outcome
<1>2. /\ at[c] \in {"insert", "invite", "unkey", "unprofile", "unrow"}
      /\ UNCHANGED <<command, client>>
  BY DEF InsertRows, CreateInvitation, DeleteKey, RemoveProfile, SaveRemoval, DeleteRows, Goto, Go, Finish
<1>3. command[c].kind = "create" /\ ProjectOf(c) \in Local /\ ProjectOf(c) \in Project
  BY <1>1, <1>2, Fields DEF TypeInv, Project
<1>4. {"key", "unkey", "unprofile", "unrow"} \subseteq StepsOf[command[c].kind]
  BY <1>3 DEF StepsOf
<1>5. /\ at' \in [Cmd -> Where] /\ KindInv' /\ ClientOK' /\ outcome' \in [Cmd -> Outcome]
  <2>1. CASE InsertRows(c)
    BY <2>1, <1>1, <1>2, <1>4, Proceeds DEF InsertRows, TypeInv
  <2>2. CASE CreateInvitation(c)
    BY <2>2, <1>1, <1>2, <1>4, Proceeds DEF CreateInvitation, TypeInv
  <2>3. CASE DeleteKey(c)
    BY <2>3, <1>1, <1>2, <1>4, Proceeds DEF DeleteKey, TypeInv
  <2>4. CASE RemoveProfile(c)
    BY <2>4, <1>1, <1>2, <1>4, Proceeds DEF RemoveProfile, SaveRemoval, TypeInv
  <2>5. CASE DeleteRows(c)
    BY <2>5, <1>1, <1>2, <1>4, Proceeds DEF DeleteRows, TypeInv
  <2>. QED BY <2>1, <2>2, <2>3, <2>4, <2>5
<1>6. CASE InsertRows(c)
  BY <1>6, <1>3, <1>5 DEF InsertRows, TypeInv, TypeOK, Where, Outcome, ClientOK, processVars, historyVars
<1>7. CASE CreateInvitation(c)
  BY <1>7, <1>3, <1>5
  DEF CreateInvitation, TypeInv, TypeOK, Where, Outcome, ClientOK, diskVars, hostVars, processVars, historyVars
<1>8. CASE DeleteKey(c)
  BY <1>8, <1>3, <1>5 DEF DeleteKey, TypeInv, TypeOK, Where, Outcome, ClientOK, hostVars, processVars
<1>9. CASE RemoveProfile(c)
  <2>1. AgentsWithout(ProjectOf(c)) \in [Agent -> Project \cup {None}]
    BY DEF AgentsWithout, TypeInv, TypeOK
  <2>2. overtaken' \in SUBSET Agent
    <3>1. Registering(ProjectOf(c)) \subseteq Agent
      <4>1. ASSUME NEW d \in Cmd, at[d] \in {"sign", "rpc", "save"} PROVE command[d].agent \in Agent
        BY <4>1, Fields DEF TypeInv, Saga
      <4>. QED BY <4>1 DEF Registering
    <3>. QED BY <1>9, <3>1 DEF RemoveProfile, SaveRemoval, TypeInv, TypeOK
  <2>3. /\ profiles' \in [Project -> Profile \cup {None}]
        /\ localAgents' \in [Agent -> Project \cup {None}]
        /\ current' \in Project \cup {None} /\ lock' \in Cmd \cup {None}
        /\ torn' \in SUBSET Project /\ botched' \in SUBSET Project
    BY <1>9, <1>3, <2>1 DEF RemoveProfile, SaveRemoval, TypeInv, TypeOK
  <2>4. UNCHANGED <<keys, hostKey, hostVars, command, client, processVars, restarts, rekeyed>>
    BY <1>9 DEF RemoveProfile, SaveRemoval
  <2>. QED
    BY <2>2, <2>3, <2>4, <1>5 DEF TypeInv, TypeOK, Where, Outcome, ClientOK, hostVars, processVars
<1>10. CASE DeleteRows(c)
  <2>1. listed' \in [Agent -> Listing \cup {None}]
    BY <1>10 DEF DeleteRows, hostVars, TypeInv, TypeOK
  <2>. QED
    BY <1>10, <1>3, <1>5, <2>1 DEF DeleteRows, TypeInv, TypeOK, Where, Outcome, ClientOK, hostVars, processVars
<1>. QED BY <1>6, <1>7, <1>8, <1>9, <1>10

LEMMA JoinType ==
    ASSUME TypeInv, NEW c \in Cmd, Join(c) \/ StoreKey(c) \/ SaveProfile(c) \/ UseProject(c)
    PROVE  TypeInv'
<1> USE DeviceAssumption DEF DeviceAssumption
<1>1. /\ {"join", "key", "profile", "invite", "use"} \subseteq Saga \ {"sign", "rpc", "save"}
      /\ {"key", "profile", "invite", "done"} \subseteq Where
      /\ {"ok", "failed"} \subseteq Outcome
  BY DEF Saga, Where, Outcome
<1>2. /\ at[c] \in {"join", "key", "profile", "use"}
      /\ UNCHANGED <<command, client>>
  BY DEF Join, StoreKey, StoreWith, SaveProfile, UseProject
<1>3. command[c].kind \in {"create", "join", "use"} /\ ProjectOf(c) \in Project
  BY <1>1, <1>2, Fields DEF TypeInv
<1>4. /\ at[c] = "join" => "key" \in StepsOf[command[c].kind]
      /\ at[c] \in {"key", "profile"} => "profile" \in StepsOf[command[c].kind]
      /\ Creates(c) => "invite" \in StepsOf[command[c].kind]
  BY <1>1, <1>2, Fields DEF TypeInv, StepsOf, Creates
<1>5. /\ at' \in [Cmd -> Where] /\ KindInv' /\ ClientOK' /\ outcome' \in [Cmd -> Outcome]
  <2>1. CASE Join(c)
    <3>1. at[c] = "join" /\ (Go(c, "join", "key") \/ Finish(c, "join", "failed"))
      BY <2>1 DEF Join
    <3>. QED BY <3>1, <1>1, <1>2, <1>4, Proceeds DEF TypeInv
  <2>2. CASE StoreKey(c)
    <3>1. at[c] = "key" /\ (Go(c, "key", "profile") \/ Abandon(c, "key"))
      BY <2>2 DEF StoreKey, StoreWith
    <3>2. CASE Go(c, "key", "profile")
      BY <3>1, <3>2, <1>1, <1>2, <1>4, Proceeds DEF TypeInv
    <3>3. CASE Abandon(c, "key")
      BY <3>3, <1>2, Abandons
    <3>. QED BY <3>1, <3>2, <3>3
  <2>3. CASE SaveProfile(c)
    <3>1. \/ Creates(c) /\ Go(c, "profile", "invite")
          \/ Finish(c, "profile", "ok")
          \/ Abandon(c, "profile")
      BY <2>3 DEF SaveProfile
    <3>2. CASE Abandon(c, "profile")
      BY <3>2, <1>2, Abandons
    <3>. QED BY <3>1, <3>2, <1>1, <1>2, <1>4, Proceeds DEF TypeInv
  <2>4. CASE UseProject(c)
    <3>1. Finish(c, "use", "ok") \/ Finish(c, "use", "failed")
      BY <2>4 DEF UseProject
    <3>. QED BY <3>1, <1>1, <1>2, Proceeds DEF TypeInv
  <2>. QED BY <2>1, <2>2, <2>3, <2>4
<1>6. CASE Join(c)
  BY <1>6, <1>3, <1>5 DEF Join, TypeInv, TypeOK, Where, Outcome, ClientOK, diskVars, processVars, historyVars
<1>7. CASE StoreKey(c)
  BY <1>7, <1>3, <1>5 DEF StoreKey, StoreWith, TypeInv, TypeOK, Where, Outcome, ClientOK, hostVars, processVars
<1>8. CASE SaveProfile(c)
  <2>1. Creates(c) \in BOOLEAN
    BY DEF Creates
  <2>2. /\ profiles' \in [Project -> Profile \cup {None}]
        /\ current' \in Project \cup {None} /\ torn' \in SUBSET Project
    BY <1>8, <1>3, <2>1 DEF SaveProfile, TypeInv, TypeOK, Profile
  <2>3. UNCHANGED <<keys, localAgents, hostKey, hostVars, command, client, lock, processVars,
                   restarts, rekeyed, botched, overtaken>>
    BY <1>8 DEF SaveProfile
  <2>. QED BY <2>2, <2>3, <1>5 DEF TypeInv, TypeOK, Where, Outcome, ClientOK, hostVars, processVars
<1>9. CASE UseProject(c)
  BY <1>9, <1>3, <1>5 DEF UseProject, TypeInv, TypeOK, Where, Outcome, ClientOK, hostVars, processVars, historyVars
<1>. QED BY <1>6, <1>7, <1>8, <1>9

LEMMA AgentType ==
    ASSUME TypeInv, NEW c \in Cmd,
           \/ ReadProfile(c) \/ ReadKey(c) \/ AgentRPC(c) \/ PutAgent(c)
           \/ StartProvider(c) \/ StopProvider(c) \/ ForgetAgent(c)
    PROVE  TypeInv'
<1> USE DeviceAssumption DEF DeviceAssumption
<1>1. /\ {"client", "sign", "rpc", "save", "start", "stop", "forget"} \subseteq Saga
      /\ {"client", "sign", "rpc", "save", "start", "stop", "forget", "done"} \subseteq Where
      /\ {"ok", "failed"} \subseteq Outcome
  BY DEF Saga, Where, Outcome
<1>2. /\ at[c] \in {"client", "sign", "rpc", "save", "start", "stop", "forget"}
      /\ UNCHANGED command
  BY DEF ReadProfile, ReadKey, AgentRPC, PutAgent, StartProvider, StopProvider, ForgetAgent, Go, Goto, Finish
<1>3. command[c].kind \in {"register", "remove"} /\ command[c].agent \in Agent
  BY <1>1, <1>2, Fields DEF TypeInv
<1>4. /\ {"sign", "rpc"} \subseteq StepsOf[command[c].kind]
      /\ command[c].kind = "register" => {"save", "start"} \subseteq StepsOf[command[c].kind]
      /\ command[c].kind = "remove" => {"stop", "forget"} \subseteq StepsOf[command[c].kind]
  BY <1>3 DEF StepsOf
<1>5. CASE ReadProfile(c)
  <2>1. CASE Finish(c, "client", "failed") /\ UNCHANGED client
    <3>1. at' \in [Cmd -> Where] /\ KindInv' /\ ClientOK' /\ outcome' \in [Cmd -> Outcome]
      BY <2>1, <1>1, <1>2, Proceeds DEF TypeInv
    <3>. QED
      BY <1>5, <2>1, <3>1
      DEF ReadProfile, TypeInv, TypeOK, Where, Outcome, ClientOK, diskVars, hostVars, processVars, historyVars
  <2>2. CASE /\ current # None /\ profiles[current] # None
             /\ client' = [client EXCEPT ![c] = [project |-> current,
                             member |-> profiles[current].key, signer |-> None]]
             /\ Go(c, "client", "sign")
    <3>1. at' \in [Cmd -> Where] /\ KindInv'
      BY <2>2, <1>1, <1>2, <1>4, GotoKind DEF TypeInv, Go
    <3>2. profiles[current].key \in Cmd
      BY <2>2 DEF TypeInv, TypeOK, Profile
    <3>3. client' \in [Cmd -> Client] /\ client'[c].project = current
      BY <2>2, <3>2 DEF TypeInv, TypeOK, Client
    <3>4. ClientOK'
      <4>1. at'[c] = "sign" /\ \A d \in Cmd \ {c} : at'[d] = at[d] /\ client'[d] = client[d]
        BY <2>2 DEF Go, Goto, TypeInv, TypeOK
      <4>. QED BY <4>1, <3>3, <2>2 DEF ClientOK, TypeInv, TypeOK
    <3>. QED
      BY <1>5, <2>2, <3>1, <3>3, <3>4
      DEF ReadProfile, Go, TypeInv, TypeOK, Client, Where, ClientOK, diskVars, hostVars, processVars, historyVars
  <2>. QED BY <1>5, <2>1, <2>2 DEF ReadProfile
<1>6. CASE ReadKey(c)
  <2>1. CASE Finish(c, "sign", "failed") /\ UNCHANGED client
    <3>1. at' \in [Cmd -> Where] /\ KindInv' /\ ClientOK' /\ outcome' \in [Cmd -> Outcome]
      BY <2>1, <1>1, <1>2, Proceeds DEF TypeInv
    <3>. QED
      BY <1>6, <2>1, <3>1
      DEF ReadKey, TypeInv, TypeOK, Where, Outcome, ClientOK, diskVars, hostVars, processVars, historyVars
  <2>2. CASE /\ keys[client[c].project] # None
             /\ client' = [client EXCEPT ![c].signer = keys[client[c].project]]
             /\ Go(c, "sign", "rpc")
    <3>1. at' \in [Cmd -> Where] /\ KindInv'
      BY <2>2, <1>1, <1>2, <1>4, GotoKind DEF TypeInv, Go
    <3>2. client[c].project \in Project /\ client[c] \in Client
      BY <2>2 DEF Go, Goto, TypeInv, TypeOK, Client
    <3>3. /\ client' \in [Cmd -> Client]
          /\ client'[c].project = client[c].project /\ client'[c].signer # None
      <4>1. keys[client[c].project] \in Cmd
        BY <2>2, <3>2 DEF TypeInv, TypeOK
      <4>. QED BY <2>2, <3>2, <4>1 DEF TypeInv, TypeOK, Client
    <3>4. ClientOK'
      <4>1. at'[c] = "rpc" /\ \A d \in Cmd \ {c} : at'[d] = at[d] /\ client'[d] = client[d]
        BY <2>2 DEF Go, Goto, TypeInv, TypeOK
      <4>. QED BY <4>1, <3>2, <3>3 DEF ClientOK, TypeInv, TypeOK
    <3>. QED
      BY <1>6, <2>2, <3>1, <3>3, <3>4
      DEF ReadKey, Go, TypeInv, TypeOK, Client, Where, ClientOK, diskVars, hostVars, processVars, historyVars
  <2>. QED BY <1>6, <2>1, <2>2 DEF ReadKey
<1>7. CASE AgentRPC(c)
  <2>1. at[c] = "rpc" /\ client[c] \in Client /\ client[c].project # None /\ client[c].signer # None
    BY <1>7 DEF AgentRPC, TypeInv, TypeOK, Client
  <2>2. listed' \in [Agent -> Listing \cup {None}]
    <3>1. Accepts(c) => [project |-> client[c].project, owner |-> client[c].member] \in Listing
      BY <2>1 DEF Accepts, Client, Listing
    <3>. QED BY <1>7, <1>3, <3>1 DEF AgentRPC, TypeInv, TypeOK
  <2>3. /\ at' \in [Cmd -> Where] /\ KindInv' /\ ClientOK' /\ outcome' \in [Cmd -> Outcome]
    <3>1. CASE Finish(c, "rpc", "failed")
      BY <1>7, <3>1, <1>1, <1>2, Proceeds DEF AgentRPC, TypeInv
    <3>2. CASE command[c].kind # "register" /\ Go(c, "rpc", "stop")
      BY <1>7, <3>2, <1>1, <1>2, <1>3, <1>4, Proceeds DEF AgentRPC, TypeInv
    <3>3. CASE command[c].kind = "register" /\ Go(c, "rpc", "save")
      <4>1. at' \in [Cmd -> Where] /\ KindInv'
        BY <3>3, <1>1, <1>2, <1>4, GotoKind DEF TypeInv, Go
      <4>2. ClientOK'
        BY <1>7, <2>1, <3>3 DEF AgentRPC, Go, Goto, ClientOK, TypeInv, TypeOK
      <4>. QED BY <3>3, <4>1, <4>2 DEF Go, TypeInv, TypeOK, Outcome
    <3>. QED BY <1>7, <3>1, <3>2, <3>3 DEF AgentRPC
  <2>. QED
    BY <1>7, <2>2, <2>3 DEF AgentRPC, TypeInv, TypeOK, Where, Outcome, ClientOK, diskVars, processVars, historyVars
<1>8. CASE PutAgent(c)
  <2>1. at[c] = "save" /\ client[c].project \in Project
    BY <1>8 DEF PutAgent, TypeInv, TypeOK
  <2>2. command[c].kind = "register"
    BY <2>1, <1>1, Fields DEF TypeInv
  <2>3. at' \in [Cmd -> Where] /\ KindInv' /\ ClientOK' /\ outcome' \in [Cmd -> Outcome]
    BY <1>8, <1>1, <1>2, <1>4, <2>2, Proceeds DEF PutAgent, TypeInv
  <2>. QED
    BY <1>8, <1>3, <2>1, <2>3
    DEF PutAgent, TypeInv, TypeOK, Where, Outcome, ClientOK, hostVars, processVars, historyVars
<1>9. CASE StartProvider(c)
  <2>1. at' \in [Cmd -> Where] /\ KindInv' /\ ClientOK' /\ outcome' \in [Cmd -> Outcome]
    BY <1>9, <1>1, <1>2, Proceeds DEF StartProvider, TypeInv
  <2>. QED
    BY <1>9, <1>3, <2>1
    DEF StartProvider, TypeInv, TypeOK, Where, Outcome, ClientOK, diskVars, hostVars, historyVars
<1>10. CASE StopProvider(c)
  <2>1. at[c] = "stop"
    BY <1>10 DEF StopProvider, Go, Goto
  <2>2. command[c].kind = "remove"
    BY <2>1, <1>1, Fields DEF TypeInv
  <2>3. at' \in [Cmd -> Where] /\ KindInv' /\ ClientOK' /\ outcome' \in [Cmd -> Outcome]
    BY <1>10, <1>1, <1>2, <1>4, <2>2, Proceeds DEF StopProvider, TypeInv
  <2>. QED
    BY <1>10, <2>3
    DEF StopProvider, TypeInv, TypeOK, Where, Outcome, ClientOK, diskVars, hostVars, historyVars
<1>11. CASE ForgetAgent(c)
  <2>1. at' \in [Cmd -> Where] /\ KindInv' /\ ClientOK' /\ outcome' \in [Cmd -> Outcome]
    BY <1>11, <1>1, <1>2, Proceeds DEF ForgetAgent, TypeInv
  <2>. QED
    BY <1>11, <1>3, <2>1
    DEF ForgetAgent, TypeInv, TypeOK, Where, Outcome, ClientOK, hostVars, processVars, historyVars
<1>. QED BY <1>5, <1>6, <1>7, <1>8, <1>9, <1>10, <1>11

LEMMA ProcessType ==
    ASSUME TypeInv, LoadAgents \/ (\E g \in Agent : StartLoaded(g)) \/ Restart
    PROVE  TypeInv'
<1>1. CASE LoadAgents
  BY <1>1 DEF LoadAgents, TypeInv, TypeOK, KindInv, diskVars, hostVars, historyVars
<1>2. ASSUME NEW g \in Agent, StartLoaded(g) PROVE TypeInv'
  BY <1>2 DEF StartLoaded, TypeInv, TypeOK, KindInv, diskVars, hostVars, historyVars
<1>3. CASE Restart
  <2>1. /\ at' \in [Cmd -> Where] /\ \A c \in Cmd : at'[c] \notin Saga
    BY <1>3 DEF Restart, TypeInv, TypeOK, Where, Saga
  <2>2. torn' \in SUBSET Project
    <3>1. ASSUME NEW c \in Cmd, at[c] \in {"profile", "unprofile"} PROVE ProjectOf(c) \in Project
      BY <3>1, Fields DEF TypeInv, Saga, Project
    <3>. QED BY <1>3, <3>1 DEF Restart, TypeInv, TypeOK
  <2>3. KindInv' /\ ClientOK'
    BY <2>1 DEF KindInv, ClientOK, Saga
  <2>4. restarts' \in 0..MaxRestarts
    BY <1>3, DeviceAssumption DEF Restart, DeviceAssumption, TypeInv, TypeOK
  <2>5. /\ UNCHANGED <<diskVars, hostVars, command, client, outcome, rekeyed, botched, overtaken>>
        /\ lock' = None /\ providers' = {} /\ toStart' = {}
        /\ runtime' \in BOOLEAN /\ booted' \in BOOLEAN
    BY <1>3, Zenon DEF Restart
  <2>. QED
    BY <2>1, <2>2, <2>3, <2>4, <2>5 DEF TypeInv, TypeOK, Where, ClientOK, diskVars, hostVars
<1>. QED BY <1>1, <1>2, <1>3

LEMMA StartType ==
    ASSUME TypeInv, NEW c \in Cmd, Start(c)
    PROVE  TypeInv'
<1>1. PICK r \in Command : /\ command' = [command EXCEPT ![c] = r]
                           /\ at' = [at EXCEPT ![c] = FirstStep[r.kind]]
  BY DEF Start
<1>2. FirstStep[r.kind] \in StepsOf[r.kind] /\ FirstStep[r.kind] \in {"insert", "join", "use", "client"}
  BY CommandFields DEF FirstStep, StepsOf
<1>3. at' \in [Cmd -> Where] /\ command' \in [Cmd -> Command \cup {None}]
  BY <1>1, <1>2 DEF TypeInv, TypeOK, Where, Saga
<1>4. KindInv'
  BY <1>1, <1>2 DEF TypeInv, TypeOK, KindInv
<1>5. ClientOK'
  BY <1>1, <1>2 DEF Start, TypeInv, TypeOK, ClientOK
<1>. QED
  BY <1>3, <1>4, <1>5 DEF Start, TypeInv, TypeOK, Where, ClientOK, diskVars, hostVars, processVars, historyVars

LEMMA TypeStep == TypeInv /\ [Next]_vars => TypeInv'
<1> SUFFICES ASSUME TypeInv, [Next]_vars PROVE TypeInv'
  OBVIOUS
<1>1. CASE UNCHANGED vars
  BY <1>1 DEF vars, TypeInv, TypeOK, KindInv, diskVars, hostVars, processVars, historyVars
<1>2. ASSUME NEW c \in Cmd, Start(c) \/ Proceed(c) PROVE TypeInv'
  BY <1>2, StartType, CreateType, JoinType, AgentType DEF Proceed
<1>. QED BY <1>1, <1>2, ProcessType DEF Next

\* Every command stands at a step of its kind, with the values that step needs:
\* no RPC is made without a key, for any number of commands and Projects.
THEOREM TypeInvariant == Spec => []TypeInv
<1>1. ASSUME Init PROVE TypeInv
  <2>1. /\ \A c \in Cmd : at[c] = "idle"
        /\ at \in [Cmd -> Where] /\ command \in [Cmd -> Command \cup {None}]
        /\ outcome \in [Cmd -> Outcome]
    BY <1>1 DEF Init, Where, Outcome
  <2>2. client \in [Cmd -> Client]
    BY <1>1 DEF Init, NoClient, Client
  <2>3. /\ keys \in [Project -> Cmd \cup {None}] /\ profiles \in [Project -> Profile \cup {None}]
        /\ current \in Project \cup {None} /\ localAgents \in [Agent -> Project \cup {None}]
        /\ hostKey \in [Local -> Cmd \cup {None}] /\ members \in [Project -> SUBSET Cmd]
        /\ listed \in [Agent -> Listing \cup {None}]
    BY <1>1 DEF Init
  <2>4. restarts \in 0..MaxRestarts
    BY <1>1, DeviceAssumption DEF Init, DeviceAssumption
  <2>. QED BY <1>1, <2>1, <2>2, <2>3, <2>4 DEF Init, TypeInv, TypeOK, KindInv, Client, Where, Outcome, Saga
<1>. QED BY <1>1, TypeStep, PTL DEF Spec

THEOREM TypeCorrect == Spec => []TypeOK
<1>1. TypeInv => TypeOK
  BY DEF TypeInv
<1>. QED BY <1>1, TypeInvariant, PTL

-----------------------------------------------------------------------------

\* A registration that is under way has a Project that is configured, unless it
\* was overtaken by the undoing of that Project.
ReferenceInv ==
    /\ ReferencesResolve
    /\ \A c \in Cmd : at[c] \in {"sign", "rpc", "save"} /\ command[c].kind = "register" =>
         profiles[client[c].project] # None \/ command[c].agent \in overtaken

LEMMA ReferenceStep == TypeInv /\ ReferenceInv /\ [Next]_vars => ReferenceInv'
<1> SUFFICES ASSUME TypeInv, ReferenceInv, [Next]_vars PROVE ReferenceInv'
  OBVIOUS
<1> USE DEF ReferenceInv, ReferencesResolve
<1>1. ASSUME NEW c \in Cmd, Start(c) PROVE ReferenceInv'
  <2>1. PICK r \in Command : /\ command' = [command EXCEPT ![c] = r]
                             /\ at' = [at EXCEPT ![c] = FirstStep[r.kind]]
    BY <1>1 DEF Start
  <2>2. FirstStep[r.kind] \in {"insert", "join", "use", "client"}
    BY CommandFields DEF FirstStep
  <2>3. UNCHANGED <<current, profiles, localAgents, overtaken, client>>
    BY <1>1 DEF Start, diskVars, historyVars
  <2>. QED BY <2>1, <2>2, <2>3 DEF TypeInv, TypeOK
<1>2. ASSUME NEW c \in Cmd,
             InsertRows(c) \/ Join(c) \/ StoreKey(c) \/ CreateInvitation(c) \/ DeleteKey(c) \/ DeleteRows(c)
      PROVE ReferenceInv'
  <2>1. UNCHANGED <<current, profiles, localAgents, overtaken, client, command>>
    BY <1>2 DEF InsertRows, Join, StoreKey, StoreWith, CreateInvitation, DeleteKey, DeleteRows, diskVars, historyVars
  <2>2. \A d \in Cmd : at'[d] = at[d] \/ at'[d] \notin {"sign", "rpc", "save"}
    BY <1>2 DEF InsertRows, Join, StoreKey, StoreWith, CreateInvitation, DeleteKey, DeleteRows,
                Abandon, Go, Goto, Finish, TypeInv, TypeOK
  <2>. QED BY <2>1, <2>2
<1>3. ASSUME NEW c \in Cmd, SaveProfile(c) \/ UseProject(c) PROVE ReferenceInv'
  <2>1. UNCHANGED <<localAgents, overtaken, client, command>>
    BY <1>3 DEF SaveProfile, UseProject, historyVars
  <2>2. \A d \in Cmd : at'[d] = at[d] \/ at'[d] \notin {"sign", "rpc", "save"}
    BY <1>3 DEF SaveProfile, UseProject, Abandon, Go, Goto, Finish, TypeInv, TypeOK
  <2>3. /\ \A p \in Project : profiles[p] # None => profiles'[p] # None
        /\ current' # None => profiles'[current'] # None
    <3>1. at[c] \in {"profile", "use"} /\ ProjectOf(c) \in Project
      BY <1>3, Fields DEF SaveProfile, UseProject, TypeInv, Saga, Project
    <3>2. [key |-> c, hosted |-> Creates(c)] # None
      <4>1. Creates(c) \in BOOLEAN
        BY DEF Creates
      <4>. QED BY <4>1, DeviceAssumption DEF DeviceAssumption, Profile
    <3>3. CASE UseProject(c)
      BY <3>1, <3>3 DEF UseProject, ReferenceInv, ReferencesResolve
    <3>4. CASE UNCHANGED <<profiles, current>>
      BY <3>4
    <3>5. CASE /\ profiles' = [profiles EXCEPT ![ProjectOf(c)] = [key |-> c, hosted |-> Creates(c)]]
               /\ current' = ProjectOf(c)
      <4>1. profiles \in [Project -> Profile \cup {None}]
        BY DEF TypeInv, TypeOK
      <4>. QED BY <3>1, <3>2, <3>5, <4>1
    <3>. QED BY <1>3, <3>3, <3>4, <3>5 DEF SaveProfile
  <2>. QED BY <2>1, <2>2, <2>3 DEF TypeInv, TypeOK
<1>4. ASSUME NEW c \in Cmd, RemoveProfile(c) PROVE ReferenceInv'
  <2> DEFINE p == ProjectOf(c)
  <2>1. UNCHANGED <<client, command>> /\ at[c] = "unprofile" /\ p \in Project
    <3>1. UNCHANGED <<client, command>> /\ at[c] = "unprofile"
      BY <1>4 DEF RemoveProfile, SaveRemoval
    <3>. QED BY <3>1, Fields DEF TypeInv, Saga, Project
  <2>2. \A d \in Cmd : at'[d] = at[d] \/ at'[d] \notin {"sign", "rpc", "save"}
    BY <1>4 DEF RemoveProfile, SaveRemoval, Go, Goto, TypeInv, TypeOK
  <2>3. CASE UNCHANGED <<profiles, localAgents, current, overtaken>>
    BY <2>1, <2>2, <2>3
  <2>4. CASE /\ profiles' = [profiles EXCEPT ![p] = None]
             /\ localAgents' = AgentsWithout(p)
             /\ current' = IF current = p THEN None ELSE current
             /\ overtaken' = overtaken \cup Registering(p)
    <3>1. \A q \in Project : q # p => profiles'[q] = profiles[q]
      BY <2>4 DEF TypeInv, TypeOK
    <3>2. current' # None => profiles'[current'] # None
      BY <2>4, <3>1 DEF TypeInv, TypeOK
    <3>3. \A g \in Agent : localAgents'[g] # None => localAgents[g] # p /\ localAgents'[g] = localAgents[g]
      BY <2>4 DEF AgentsWithout
    <3>4. ASSUME NEW d \in Cmd, at[d] \in {"sign", "rpc", "save"}, command[d].kind = "register",
                 client[d].project = p
          PROVE  command[d].agent \in overtaken'
      BY <2>4, <3>4 DEF Registering
    <3>. QED BY <2>1, <2>2, <2>4, <3>1, <3>2, <3>3, <3>4 DEF TypeInv, TypeOK
  <2>. QED BY <1>4, <2>3, <2>4 DEF RemoveProfile, SaveRemoval
<1>5. ASSUME NEW c \in Cmd, ReadProfile(c) PROVE ReferenceInv'
  <2>1. UNCHANGED <<current, profiles, localAgents, overtaken, command>>
    BY <1>5 DEF ReadProfile, diskVars, historyVars
  <2>2. \A d \in Cmd \ {c} : at'[d] = at[d] /\ client'[d] = client[d]
    BY <1>5 DEF ReadProfile, Go, Goto, Finish, TypeInv, TypeOK
  <2>3. \/ at'[c] = "done"
        \/ profiles[current] # None /\ client'[c].project = current
    BY <1>5 DEF ReadProfile, Go, Goto, Finish, TypeInv, TypeOK
  <2>. QED BY <2>1, <2>2, <2>3
<1>6. ASSUME NEW c \in Cmd, ReadKey(c) \/ AgentRPC(c) PROVE ReferenceInv'
  <2>1. UNCHANGED <<current, profiles, localAgents, overtaken, command>>
    BY <1>6 DEF ReadKey, AgentRPC, diskVars, historyVars
  <2>2. /\ at[c] \in {"sign", "rpc"}
        /\ \A d \in Cmd : client'[d].project = client[d].project
        /\ \A d \in Cmd \ {c} : at'[d] = at[d]
    BY <1>6 DEF ReadKey, AgentRPC, Go, Goto, Finish, TypeInv, TypeOK
  <2>. QED BY <2>1, <2>2
<1>7. ASSUME NEW c \in Cmd, PutAgent(c) PROVE ReferenceInv'
  <2>1. UNCHANGED <<current, profiles, overtaken, command, client>> /\ at[c] = "save"
    BY <1>7 DEF PutAgent, historyVars
  <2>2. command[c].kind = "register" /\ command[c].agent \in Agent
    BY <2>1, Fields DEF TypeInv, Saga
  <2>3. \A d \in Cmd : at'[d] = at[d] \/ at'[d] \notin {"sign", "rpc", "save"}
    BY <1>7 DEF PutAgent, Go, Goto, Finish, TypeInv, TypeOK
  <2>4. \A g \in Agent : \/ localAgents'[g] = localAgents[g]
                         \/ g = command[c].agent /\ localAgents'[g] = client[c].project
    BY <1>7, <2>2 DEF PutAgent, TypeInv, TypeOK
  <2>. QED BY <2>1, <2>2, <2>3, <2>4
<1>8. ASSUME NEW c \in Cmd, StartProvider(c) \/ StopProvider(c) \/ ForgetAgent(c) PROVE ReferenceInv'
  <2>1. UNCHANGED <<current, profiles, overtaken, command, client>>
    BY <1>8 DEF StartProvider, StopProvider, ForgetAgent, diskVars, historyVars
  <2>2. \A d \in Cmd : at'[d] = at[d] \/ at'[d] \notin {"sign", "rpc", "save"}
    BY <1>8 DEF StartProvider, StopProvider, ForgetAgent, Go, Goto, Finish, TypeInv, TypeOK
  <2>3. \A g \in Agent : localAgents'[g] \in {localAgents[g], None}
    BY <1>8 DEF StartProvider, StopProvider, ForgetAgent, diskVars, TypeInv, TypeOK
  <2>. QED BY <2>1, <2>2, <2>3
<1>9. CASE LoadAgents \/ (\E g \in Agent : StartLoaded(g)) \/ Restart \/ UNCHANGED vars
  <2>1. UNCHANGED <<current, profiles, localAgents, overtaken, command, client>>
    BY <1>9 DEF LoadAgents, StartLoaded, Restart, vars, diskVars, historyVars
  <2>2. \A d \in Cmd : at'[d] = at[d] \/ at'[d] \notin {"sign", "rpc", "save"}
    BY <1>9 DEF LoadAgents, StartLoaded, Restart, vars, Saga
  <2>. QED BY <2>1, <2>2
<1>. QED
  BY <1>1, <1>2, <1>3, <1>4, <1>5, <1>6, <1>7, <1>8, <1>9 DEF Next, Proceed

\* The current Project and the Projects of shared Agents are configured ones,
\* however commands that create, undo, switch and register overlap.
THEOREM ReferencesAreKept == Spec => []ReferencesResolve
<1>1. Init => ReferenceInv
  BY DEF Init, ReferenceInv, ReferencesResolve
<1>2. ReferenceInv => ReferencesResolve
  BY DEF ReferenceInv
<1>. QED BY <1>1, <1>2, ReferenceStep, TypeInvariant, PTL DEF Spec

-----------------------------------------------------------------------------

\* Command c stands between the two halves of a change of p.
Changes(c, p) == at[c] \in {"profile", "unprofile"} /\ ProjectOf(c) = p

\* But for the Projects in torn, one command at a time changes a Project, and
\* one that has stored its key still finds it there.
KeyInv ==
    /\ KeyFitsProfile
    /\ \A p \in Project \ torn : \A c, d \in Cmd : Changes(c, p) /\ Changes(d, p) => c = d
    /\ \A c \in Cmd : at[c] = "profile" /\ ProjectOf(c) \notin torn => keys[ProjectOf(c)] = c

LEMMA ChangingIs == ASSUME NEW p PROVE Changing(p) <=> \E c \in Cmd : Changes(c, p)
  BY DEF Changing, Changes

\* A step that neither changes a key or a profile nor stands between them.
LEMMA KeyStutter ==
    ASSUME KeyInv, UNCHANGED <<keys, profiles, torn>>,
           \A c \in Cmd : \/ at'[c] = at[c] /\ command'[c] = command[c]
                          \/ /\ at[c] \notin {"profile", "unprofile"}
                             /\ at'[c] \notin {"profile", "unprofile"}
    PROVE  KeyInv'
<1>1. \A c \in Cmd, p \in Project : Changes(c, p)' <=> Changes(c, p)
  BY DEF Changes, ProjectOf
<1>2. \A c \in Cmd : at'[c] = "profile" => at[c] = "profile" /\ ProjectOf(c)' = ProjectOf(c)
  BY DEF ProjectOf
<1>3. \A p \in Project : Changing(p)' <=> Changing(p)
  BY <1>1 DEF Changing, Changes
<1>4. KeyFitsProfile'
  BY <1>3 DEF KeyInv, KeyFitsProfile
<1>. QED BY <1>1, <1>2, <1>4 DEF KeyInv

\* A step of command c that changes the key or the profile of its Project p,
\* unless p is torn from now on.
LEMMA KeyChange ==
    ASSUME TypeInv, KeyInv, NEW c \in Cmd, NEW p \in Project, p = ProjectOf(c),
           NEW to \in Where, at' = [at EXCEPT ![c] = to], UNCHANGED command,
           torn \subseteq torn',
           \A q \in Project \ {p} : keys'[q] = keys[q] /\ profiles'[q] = profiles[q],
           p \notin torn' =>
             /\ \A d \in Cmd \ {c} : ~Changes(d, p)
             /\ to = "profile" => keys'[p] = c
             /\ to \notin {"profile", "unprofile"} /\ profiles'[p] # None => keys'[p] = profiles'[p].key
    PROVE  KeyInv'
<1>1. \A d \in Cmd \ {c} : at'[d] = at[d] /\ at'[c] = to
  BY DEF TypeInv, TypeOK
<1>2. \A d \in Cmd : ProjectOf(d)' = ProjectOf(d)
  BY DEF ProjectOf
<1>3. \A d \in Cmd \ {c}, q \in Project : Changes(d, q)' <=> Changes(d, q)
  BY <1>1, <1>2 DEF Changes
<1>4. \A q \in Project \ {p} : ~Changes(c, q) /\ ~Changes(c, q)'
  BY <1>2 DEF Changes
<1>5. \A q \in Project \ {p} : Changing(q)' <=> Changing(q)
  BY <1>3, <1>4 DEF Changing, Changes
<1>6. at'[c] = to
  BY DEF TypeInv, TypeOK
<1>7. to \in {"profile", "unprofile"} => Changing(p)'
  BY <1>2, <1>6 DEF Changing
<1>8. KeyFitsProfile'
  BY <1>5, <1>7 DEF KeyInv, KeyFitsProfile
<1>9. ASSUME NEW q \in Project \ torn', NEW d \in Cmd, NEW e \in Cmd, Changes(d, q)', Changes(e, q)'
      PROVE  d = e
  BY <1>3, <1>4, <1>9 DEF KeyInv
<1>10. ASSUME NEW d \in Cmd, at'[d] = "profile", ProjectOf(d)' \notin torn'
       PROVE  keys'[ProjectOf(d)'] = d
  <2>1. CASE d = c
    BY <2>1, <1>2, <1>6, <1>10
  <2>2. CASE d # c
    <3>1. at[d] = "profile" /\ ProjectOf(d) \notin torn /\ ProjectOf(d) \in Project
      BY <2>2, <1>1, <1>2, <1>10, Fields DEF TypeInv, Saga
    <3>2. ProjectOf(d) # p
      BY <2>2, <3>1, <1>2, <1>10 DEF Changes
    <3>. QED BY <3>1, <3>2, <1>2 DEF KeyInv
  <2>. QED BY <2>1, <2>2
<1>. QED BY <1>8, <1>9, <1>10 DEF KeyInv

LEMMA KeyStep == TypeInv /\ KeyInv /\ [Next]_vars => KeyInv'
<1> SUFFICES ASSUME TypeInv, KeyInv, [Next]_vars PROVE KeyInv'
  OBVIOUS
<1> DEFINE halves == {"profile", "unprofile"}
<1>1. ASSUME NEW c \in Cmd, Start(c) PROVE KeyInv'
  <2>1. PICK r \in Command : /\ command' = [command EXCEPT ![c] = r]
                             /\ at' = [at EXCEPT ![c] = FirstStep[r.kind]]
    BY <1>1 DEF Start
  <2>2. FirstStep[r.kind] \in {"insert", "join", "use", "client"}
    BY CommandFields DEF FirstStep
  <2>3. UNCHANGED <<keys, profiles, torn>> /\ at[c] = "idle"
    BY <1>1 DEF Start, diskVars, historyVars
  <2>. QED BY <2>1, <2>2, <2>3, KeyStutter DEF TypeInv, TypeOK
<1>2. ASSUME NEW c \in Cmd,
             \/ InsertRows(c) \/ Join(c) \/ CreateInvitation(c) \/ DeleteRows(c) \/ UseProject(c)
             \/ ReadProfile(c) \/ ReadKey(c) \/ AgentRPC(c) \/ PutAgent(c)
             \/ StartProvider(c) \/ StopProvider(c) \/ ForgetAgent(c)
      PROVE KeyInv'
  <2>1. UNCHANGED <<keys, profiles, torn, command>>
    BY <1>2 DEF InsertRows, Join, CreateInvitation, DeleteRows, UseProject, ReadProfile, ReadKey, AgentRPC,
                PutAgent, StartProvider, StopProvider, ForgetAgent, diskVars, historyVars
  <2>2. at[c] \notin halves /\ at'[c] \notin halves /\ \A d \in Cmd \ {c} : at'[d] = at[d]
    BY <1>2 DEF InsertRows, Join, CreateInvitation, DeleteRows, UseProject, ReadProfile, ReadKey, AgentRPC,
                PutAgent, StartProvider, StopProvider, ForgetAgent, Go, Goto, Finish, TypeInv, TypeOK
  <2>. QED BY <2>1, <2>2, KeyStutter
<1>3. ASSUME NEW c \in Cmd, StoreKey(c) PROVE KeyInv'
  <2> DEFINE p == ProjectOf(c)
  <2>1. at[c] = "key" /\ p \in Project /\ UNCHANGED <<profiles, command>>
    BY <1>3, Fields DEF StoreKey, StoreWith, TypeInv, Saga, Project
  <2>2. CASE Abandon(c, "key") /\ UNCHANGED <<keys, torn>>
    <3>1. at'[c] \notin halves /\ \A d \in Cmd \ {c} : at'[d] = at[d]
      BY <2>2 DEF Abandon, Go, Goto, Finish, TypeInv, TypeOK
    <3>. QED BY <2>1, <2>2, <3>1, KeyStutter
  <2>3. CASE /\ keys' = [keys EXCEPT ![p] = c] /\ Go(c, "key", "profile")
             /\ torn' = IF Halfway(p) # {} THEN torn \cup {p} ELSE torn
    <3>1. /\ at' = [at EXCEPT ![c] = "profile"] /\ "profile" \in Where
          /\ torn \subseteq torn' /\ keys'[p] = c
          /\ \A q \in Project \ {p} : keys'[q] = keys[q] /\ profiles'[q] = profiles[q]
      BY <2>1, <2>3 DEF Go, Goto, Where, Saga, TypeInv, TypeOK
    <3>2. p \notin torn' => \A d \in Cmd \ {c} : ~Changes(d, p)
      BY <2>3 DEF Halfway, Changes
    <3>. QED BY <2>1, <3>1, <3>2, KeyChange
  <2>. QED BY <1>3, <2>2, <2>3 DEF StoreKey, StoreWith
<1>4. ASSUME NEW c \in Cmd, SaveProfile(c) PROVE KeyInv'
  <2> DEFINE p == ProjectOf(c)
             new == [key |-> c, hosted |-> Creates(c)]
  <2>1. at[c] = "profile" /\ p \in Project /\ UNCHANGED <<keys, command>> /\ Changes(c, p)
    BY <1>4, Fields DEF SaveProfile, TypeInv, Saga, Project, Changes
  <2>2. PICK to \in {"invite", "done", "unrow"} : at' = [at EXCEPT ![c] = to]
    BY <1>4 DEF SaveProfile, Abandon, Go, Goto, Finish
  <2>3. \/ UNCHANGED torn /\ profiles' = [profiles EXCEPT ![p] = new]
        \/ p \in torn' /\ torn \subseteq torn' /\ UNCHANGED profiles
    BY <1>4 DEF SaveProfile
  <2>4. /\ torn \subseteq torn'
        /\ \A q \in Project \ {p} : keys'[q] = keys[q] /\ profiles'[q] = profiles[q]
    BY <2>1, <2>3 DEF TypeInv, TypeOK
  <2>5. p \notin torn' => /\ \A d \in Cmd \ {c} : ~Changes(d, p)
                          /\ keys'[p] = c /\ profiles'[p] = new
    BY <2>1, <2>3 DEF KeyInv, TypeInv, TypeOK
  <2>6. new.key = c
    OBVIOUS
  <2>7. to \in Where /\ to \notin halves
    BY DEF Where, Saga
  <2>. QED BY <2>1, <2>2, <2>4, <2>5, <2>6, <2>7, KeyChange
<1>5. ASSUME NEW c \in Cmd, DeleteKey(c) PROVE KeyInv'
  <2> DEFINE p == ProjectOf(c)
  <2>1. at[c] = "unkey" /\ p \in Project /\ UNCHANGED <<profiles, command>>
    BY <1>5, Fields DEF DeleteKey, TypeInv, Saga, Project
  <2>2. CASE Go(c, "unkey", "unrow") /\ UNCHANGED <<keys, torn>>
    <3>1. at'[c] \notin halves /\ \A d \in Cmd \ {c} : at'[d] = at[d]
      BY <2>2 DEF Go, Goto, TypeInv, TypeOK
    <3>. QED BY <2>1, <2>2, <3>1, KeyStutter
  <2>3. CASE /\ keys' = [keys EXCEPT ![p] = None] /\ Go(c, "unkey", "unprofile")
             /\ torn' = IF Halfway(p) # {} THEN torn \cup {p} ELSE torn
    <3>1. /\ at' = [at EXCEPT ![c] = "unprofile"] /\ "unprofile" \in Where
          /\ torn \subseteq torn'
          /\ \A q \in Project \ {p} : keys'[q] = keys[q] /\ profiles'[q] = profiles[q]
      BY <2>1, <2>3 DEF Go, Goto, Where, Saga, TypeInv, TypeOK
    <3>2. p \notin torn' => \A d \in Cmd \ {c} : ~Changes(d, p)
      BY <2>3 DEF Halfway, Changes
    <3>. QED BY <2>1, <3>1, <3>2, KeyChange
  <2>. QED BY <1>5, <2>2, <2>3 DEF DeleteKey
<1>6. ASSUME NEW c \in Cmd, RemoveProfile(c) PROVE KeyInv'
  <2> DEFINE p == ProjectOf(c)
  <2>1. at[c] = "unprofile" /\ p \in Project /\ UNCHANGED <<keys, command>> /\ Changes(c, p)
    <3>1. at[c] = "unprofile" /\ UNCHANGED <<keys, command>>
      BY <1>6 DEF RemoveProfile, SaveRemoval
    <3>. QED BY <3>1, Fields DEF TypeInv, Saga, Project, Changes
  <2>2. at' = [at EXCEPT ![c] = "unrow"] /\ "unrow" \in Where
    BY <1>6 DEF RemoveProfile, SaveRemoval, Go, Goto, Where, Saga
  <2>3. \/ UNCHANGED torn /\ profiles' = [profiles EXCEPT ![p] = None]
        \/ p \in torn' /\ torn \subseteq torn' /\ UNCHANGED profiles
    BY <1>6 DEF RemoveProfile, SaveRemoval
  <2>4. /\ torn \subseteq torn'
        /\ \A q \in Project \ {p} : keys'[q] = keys[q] /\ profiles'[q] = profiles[q]
        /\ p \notin torn' => profiles'[p] = None
    BY <2>1, <2>3 DEF TypeInv, TypeOK
  <2>5. p \notin torn' => \A d \in Cmd \ {c} : ~Changes(d, p)
    BY <2>1, <2>4 DEF KeyInv
  <2>. QED BY <2>1, <2>2, <2>4, <2>5, KeyChange
<1>7. CASE Restart
  <2>1. /\ UNCHANGED <<keys, profiles>> /\ \A c \in Cmd : at'[c] \notin halves
        /\ torn' = torn \cup {ProjectOf(c) : c \in {d \in Cmd : at[d] \in halves}}
    BY <1>7 DEF Restart, diskVars, Saga
  <2>2. \A p \in Project : p \notin torn' => p \notin torn /\ ~Changing(p)
    BY <2>1 DEF Changing
  <2>. QED BY <2>1, <2>2 DEF KeyInv, KeyFitsProfile, Changes
<1>8. CASE LoadAgents \/ (\E g \in Agent : StartLoaded(g)) \/ UNCHANGED vars
  <2>1. UNCHANGED <<keys, profiles, torn, at, command>>
    BY <1>8 DEF LoadAgents, StartLoaded, vars, diskVars, historyVars
  <2>. QED BY <2>1, KeyStutter
<1>. QED
  BY <1>1, <1>2, <1>3, <1>4, <1>5, <1>6, <1>7, <1>8 DEF Next, Proceed

\* The Keychain holds the key of the member that state.json names, for any
\* number of commands that create, join and undo, unless a change of the two
\* failed or died halfway or met another.
THEOREM KeysFitProfiles == Spec => []KeyFitsProfile
<1>1. Init => KeyInv
  BY DEF Init, KeyInv, KeyFitsProfile, Changes
<1>2. KeyInv => KeyFitsProfile
  BY DEF KeyInv
<1>. QED BY <1>1, <1>2, KeyStep, TypeInvariant, PTL DEF Spec

-----------------------------------------------------------------------------

Hosted(c) == [key |-> c, hosted |-> TRUE]
IsCreate(c) == command[c] # None /\ Creates(c)

LEMMA HostedIs == ASSUME NEW c \in Cmd PROVE Hosted(c) # None /\ Hosted(c).key = c
<1>1. Hosted(c) \in Profile
  BY DEF Hosted, Profile
<1>2. None \notin Profile
  BY DeviceAssumption DEF DeviceAssumption
<1>. QED BY <1>1, <1>2 DEF Hosted

\* How far the creation c of Project p has come, and what it has left.
CreateOK(c, p) ==
    /\ at[c] \in Saga => outcome[c] = "none"
    /\ at[c] = "insert" => hostKey[p] = None
    /\ at[c] \in {"key", "profile", "invite"} => hostKey[p] = c /\ c \in members[p]
    /\ at[c] \in {"insert", "key", "profile"} => profiles[p] # Hosted(c)
    /\ at[c] \in {"profile", "invite"} /\ p \notin rekeyed => keys[p] = c
    /\ at[c] = "invite" /\ p \notin rekeyed => profiles[p] = Hosted(c)
    /\ at[c] = "unrow" /\ p \notin botched => profiles[p] # Hosted(c)
    /\ outcome[c] = "ok" => /\ hostKey[p] = c /\ c \in members[p]
                            /\ p \notin rekeyed => profiles[p] = Hosted(c) /\ keys[p] = c
    /\ outcome[c] = "failed" /\ p \notin botched => hostKey[p] = None /\ profiles[p] # Hosted(c)

CreateInv ==
    /\ \A c \in Cmd : IsCreate(c) => CreateOK(c, ProjectOf(c))
    /\ \A c, d \in Cmd : IsCreate(c) /\ IsCreate(d) /\ ProjectOf(c) = ProjectOf(d) => c = d
    /\ \A c \in Cmd : /\ at[c] = "idle" => command[c] = None /\ outcome[c] = "none"
                      /\ at[c] = "profile" /\ ~Creates(c) /\ ProjectOf(c) \in Local =>
                           ProjectOf(c) \in rekeyed
    /\ \A p \in Local : hostKey[p] # None => IsCreate(hostKey[p]) /\ ProjectOf(hostKey[p]) = p
    /\ \A p \in Project : profiles[p] # None => command[profiles[p].key] # None

\* A step of command c leaves another creation d alone: it does not touch its
\* Project, or only as a join of that Project would.
LEMMA CreateKept ==
    ASSUME NEW d \in Cmd, NEW p, CreateOK(d, p),
           at'[d] = at[d], outcome'[d] = outcome[d],
           hostKey'[p] = hostKey[p], d \in members[p] => d \in members'[p],
           \/ profiles'[p] = profiles[p]
           \/ p \in rekeyed' /\ profiles'[p] # Hosted(d),
           keys'[p] = keys[p] \/ p \in rekeyed',
           rekeyed \subseteq rekeyed', botched \subseteq botched'
    PROVE  CreateOK(d, p)'
  BY DEF CreateOK, Hosted

\* A step of command c that touches no Project but its own.
LEMMA CreateOwn ==
    ASSUME TypeInv, CreateInv, NEW c \in Cmd, NEW p \in Project, p = ProjectOf(c), IsCreate(c),
           UNCHANGED command, NEW to \in Where, at' = [at EXCEPT ![c] = to], to # "idle",
           \A d \in Cmd \ {c} : outcome'[d] = outcome[d],
           \A q \in Local \ {p} : hostKey'[q] = hostKey[q],
           \A q \in Project \ {p} :
             /\ profiles'[q] = profiles[q] /\ keys'[q] = keys[q] /\ members'[q] = members[q],
           rekeyed' = rekeyed, botched \subseteq botched',
           CreateOK(c, p)',
           p \in Local => hostKey'[p] \in {hostKey[p], None, c},
           profiles'[p] # None => profiles'[p] = profiles[p] \/ profiles'[p].key = c
    PROVE  CreateInv'
<1>1. /\ \A d \in Cmd : ProjectOf(d)' = ProjectOf(d) /\ IsCreate(d)' = IsCreate(d)
      /\ \A d \in Cmd : Creates(d)' = Creates(d)
  BY DEF ProjectOf, IsCreate, Creates
<1>2. at'[c] = to /\ \A d \in Cmd \ {c} : at'[d] = at[d]
  BY DEF TypeInv, TypeOK
<1>3. ASSUME NEW d \in Cmd, IsCreate(d), d # c PROVE CreateOK(d, ProjectOf(d))'
  <2>1. ProjectOf(d) # p
    BY <1>3 DEF CreateInv
  <2>2. ProjectOf(d) \in Local
    BY <1>3, CommandFields DEF IsCreate, Creates, ProjectOf, TypeInv, TypeOK
  <2>3. CreateOK(d, ProjectOf(d))
    BY <1>3 DEF CreateInv
  <2>. QED BY <1>1, <1>2, <1>3, <2>1, <2>2, <2>3, CreateKept DEF Project
<1>4. \A d \in Cmd : IsCreate(d)' => CreateOK(d, ProjectOf(d))'
  BY <1>1, <1>3
<1>5. \A d, e \in Cmd : IsCreate(d)' /\ IsCreate(e)' /\ ProjectOf(d)' = ProjectOf(e)' => d = e
  BY <1>1 DEF CreateInv
<1>6. ASSUME NEW d \in Cmd
      PROVE  /\ at'[d] = "idle" => command'[d] = None /\ outcome'[d] = "none"
             /\ at'[d] = "profile" /\ ~Creates(d)' /\ ProjectOf(d)' \in Local => ProjectOf(d)' \in rekeyed'
  <2>1. CASE d = c
    BY <1>1, <1>2, <2>1 DEF IsCreate
  <2>2. CASE d # c
    BY <1>1, <1>2, <2>2 DEF CreateInv
  <2>. QED BY <2>1, <2>2
<1>7. (\A q \in Local : hostKey[q] # None => IsCreate(hostKey[q]) /\ ProjectOf(hostKey[q]) = q)'
  <2>1. ASSUME NEW q \in Local, hostKey'[q] # None
        PROVE  hostKey'[q] = hostKey[q] \/ (hostKey'[q] = c /\ q = p)
    <3>1. CASE q = p
      BY <2>1, <3>1
    <3>2. CASE q # p
      BY <2>1, <3>2
    <3>. QED BY <3>1, <3>2
  <2>2. \A q \in Local : hostKey[q] # None => hostKey[q] \in Cmd
    BY DEF TypeInv, TypeOK
  <2>. QED BY <2>1, <2>2 DEF CreateInv, IsCreate, Creates, ProjectOf
<1>8. (\A q \in Project : profiles[q] # None => command[profiles[q].key] # None)'
  <2>1. ASSUME NEW q \in Project, profiles'[q] # None
        PROVE  profiles'[q] = profiles[q] \/ profiles'[q].key = c
    BY <2>1
  <2>. QED BY <2>1 DEF CreateInv, IsCreate
<1>. QED BY <1>4, <1>5, <1>6, <1>7, <1>8 DEF CreateInv

\* A step of a command that leaves every Project, and every creation, alone.
LEMMA CreateAside ==
    ASSUME TypeInv, CreateInv, NEW c \in Cmd, NEW to \in Where,
           at' = [at EXCEPT ![c] = to], to # "idle", ~Creates(c), UNCHANGED command,
           \A d \in Cmd \ {c} : outcome'[d] = outcome[d],
           UNCHANGED <<hostKey, profiles, keys, rekeyed, botched>>,
           \A q \in Project : members[q] \subseteq members'[q],
           to = "profile" /\ ProjectOf(c) \in Local => ProjectOf(c) \in rekeyed
    PROVE  CreateInv'
<1>1. /\ \A d \in Cmd : ProjectOf(d)' = ProjectOf(d) /\ IsCreate(d)' = IsCreate(d)
      /\ \A d \in Cmd : Creates(d)' = Creates(d)
  BY DEF ProjectOf, IsCreate, Creates
<1>2. at'[c] = to /\ \A d \in Cmd \ {c} : at'[d] = at[d]
  BY DEF TypeInv, TypeOK
<1>3. ASSUME NEW d \in Cmd, IsCreate(d) PROVE CreateOK(d, ProjectOf(d))'
  <2>1. d # c
    BY <1>3 DEF IsCreate
  <2>2. ProjectOf(d) \in Local
    BY <1>3, CommandFields DEF IsCreate, Creates, ProjectOf, TypeInv, TypeOK
  <2>3. CreateOK(d, ProjectOf(d))
    BY <1>3 DEF CreateInv
  <2>. QED BY <1>1, <1>2, <1>3, <2>1, <2>2, <2>3, CreateKept DEF Project
<1>4. ASSUME NEW d \in Cmd
      PROVE  /\ at'[d] = "idle" => command'[d] = None /\ outcome'[d] = "none"
             /\ at'[d] = "profile" /\ ~Creates(d)' /\ ProjectOf(d)' \in Local => ProjectOf(d)' \in rekeyed'
  <2>1. CASE d = c
    BY <1>1, <1>2, <2>1
  <2>2. CASE d # c
    BY <1>1, <1>2, <2>2 DEF CreateInv
  <2>. QED BY <2>1, <2>2
<1>5. (\A q \in Local : hostKey[q] # None => IsCreate(hostKey[q]) /\ ProjectOf(hostKey[q]) = q)'
  BY DEF CreateInv, IsCreate, Creates, ProjectOf
<1>6. (\A q \in Project : profiles[q] # None => command[profiles[q].key] # None)'
  BY DEF CreateInv
<1>7. \A d, e \in Cmd : IsCreate(d)' /\ IsCreate(e)' /\ ProjectOf(d)' = ProjectOf(e)' => d = e
  BY <1>1 DEF CreateInv
<1>8. \A d \in Cmd : IsCreate(d)' => CreateOK(d, ProjectOf(d))'
  BY <1>1, <1>3
<1>. QED BY <1>4, <1>5, <1>6, <1>7, <1>8 DEF CreateInv

\* A step of a join on the key or the profile of its Project.
LEMMA CreateJoined ==
    ASSUME TypeInv, CreateInv, NEW c \in Cmd, NEW p \in Project, p = ProjectOf(c),
           command[c].kind = "join", command[c] # None,
           UNCHANGED <<command, hostKey, members, botched>>,
           NEW to \in Where, at' = [at EXCEPT ![c] = to], to # "idle",
           \A d \in Cmd \ {c} : outcome'[d] = outcome[d],
           \A q \in Project \ {p} : profiles'[q] = profiles[q] /\ keys'[q] = keys[q],
           rekeyed \subseteq rekeyed', p \in Local => p \in rekeyed',
           profiles'[p] = profiles[p] \/ profiles'[p] = [key |-> c, hosted |-> FALSE]
    PROVE  CreateInv'
<1>1. /\ \A d \in Cmd : ProjectOf(d)' = ProjectOf(d) /\ IsCreate(d)' = IsCreate(d)
      /\ \A d \in Cmd : Creates(d)' = Creates(d)
  BY DEF ProjectOf, IsCreate, Creates
<1>2. at'[c] = to /\ \A d \in Cmd \ {c} : at'[d] = at[d]
  BY DEF TypeInv, TypeOK
<1>3. ASSUME NEW d \in Cmd, IsCreate(d) PROVE CreateOK(d, ProjectOf(d))'
  <2> DEFINE q == ProjectOf(d)
  <2>1. d # c
    BY <1>3 DEF IsCreate, Creates
  <2>2. q \in Local /\ q \in Project
    BY <1>3, CommandFields DEF IsCreate, Creates, ProjectOf, TypeInv, TypeOK, Project
  <2>3. CreateOK(d, q)
    BY <1>3 DEF CreateInv
  <2>4. keys'[q] = keys[q] \/ q \in rekeyed'
    BY <2>2
  <2>5. profiles'[q] = profiles[q] \/ (q \in rekeyed' /\ profiles'[q] # Hosted(d))
    BY <2>2 DEF Hosted
  <2>. QED BY <1>1, <1>2, <1>3, <2>1, <2>2, <2>3, <2>4, <2>5, CreateKept
<1>4. ASSUME NEW d \in Cmd
      PROVE  /\ at'[d] = "idle" => command'[d] = None /\ outcome'[d] = "none"
             /\ at'[d] = "profile" /\ ~Creates(d)' /\ ProjectOf(d)' \in Local => ProjectOf(d)' \in rekeyed'
  <2>1. CASE d = c
    BY <1>1, <1>2, <2>1
  <2>2. CASE d # c
    BY <1>1, <1>2, <2>2 DEF CreateInv
  <2>. QED BY <2>1, <2>2
<1>5. (\A q \in Local : hostKey[q] # None => IsCreate(hostKey[q]) /\ ProjectOf(hostKey[q]) = q)'
  BY DEF CreateInv, IsCreate, Creates, ProjectOf
<1>6. (\A q \in Project : profiles[q] # None => command[profiles[q].key] # None)'
  BY DEF CreateInv
<1>7. \A d, e \in Cmd : IsCreate(d)' /\ IsCreate(e)' /\ ProjectOf(d)' = ProjectOf(e)' => d = e
  BY <1>1 DEF CreateInv
<1>8. \A d \in Cmd : IsCreate(d)' => CreateOK(d, ProjectOf(d))'
  BY <1>1, <1>3
<1>. QED BY <1>4, <1>5, <1>6, <1>7, <1>8 DEF CreateInv

\* What the steps of a creation do to its own Project.
LEMMA CreateProceeds ==
    ASSUME TypeInv, CreateInv, NEW c \in Cmd, IsCreate(c),
           \/ InsertRows(c) \/ StoreKey(c) \/ SaveProfile(c) \/ CreateInvitation(c)
           \/ DeleteKey(c) \/ RemoveProfile(c) \/ DeleteRows(c)
    PROVE  CreateInv'
<1> DEFINE p == ProjectOf(c)
<1>1. p \in Local /\ p \in Project /\ Creates(c)
  BY CommandFields DEF IsCreate, Creates, ProjectOf, TypeInv, TypeOK, Project
<1>2. UNCHANGED command /\ p' = p
  BY DEF InsertRows, StoreKey, StoreWith, SaveProfile, CreateInvitation, DeleteKey, RemoveProfile,
         SaveRemoval, DeleteRows, ProjectOf
<1>3. CreateOK(c, p) /\ at[c] \in Saga /\ outcome[c] = "none"
  <2>1. at[c] \in Saga
    BY DEF InsertRows, StoreKey, StoreWith, SaveProfile, CreateInvitation, DeleteKey, RemoveProfile,
           SaveRemoval, DeleteRows, Goto, Go, Finish, Saga
  <2>2. CreateOK(c, p)
    BY DEF CreateInv
  <2>. QED BY <2>1, <2>2 DEF CreateOK
<1>4. /\ \A d \in Cmd \ {c} : outcome'[d] = outcome[d]
      /\ \E to \in Where \ {"idle"} : at' = [at EXCEPT ![c] = to]
  BY DEF InsertRows, StoreKey, StoreWith, SaveProfile, CreateInvitation, DeleteKey, RemoveProfile,
         SaveRemoval, DeleteRows, Abandon, Goto, Go, Finish, Where, Saga, TypeInv, TypeOK
<1>5. /\ \A q \in Local \ {p} : hostKey'[q] = hostKey[q]
      /\ \A q \in Project \ {p} :
           profiles'[q] = profiles[q] /\ keys'[q] = keys[q] /\ members'[q] = members[q]
      /\ rekeyed' = rekeyed /\ botched \subseteq botched'
      /\ hostKey'[p] \in {hostKey[p], None, c}
      /\ profiles'[p] # None => profiles'[p] = profiles[p] \/ profiles'[p].key = c
  <2>1. CASE InsertRows(c) \/ DeleteRows(c)
    BY <1>1, <2>1 DEF InsertRows, DeleteRows, hostVars, historyVars, TypeInv, TypeOK
  <2>2. CASE StoreKey(c) \/ CreateInvitation(c) \/ DeleteKey(c)
    BY <1>1, <2>2 DEF StoreKey, StoreWith, CreateInvitation, DeleteKey, diskVars, hostVars, historyVars,
                      TypeInv, TypeOK
  <2>3. CASE SaveProfile(c)
    <3>1. /\ UNCHANGED <<keys, hostKey, hostVars, rekeyed, botched>>
          /\ \/ UNCHANGED profiles
             \/ profiles' = [profiles EXCEPT ![p] = [key |-> c, hosted |-> Creates(c)]]
      BY <2>3 DEF SaveProfile
    <3>. QED BY <1>1, <3>1 DEF hostVars, TypeInv, TypeOK
  <2>4. CASE RemoveProfile(c)
    <3>1. /\ UNCHANGED <<keys, hostKey, hostVars, rekeyed>> /\ botched \subseteq botched'
          /\ UNCHANGED profiles \/ profiles' = [profiles EXCEPT ![p] = None]
      BY <2>4 DEF RemoveProfile, SaveRemoval
    <3>. QED BY <1>1, <3>1 DEF hostVars, TypeInv, TypeOK
  <2>. QED BY <2>1, <2>2, <2>3, <2>4
<1>6. CreateOK(c, p)'
  <2> USE DEF CreateOK, Go, Goto, Finish, Saga
  <2>1. CASE InsertRows(c)
    BY <1>1, <1>2, <1>3, <2>1 DEF InsertRows, TypeInv, TypeOK
  <2>2. CASE StoreKey(c)
    BY <1>1, <1>2, <1>3, <2>2 DEF StoreKey, StoreWith, Abandon, hostVars, TypeInv, TypeOK
  <2>3. CASE SaveProfile(c)
    <3>1. CASE /\ profiles' = [profiles EXCEPT ![p] = [key |-> c, hosted |-> Creates(c)]]
               /\ Go(c, "profile", "invite")
      <4>1. Creates(c) = TRUE
        BY <1>1 DEF Creates
      <4>2. profiles'[p] = Hosted(c)
        BY <1>1, <3>1, <4>1 DEF Hosted, TypeInv, TypeOK
      <4>3. UNCHANGED <<keys, hostKey, hostVars, rekeyed, botched>>
        BY <2>3 DEF SaveProfile
      <4>. QED BY <1>2, <1>3, <3>1, <4>2, <4>3 DEF hostVars, TypeInv, TypeOK
    <3>2. CASE Abandon(c, "profile") /\ UNCHANGED profiles
      <4>1. UNCHANGED <<keys, hostKey, hostVars, rekeyed, botched>>
        BY <2>3 DEF SaveProfile
      <4>. QED BY <1>1, <1>2, <1>3, <3>2, <4>1 DEF Abandon, hostVars, TypeInv, TypeOK
    <3>. QED BY <1>1, <2>3, <3>1, <3>2 DEF SaveProfile
  <2>4. CASE CreateInvitation(c)
    BY <1>2, <1>3, <2>4 DEF CreateInvitation, diskVars, hostVars, historyVars, TypeInv, TypeOK
  <2>5. CASE DeleteKey(c)
    BY <1>1, <1>2, <1>3, <2>5 DEF DeleteKey, hostVars, TypeInv, TypeOK
  <2>6. CASE RemoveProfile(c)
    <3>1. /\ at'[c] = "unrow" /\ outcome'[c] = "none"
          /\ profiles'[p] = None \/ p \in botched'
      BY <1>1, <1>3, <2>6 DEF RemoveProfile, SaveRemoval, TypeInv, TypeOK
    <3>2. profiles'[p] # Hosted(c) \/ p \in botched'
      BY <3>1, HostedIs
    <3>. QED BY <1>2, <3>1, <3>2 DEF Hosted
  <2>7. CASE DeleteRows(c)
    BY <1>1, <1>2, <1>3, <2>7 DEF DeleteRows, TypeInv, TypeOK
  <2>. QED BY <2>1, <2>2, <2>3, <2>4, <2>5, <2>6, <2>7
<1>. QED BY <1>1, <1>2, <1>4, <1>5, <1>6, CreateOwn

LEMMA CreateStep == TypeInv /\ CreateInv /\ [Next]_vars => CreateInv'
<1> SUFFICES ASSUME TypeInv, CreateInv, [Next]_vars PROVE CreateInv'
  OBVIOUS
<1>1. ASSUME NEW c \in Cmd, Start(c) PROVE CreateInv'
  <2>1. PICK r \in Command : /\ ~Drawn(r) /\ command' = [command EXCEPT ![c] = r]
                             /\ at' = [at EXCEPT ![c] = FirstStep[r.kind]]
    BY <1>1 DEF Start
  <2>2. /\ FirstStep[r.kind] \in {"insert", "join", "use", "client"}
        /\ r.kind = "create" => FirstStep[r.kind] = "insert"
    BY CommandFields DEF FirstStep
  <2>3. /\ at[c] = "idle" /\ command[c] = None /\ outcome[c] = "none"
        /\ UNCHANGED <<hostKey, profiles, keys, members, outcome, rekeyed, botched>>
    BY <1>1 DEF Start, diskVars, hostVars, historyVars, CreateInv
  <2>4. /\ command'[c] = r /\ r # None /\ at'[c] = FirstStep[r.kind]
        /\ \A d \in Cmd \ {c} : command'[d] = command[d] /\ at'[d] = at[d]
    BY <2>1, CommandFields DEF TypeInv, TypeOK
  <2>5. \A d \in Cmd \ {c} : ProjectOf(d)' = ProjectOf(d) /\ IsCreate(d)' = IsCreate(d) /\ Creates(d)' = Creates(d)
    BY <2>4 DEF ProjectOf, IsCreate, Creates
  <2>6. \A d \in Cmd : IsCreate(d) => d # c
    BY <2>3 DEF IsCreate
  <2>7. ASSUME r.kind = "create" PROVE \A d \in Cmd : IsCreate(d) => ProjectOf(d) # r.project
    BY <2>1, <2>7 DEF Drawn, IsCreate, Creates, ProjectOf
  <2>8. (\A q \in Local : hostKey[q] # None => IsCreate(hostKey[q]) /\ ProjectOf(hostKey[q]) = q)'
    <3>1. ASSUME NEW q \in Local, hostKey'[q] # None
          PROVE  /\ hostKey'[q] = hostKey[q] /\ hostKey[q] \in Cmd \ {c}
                 /\ IsCreate(hostKey[q]) /\ ProjectOf(hostKey[q]) = q
      BY <2>3, <2>6, <3>1 DEF CreateInv, TypeInv, TypeOK
    <3>. QED BY <2>4, <3>1 DEF IsCreate, Creates, ProjectOf
  <2>9. (\A q \in Project : profiles[q] # None => command[profiles[q].key] # None)'
    <3>1. ASSUME NEW q \in Project, profiles'[q] # None
          PROVE  profiles'[q] = profiles[q] /\ profiles[q].key \in Cmd /\ command[profiles[q].key] # None
      BY <2>3, <3>1 DEF CreateInv, TypeInv, TypeOK, Profile
    <3>. QED BY <2>3, <2>4, <3>1
  <2>10. ASSUME NEW d \in Cmd, IsCreate(d)' PROVE CreateOK(d, ProjectOf(d))'
    <3>1. CASE d # c
      <4>1. CreateOK(d, ProjectOf(d)) /\ IsCreate(d)
        BY <2>5, <2>10, <3>1 DEF CreateInv
      <4>. QED BY <2>3, <2>4, <2>5, <3>1, <4>1, CreateKept
    <3>2. CASE d = c
      <4>1. r.kind = "create" /\ ProjectOf(c)' = r.project /\ r.project \in Local
        BY <2>4, <2>10, <3>2, CommandFields DEF IsCreate, Creates, ProjectOf
      <4>2. hostKey[r.project] = None
        BY <2>7, <4>1 DEF CreateInv, TypeInv, TypeOK
      <4>3. profiles[r.project] # Hosted(c)
        <5>1. r.project \in Project
          BY <4>1 DEF Project
        <5>. QED BY <2>3, <5>1, HostedIs DEF CreateInv
      <4>. QED BY <2>2, <2>3, <2>4, <3>2, <4>1, <4>2, <4>3 DEF CreateOK, Saga, Hosted
    <3>. QED BY <3>1, <3>2
  <2>11. ASSUME NEW d \in Cmd, NEW e \in Cmd, IsCreate(d)', IsCreate(e)', ProjectOf(d)' = ProjectOf(e)'
         PROVE  d = e
    <3>1. IsCreate(c)' => r.kind = "create" /\ ProjectOf(c)' = r.project
      BY <2>4 DEF IsCreate, Creates, ProjectOf
    <3>. QED BY <2>5, <2>7, <2>11, <3>1 DEF CreateInv
  <2>12. ASSUME NEW d \in Cmd
         PROVE  /\ at'[d] = "idle" => command'[d] = None /\ outcome'[d] = "none"
                /\ at'[d] = "profile" /\ ~Creates(d)' /\ ProjectOf(d)' \in Local => ProjectOf(d)' \in rekeyed'
    <3>1. CASE d = c
      BY <2>2, <2>4, <3>1
    <3>2. CASE d # c
      BY <2>3, <2>4, <2>5, <3>2 DEF CreateInv
    <3>. QED BY <3>1, <3>2
  <2>. QED BY <2>8, <2>9, <2>10, <2>11, <2>12 DEF CreateInv
<1>2. ASSUME NEW c \in Cmd, command[c].kind # "create",
             StoreKey(c) \/ SaveProfile(c)
      PROVE CreateInv'
  <2> DEFINE p == ProjectOf(c)
  <2>1. /\ at[c] \in {"key", "profile"} /\ ~Creates(c)
        /\ UNCHANGED <<command, hostKey, members, botched>>
    BY <1>2 DEF StoreKey, StoreWith, SaveProfile, Creates, hostVars
  <2>2. command[c].kind = "join" /\ command[c] # None /\ p \in Project
    BY <1>2, <2>1, Fields DEF TypeInv, Saga
  <2>3. PICK to \in {"profile", "done"} :
               /\ at' = [at EXCEPT ![c] = to]
               /\ to = "profile" => StoreKey(c) /\ Go(c, "key", "profile")
    BY <1>2, <2>1 DEF StoreKey, StoreWith, SaveProfile, Abandon, Go, Goto, Finish
  <2>4. to \in Where /\ to # "idle" /\ \A d \in Cmd \ {c} : outcome'[d] = outcome[d]
    BY <1>2 DEF StoreKey, StoreWith, SaveProfile, Abandon, Go, Goto, Finish, Where, Saga, TypeInv, TypeOK
  <2>5. CASE StoreKey(c) /\ keys' = [keys EXCEPT ![p] = c] /\ Go(c, "key", "profile")
    <3>1. /\ \A q \in Project \ {p} : profiles'[q] = profiles[q] /\ keys'[q] = keys[q]
          /\ rekeyed \subseteq rekeyed' /\ (p \in Local => p \in rekeyed') /\ profiles'[p] = profiles[p]
      <4>1. rekeyed' = IF p \in Local /\ ~Creates(c) THEN rekeyed \cup {p} ELSE rekeyed
        BY <2>5 DEF StoreKey, StoreWith, Abandon, Go, Goto, Finish, TypeInv, TypeOK
      <4>. QED BY <2>1, <2>5, <4>1 DEF StoreKey, StoreWith, TypeInv, TypeOK
    <3>. QED BY <2>1, <2>2, <2>3, <2>4, <3>1, CreateJoined
  <2>6. CASE StoreKey(c) /\ Abandon(c, "key") /\ UNCHANGED <<keys, rekeyed>>
    <3>1. to = "done" /\ UNCHANGED profiles
      BY <2>1, <2>3, <2>6 DEF StoreKey, StoreWith, Abandon, Finish, Goto, TypeInv, TypeOK
    <3>. QED BY <2>1, <2>3, <2>4, <2>6, <3>1, CreateAside
  <2>7. CASE SaveProfile(c)
    <3>1. at[c] = "profile" /\ UNCHANGED <<keys, rekeyed>>
      BY <2>7 DEF SaveProfile
    <3>2. p \in Local => p \in rekeyed'
      BY <2>1, <3>1 DEF CreateInv
    <3>3. \/ UNCHANGED profiles
          \/ profiles' = [profiles EXCEPT ![p] = [key |-> c, hosted |-> FALSE]]
      BY <2>7, <2>1 DEF SaveProfile
    <3>4. /\ \A q \in Project \ {p} : profiles'[q] = profiles[q] /\ keys'[q] = keys[q]
          /\ profiles'[p] = profiles[p] \/ profiles'[p] = [key |-> c, hosted |-> FALSE]
      BY <2>2, <3>1, <3>3 DEF TypeInv, TypeOK
    <3>. QED BY <2>1, <2>2, <2>3, <2>4, <3>1, <3>2, <3>4, CreateJoined
  <2>. QED BY <1>2, <2>5, <2>6, <2>7 DEF StoreKey, StoreWith
<1>3. ASSUME NEW c \in Cmd,
             \/ Join(c) \/ UseProject(c) \/ ReadProfile(c) \/ ReadKey(c) \/ AgentRPC(c) \/ PutAgent(c)
             \/ StartProvider(c) \/ StopProvider(c) \/ ForgetAgent(c)
      PROVE CreateInv'
  <2>1. /\ at[c] \in {"join", "use", "client", "sign", "rpc", "save", "start", "stop", "forget"}
        /\ UNCHANGED <<command, hostKey, profiles, keys, rekeyed, botched>>
    BY <1>3 DEF Join, UseProject, ReadProfile, ReadKey, AgentRPC, PutAgent, StartProvider, StopProvider,
                ForgetAgent, Go, Goto, Finish, diskVars, historyVars
  <2>2. ~Creates(c)
    BY <2>1, Fields DEF TypeInv, Saga, Creates
  <2>3. \A q \in Project : members[q] \subseteq members'[q]
    BY <1>3 DEF Join, UseProject, ReadProfile, ReadKey, AgentRPC, PutAgent, StartProvider, StopProvider,
                ForgetAgent, hostVars, TypeInv, TypeOK
  <2>4. /\ \E to \in Where \ {"idle", "profile"} : at' = [at EXCEPT ![c] = to]
        /\ \A d \in Cmd \ {c} : outcome'[d] = outcome[d]
    BY <1>3 DEF Join, UseProject, ReadProfile, ReadKey, AgentRPC, PutAgent, StartProvider, StopProvider,
                ForgetAgent, Go, Goto, Finish, Where, Saga, TypeInv, TypeOK
  <2>. QED BY <2>1, <2>2, <2>3, <2>4, CreateAside
<1>4. ASSUME NEW c \in Cmd,
             \/ InsertRows(c) \/ CreateInvitation(c) \/ DeleteKey(c) \/ RemoveProfile(c) \/ DeleteRows(c)
             \/ command[c].kind = "create" /\ (StoreKey(c) \/ SaveProfile(c))
      PROVE CreateInv'
  <2>1. at[c] \in {"insert", "invite", "unkey", "unprofile", "unrow", "key", "profile"}
    BY <1>4 DEF InsertRows, CreateInvitation, DeleteKey, RemoveProfile, SaveRemoval, DeleteRows,
                StoreKey, StoreWith, SaveProfile, Go, Goto, Finish
  <2>2. command[c].kind = "create" /\ IsCreate(c)
    BY <1>4, <2>1, Fields DEF TypeInv, Saga, IsCreate, Creates, StoreKey, StoreWith, SaveProfile,
       InsertRows, CreateInvitation, DeleteKey, RemoveProfile, SaveRemoval, DeleteRows, Go, Goto, Finish
  <2>. QED BY <1>4, <2>2, CreateProceeds
<1>5. CASE LoadAgents \/ (\E g \in Agent : StartLoaded(g)) \/ Restart \/ UNCHANGED vars
  <2>1. /\ UNCHANGED <<keys, profiles, hostKey, members, command, outcome, rekeyed, botched>>
        /\ \A c \in Cmd : at'[c] = at[c] \/ at'[c] = "lost"
    BY <1>5 DEF LoadAgents, StartLoaded, Restart, vars, diskVars, hostVars, historyVars, TypeInv, TypeOK
  <2>2. \A c \in Cmd : CreateOK(c, ProjectOf(c)) => CreateOK(c, ProjectOf(c))'
    BY <2>1 DEF CreateOK, ProjectOf, Saga, Hosted
  <2>. QED BY <2>1, <2>2 DEF CreateInv, IsCreate, Creates, ProjectOf
<1>. QED
  BY <1>1, <1>2, <1>3, <1>4, <1>5 DEF Next, Proceed

\* No creation of a Project is half done, however many commands create, join
\* and undo, and whichever of their steps fail.
THEOREM CreationsAreWhole == Spec => []CreateIsAllOrNothing
<1>1. ASSUME Init PROVE CreateInv
  <2>1. \A c \in Cmd : at[c] = "idle" /\ command[c] = None /\ outcome[c] = "none"
    BY <1>1 DEF Init
  <2>2. \A p \in Local : hostKey[p] = None
    BY <1>1 DEF Init
  <2>3. \A p \in Project : profiles[p] = None
    BY <1>1 DEF Init
  <2>. QED BY <2>1, <2>2, <2>3 DEF CreateInv, IsCreate
<1>2. CreateInv => CreateIsAllOrNothing
  BY DEF CreateInv, CreateIsAllOrNothing, IsCreate, CreateOK, Hosted
<1>. QED BY <1>1, <1>2, CreateStep, TypeInvariant, PTL DEF Spec

-----------------------------------------------------------------------------
(* Shared Agents are started.                                              *)

Registers(c, g) == command[c] # None /\ command[c].kind = "register" /\ command[c].agent = g

\* The steps of a registration before it lists its Agent, and before it is saved.
Unlisted == {"idle", "client", "sign", "rpc"}
Unsaved == Unlisted \cup {"save"}

RegisteredInv ==
    /\ \A g \in Agent : \A c, d \in Cmd : Registers(c, g) /\ Registers(d, g) => c = d
    /\ \A g \in Agent : listed[g] # None =>
         \E d \in Cmd : Registers(d, g) /\ at[d] \notin Unlisted
    /\ \A g \in Agent : localAgents[g] # None =>
         \E d \in Cmd : Registers(d, g) /\ at[d] \notin Unsaved
    /\ \A c \in Cmd : at[c] \in {"stop", "forget"} =>
         /\ listed[command[c].agent] = None
         /\ \E d \in Cmd : Registers(d, command[c].agent) /\ at[d] \notin Unlisted

\* How a command goes on.
Moves ==
    {<<"client", "sign">>, <<"sign", "rpc">>, <<"rpc", "save">>, <<"rpc", "stop">>,
     <<"save", "start">>, <<"stop", "forget">>}

Elsewhere == (Saga \cup {"done"}) \ {"client", "sign", "rpc", "save", "start", "stop", "forget"}

LEMMA ProceedMoves ==
    ASSUME TypeInv, NEW c \in Cmd, Proceed(c)
    PROVE  /\ UNCHANGED <<command, runtime, toStart, booted>>
           /\ \E to \in Saga \cup {"done"} :
                /\ at[c] \in Saga /\ at' = [at EXCEPT ![c] = to]
                /\ <<at[c], to>> \in Moves \/ to \in Elsewhere
<1>1. CASE InsertRows(c) \/ Join(c) \/ StoreKey(c) \/ SaveProfile(c) \/ CreateInvitation(c)
  BY <1>1 DEF InsertRows, Join, StoreKey, StoreWith, SaveProfile, CreateInvitation, Abandon, Go, Goto, Finish,
     Saga, Elsewhere, processVars
<1>2. CASE DeleteKey(c) \/ RemoveProfile(c) \/ DeleteRows(c) \/ UseProject(c)
  BY <1>2 DEF DeleteKey, RemoveProfile, SaveRemoval, DeleteRows, UseProject, Go, Goto, Finish,
     Saga, Elsewhere, processVars
<1>3. CASE ReadProfile(c) \/ ReadKey(c) \/ AgentRPC(c)
  BY <1>3 DEF ReadProfile, ReadKey, AgentRPC, Go, Goto, Finish, Saga, Elsewhere, Moves, processVars
<1>4. CASE PutAgent(c) \/ StartProvider(c) \/ StopProvider(c) \/ ForgetAgent(c)
  BY <1>4 DEF PutAgent, StartProvider, StopProvider, ForgetAgent, Go, Goto, Finish,
     Saga, Elsewhere, Moves, processVars
<1>. QED BY <1>1, <1>2, <1>3, <1>4 DEF Proceed

\* A command keeps what it does, and never goes back.
LEMMA CommandMoves ==
    ASSUME TypeInv, [Next]_vars, NEW d \in Cmd, at[d] # "idle"
    PROVE  /\ command'[d] = command[d]
           /\ at[d] \notin Unlisted => at'[d] \notin Unlisted
           /\ at[d] \notin Unsaved => at'[d] \notin Unsaved
<1>1. ASSUME NEW c \in Cmd, Start(c) PROVE command'[d] = command[d] /\ at'[d] = at[d]
  BY <1>1 DEF Start, TypeInv, TypeOK
<1>2. ASSUME NEW c \in Cmd, Proceed(c)
      PROVE  /\ command'[d] = command[d]
             /\ at[d] \notin Unlisted => at'[d] \notin Unlisted
             /\ at[d] \notin Unsaved => at'[d] \notin Unsaved
  <2>1. PICK to \in Saga \cup {"done"} :
             /\ at[c] \in Saga /\ at' = [at EXCEPT ![c] = to]
             /\ <<at[c], to>> \in Moves \/ to \in Elsewhere
    BY <1>2, ProceedMoves
  <2>2. UNCHANGED command
    BY <1>2, ProceedMoves
  <2>3. CASE d # c
    BY <2>1, <2>2, <2>3 DEF TypeInv, TypeOK
  <2>4. CASE d = c
    <3>1. at'[d] = to
      BY <2>1, <2>4 DEF TypeInv, TypeOK
    <3>2. <<at[d], to>> \in Moves \/ to \in Elsewhere
      BY <2>1, <2>4
    <3>. QED BY <2>2, <3>1, <3>2 DEF Moves, Elsewhere, Saga, Unlisted, Unsaved
  <2>. QED BY <2>3, <2>4
<1>3. CASE LoadAgents \/ (\E g \in Agent : StartLoaded(g)) \/ UNCHANGED vars
  BY <1>3 DEF LoadAgents, StartLoaded, vars
<1>4. CASE Restart
  BY <1>4 DEF Restart, Unlisted, Unsaved
<1>. QED BY <1>1, <1>2, <1>3, <1>4 DEF Next

\* Where rows of the host and of state.json come from.
LEMMA RowMoves ==
    ASSUME TypeInv, [Next]_vars, NEW g \in Agent
    PROVE  /\ listed'[g] # None => \/ listed[g] # None
                                  \/ \E c \in Cmd : /\ Registers(c, g) /\ at[c] = "rpc"
                                                    /\ at'[c] \notin Unlisted
           /\ localAgents'[g] # None => \/ localAgents[g] # None
                                       \/ \E c \in Cmd : /\ Registers(c, g) /\ at[c] = "save"
                                                         /\ at'[c] = "start"
<1>1. CASE UNCHANGED <<listed, localAgents>>
  BY <1>1
<1>2. ASSUME NEW c \in Cmd, RemoveProfile(c) \/ DeleteRows(c) \/ ForgetAgent(c)
      PROVE  /\ listed'[g] # None => listed[g] # None
             /\ localAgents'[g] # None => localAgents[g] # None
  BY <1>2 DEF RemoveProfile, SaveRemoval, AgentsWithout, DeleteRows, ForgetAgent, hostVars, TypeInv, TypeOK
<1>3. ASSUME NEW c \in Cmd, AgentRPC(c), listed'[g] # None, listed[g] = None
      PROVE  Registers(c, g) /\ at[c] = "rpc" /\ at'[c] \notin Unlisted
  <2>1. at[c] = "rpc" /\ command[c] # None
    BY <1>3, Fields DEF AgentRPC, TypeInv, Saga
  <2>2. command[c].kind = "register" /\ command[c].agent = g
    BY <1>3 DEF AgentRPC, TypeInv, TypeOK
  <2>3. at'[c] \in {"save", "stop", "done"}
    BY <1>3, <2>1 DEF AgentRPC, Go, Goto, Finish, TypeInv, TypeOK
  <2>. QED BY <2>1, <2>2, <2>3 DEF Registers, Unlisted
<1>4. ASSUME NEW c \in Cmd, PutAgent(c), localAgents'[g] # None, localAgents[g] = None
      PROVE  Registers(c, g) /\ at[c] = "save" /\ at'[c] = "start"
  <2>1. at[c] = "save" /\ command[c] # None /\ command[c].kind = "register"
    BY <1>4, Fields DEF PutAgent, Go, Goto, Finish, TypeInv, Saga
  <2>2. command[c].agent = g /\ at'[c] = "start"
    BY <1>4, <2>1 DEF PutAgent, Go, Goto, Finish, TypeInv, TypeOK
  <2>. QED BY <2>1, <2>2 DEF Registers
<1>5. ASSUME NEW c \in Cmd, AgentRPC(c) PROVE UNCHANGED localAgents
  BY <1>5 DEF AgentRPC, diskVars
<1>6. ASSUME NEW c \in Cmd, PutAgent(c) PROVE UNCHANGED listed
  BY <1>6 DEF PutAgent, hostVars
<1>7. ASSUME NEW c \in Cmd,
             \/ Start(c) \/ InsertRows(c) \/ Join(c) \/ StoreKey(c) \/ SaveProfile(c)
             \/ CreateInvitation(c) \/ DeleteKey(c) \/ UseProject(c) \/ ReadProfile(c) \/ ReadKey(c)
             \/ StartProvider(c) \/ StopProvider(c)
      PROVE  UNCHANGED <<listed, localAgents>>
  BY <1>7 DEF Start, InsertRows, Join, StoreKey, StoreWith, SaveProfile, CreateInvitation, DeleteKey,
     UseProject, ReadProfile, ReadKey, StartProvider, StopProvider, diskVars, hostVars
<1>8. CASE LoadAgents \/ (\E h \in Agent : StartLoaded(h)) \/ Restart \/ UNCHANGED vars
  <2>. UNCHANGED <<listed, localAgents>>
    BY <1>8 DEF LoadAgents, StartLoaded, Restart, vars, diskVars, hostVars
  <2>. QED BY <1>1
<1>. QED BY <1>1, <1>2, <1>3, <1>4, <1>5, <1>6, <1>7, <1>8 DEF Next, Proceed

\* A command moves no Agent out of the reach of SharedIsStarted, but one that
\* removes it.
LEMMA ProviderMoves ==
    ASSUME TypeInv, NEW c \in Cmd, Proceed(c), NEW g \in Agent
    PROVE  /\ g \in providers => g \in providers' \/ (at[c] = "stop" /\ command[c].agent = g)
           /\ at[c] = "start" /\ command[c].agent = g /\ runtime => g \in providers'
<1>1. CASE StartProvider(c)
  BY <1>1 DEF StartProvider, Finish, Goto
<1>2. CASE StopProvider(c)
  BY <1>2 DEF StopProvider, Go, Goto
<1>3. CASE \/ InsertRows(c) \/ Join(c) \/ StoreKey(c) \/ SaveProfile(c) \/ CreateInvitation(c)
           \/ DeleteKey(c) \/ RemoveProfile(c) \/ DeleteRows(c) \/ UseProject(c)
  BY <1>3 DEF InsertRows, Join, StoreKey, StoreWith, SaveProfile, CreateInvitation, DeleteKey, RemoveProfile,
     SaveRemoval, DeleteRows, UseProject, Abandon, Go, Goto, Finish, processVars
<1>4. CASE ReadProfile(c) \/ ReadKey(c) \/ AgentRPC(c) \/ PutAgent(c) \/ ForgetAgent(c)
  BY <1>4 DEF ReadProfile, ReadKey, AgentRPC, PutAgent, ForgetAgent, Go, Goto, Finish, processVars
<1>. QED BY <1>1, <1>2, <1>3, <1>4 DEF Proceed

\* What Start adds, and that no other step gives a command.
LEMMA Registrations ==
    ASSUME TypeInv, [Next]_vars, NEW c \in Cmd, NEW g \in Agent, Registers(c, g)'
    PROVE  \/ Registers(c, g)
           \/ at'[c] \in Unlisted /\ \A d \in Cmd : ~Registers(d, g) /\ (Registers(d, g)' => d = c)
<1>1. CASE UNCHANGED command
  BY <1>1 DEF Registers
<1>2. ASSUME NEW b \in Cmd, Start(b)
      PROVE  \/ Registers(c, g)
             \/ at'[c] \in Unlisted /\ \A d \in Cmd : ~Registers(d, g) /\ (Registers(d, g)' => d = c)
  <2>1. PICK r \in Command : /\ ~Drawn(r) /\ command' = [command EXCEPT ![b] = r]
                             /\ at' = [at EXCEPT ![b] = FirstStep[r.kind]]
    BY <1>2 DEF Start
  <2>2. CASE c # b
    BY <2>1, <2>2 DEF Registers, TypeInv, TypeOK
  <2>3. CASE c = b
    <3>1. command'[c] = r /\ at'[c] = FirstStep[r.kind] /\ \A d \in Cmd \ {c} : command'[d] = command[d]
      BY <2>1, <2>3 DEF TypeInv, TypeOK
    <3>2. r.kind = "register" /\ r.agent = g
      BY <3>1 DEF Registers
    <3>3. \A d \in Cmd : ~Registers(d, g)
      BY <2>1, <3>2 DEF Drawn, Registers
    <3>4. at'[c] \in Unlisted
      BY <3>1, <3>2 DEF FirstStep, Unlisted
    <3>5. ASSUME NEW d \in Cmd, Registers(d, g)' PROVE d = c
      BY <3>1, <3>3, <3>5 DEF Registers
    <3>. QED BY <3>3, <3>4, <3>5
  <2>. QED BY <2>2, <2>3
<1>3. ASSUME NEW b \in Cmd, Proceed(b) PROVE UNCHANGED command
  BY <1>3, ProceedMoves
<1>4. CASE LoadAgents \/ (\E h \in Agent : StartLoaded(h)) \/ Restart \/ UNCHANGED vars
  BY <1>1, <1>4 DEF LoadAgents, StartLoaded, Restart, vars
<1>. QED BY <1>1, <1>2, <1>3, <1>4 DEF Next

\* A registration that has begun is there after a step, no further back.
LEMMA StaysRegistered ==
    ASSUME TypeInv, [Next]_vars, NEW d \in Cmd, NEW g \in Agent, Registers(d, g)
    PROVE  /\ at[d] \notin Unlisted => Registers(d, g)' /\ at'[d] \notin Unlisted
           /\ at[d] \notin Unsaved => Registers(d, g)' /\ at'[d] \notin Unsaved
<1>1. at[d] \notin Unlisted => at[d] # "idle"
  BY DEF Unlisted
<1>2. at[d] \notin Unsaved => at[d] \notin Unlisted
  BY DEF Unsaved
<1>. QED BY <1>1, <1>2, CommandMoves DEF Registers

\* An Agent is listed, saved and removed in the order of its one registration.
LEMMA RegisteredStep == TypeInv /\ RegisteredInv /\ [Next]_vars => RegisteredInv'
<1> SUFFICES ASSUME TypeInv, RegisteredInv, [Next]_vars PROVE RegisteredInv'
  OBVIOUS
<1>1. ASSUME NEW g \in Agent, NEW c \in Cmd, NEW d \in Cmd, Registers(c, g)', Registers(d, g)'
      PROVE  c = d
  BY <1>1, Registrations DEF RegisteredInv
<1>2. ASSUME NEW g \in Agent, listed'[g] # None
      PROVE  \E d \in Cmd : Registers(d, g)' /\ at'[d] \notin Unlisted
  <2>1. CASE listed[g] # None
    BY <2>1, StaysRegistered DEF RegisteredInv
  <2>2. ASSUME NEW c \in Cmd, Registers(c, g), at[c] = "rpc", at'[c] \notin Unlisted
        PROVE  Registers(c, g)'
    BY <2>2, CommandMoves DEF Registers
  <2>. QED BY <1>2, <2>1, <2>2, RowMoves
<1>3. ASSUME NEW g \in Agent, localAgents'[g] # None
      PROVE  \E d \in Cmd : Registers(d, g)' /\ at'[d] \notin Unsaved
  <2>1. CASE localAgents[g] # None
    BY <2>1, StaysRegistered DEF RegisteredInv
  <2>2. ASSUME NEW c \in Cmd, Registers(c, g), at[c] = "save", at'[c] = "start"
        PROVE  Registers(c, g)' /\ at'[c] \notin Unsaved
    BY <2>2, CommandMoves DEF Registers, Unsaved, Unlisted
  <2>. QED BY <1>3, <2>1, <2>2, RowMoves
<1>4. ASSUME NEW g \in Agent, listed[g] = None,
             \E d \in Cmd : Registers(d, g) /\ at[d] \notin Unlisted
      PROVE  /\ listed'[g] = None
             /\ \E d \in Cmd : Registers(d, g)' /\ at'[d] \notin Unlisted
  <2>1. PICK d \in Cmd : Registers(d, g) /\ at[d] \notin Unlisted
    BY <1>4
  <2>2. ASSUME NEW c \in Cmd, Registers(c, g) PROVE at[c] # "rpc"
    BY <2>1, <2>2 DEF RegisteredInv, Unlisted
  <2>3. listed'[g] = None
    BY <1>4, <2>2, RowMoves
  <2>. QED BY <2>1, <2>3, StaysRegistered
<1>5. ASSUME NEW c \in Cmd, at'[c] \in {"stop", "forget"}
      PROVE  /\ listed'[command'[c].agent] = None
             /\ \E d \in Cmd : Registers(d, command[c].agent)' /\ at'[d] \notin Unlisted
  <2>1. CASE at[c] \in {"stop", "forget"}
    <3>1. command'[c] = command[c] /\ command[c].agent \in Agent
      BY <2>1, CommandMoves, Fields DEF TypeInv, Saga
    <3>2. PICK h \in Agent : h = command[c].agent
      BY <3>1
    <3>3. listed'[h] = None /\ \E d \in Cmd : Registers(d, h)' /\ at'[d] \notin Unlisted
      BY <2>1, <3>2, <1>4 DEF RegisteredInv
    <3>. QED BY <3>1, <3>2, <3>3 DEF Registers
  <2>2. CASE at[c] \notin {"stop", "forget"}
    <3>1. Proceed(c) /\ at[c] = "rpc"
      <4>1. ASSUME NEW b \in Cmd, Start(b) PROVE FALSE
        <5>1. PICK r \in Command : at' = [at EXCEPT ![b] = FirstStep[r.kind]]
          BY <4>1 DEF Start
        <5>2. FirstStep[r.kind] \notin {"stop", "forget"}
          BY CommandFields DEF FirstStep
        <5>. QED BY <1>5, <2>2, <5>1, <5>2 DEF TypeInv, TypeOK
      <4>2. ASSUME NEW b \in Cmd, Proceed(b) PROVE Proceed(c) /\ at[c] = "rpc"
        <5>1. PICK to \in Saga \cup {"done"} :
                   /\ at[b] \in Saga /\ at' = [at EXCEPT ![b] = to]
                   /\ <<at[b], to>> \in Moves \/ to \in Elsewhere
          BY <4>2, ProceedMoves
        <5>2. b = c
          BY <1>5, <2>2, <5>1 DEF TypeInv, TypeOK
        <5>3. at'[c] = to
          BY <5>1, <5>2 DEF TypeInv, TypeOK
        <5>. QED BY <1>5, <2>2, <4>2, <5>1, <5>2, <5>3 DEF Moves, Elsewhere
      <4>3. CASE LoadAgents \/ (\E g \in Agent : StartLoaded(g)) \/ Restart \/ UNCHANGED vars
        BY <1>5, <2>2, <4>3 DEF LoadAgents, StartLoaded, Restart, vars, TypeInv, TypeOK
      <4>. QED BY <4>1, <4>2, <4>3 DEF Next
    <3>2. AgentRPC(c)
      BY <3>1 DEF Proceed, InsertRows, Join, StoreKey, StoreWith, SaveProfile, CreateInvitation, DeleteKey,
         RemoveProfile, SaveRemoval, DeleteRows, UseProject, ReadProfile, ReadKey, PutAgent, StartProvider,
         StopProvider, ForgetAgent, Go, Goto, Finish
    <3>3. command[c].kind \in {"register", "remove"} /\ command[c].agent \in Agent /\ UNCHANGED command
      BY <3>1, <3>2, Fields DEF TypeInv, Saga, AgentRPC
    <3>4. command[c].kind # "register" /\ at'[c] # "save"
      BY <1>5, <3>1, <3>2 DEF AgentRPC, Go, Goto, Finish, TypeInv, TypeOK
    <3>5. /\ listed[command[c].agent] = [project |-> client[c].project, owner |-> client[c].member]
          /\ listed' = [listed EXCEPT ![command[c].agent] = None]
      BY <1>5, <3>2, <3>4 DEF AgentRPC, Go, Goto, Finish, TypeInv, TypeOK
    <3>6. listed[command[c].agent] # None
      <4>1. client[c] \in Client /\ client[c].project # None
        BY <3>1 DEF TypeInv, TypeOK, Client
      <4>2. Accepts(c)
        BY <1>5, <3>2 DEF AgentRPC, Go, Goto, Finish, TypeInv, TypeOK
      <4>3. client[c].member \in Cmd
        BY <4>1, <4>2 DEF Accepts, TypeInv, TypeOK, Client
      <4>. QED BY <3>5, <4>1, <4>3, DeviceAssumption DEF DeviceAssumption, Listing, Client
    <3>7. listed'[command[c].agent] = None
      BY <3>3, <3>5 DEF TypeInv, TypeOK
    <3>8. PICK h \in Agent : h = command[c].agent
      BY <3>3
    <3>9. \E d \in Cmd : Registers(d, h)' /\ at'[d] \notin Unlisted
      BY <3>6, <3>8, StaysRegistered DEF RegisteredInv
    <3>. QED BY <3>3, <3>7, <3>8, <3>9 DEF Registers
  <2>. QED BY <2>1, <2>2
<1>. QED BY <1>1, <1>2, <1>3, <1>5 DEF RegisteredInv

LEMMA StartedStep ==
    TypeInv /\ RegisteredInv /\ SharedIsStarted /\ [Next]_vars => SharedIsStarted'
<1> SUFFICES ASSUME TypeInv, RegisteredInv, SharedIsStarted, [Next]_vars, NEW g \in Agent, Shared(g)'
             PROVE  \/ g \in providers' \cup toStart' \/ ~booted'
                    \/ \E c \in Cmd : at'[c] = "start" /\ command'[c].agent = g
  BY DEF SharedIsStarted
<1>1. ASSUME NEW c \in Cmd, Proceed(c)
      PROVE  \/ g \in providers' \cup toStart' \/ ~booted'
             \/ \E d \in Cmd : at'[d] = "start" /\ command'[d].agent = g
  <2>1. UNCHANGED <<command, runtime, toStart, booted>>
    BY <1>1, ProceedMoves
  <2>2. CASE localAgents[g] = None
    <3>1. PICK d \in Cmd : Registers(d, g) /\ at[d] = "save" /\ at'[d] = "start"
      BY <2>2, RowMoves DEF Shared
    <3>. QED BY <2>1, <3>1 DEF Registers
  <2>3. CASE localAgents[g] # None
    <3>1. PICK d \in Cmd : Registers(d, g) /\ at[d] \notin Unsaved
      BY <2>3 DEF RegisteredInv
    <3>2. listed[g] # None
      BY <3>1, RowMoves DEF RegisteredInv, Shared, Unsaved, Unlisted
    <3>3. Shared(g)
      BY <2>1, <2>3, <3>2 DEF Shared
    <3>4. CASE g \in toStart \/ ~booted
      BY <2>1, <3>4
    <3>5. CASE g \in providers
      BY <1>1, <3>2, <3>5, ProviderMoves DEF RegisteredInv
    <3>6. ASSUME NEW e \in Cmd, at[e] = "start", command[e].agent = g
          PROVE  g \in providers' \/ (at'[e] = "start" /\ command'[e].agent = g)
      <4>1. CASE e = c
        BY <1>1, <3>3, <3>6, <4>1, ProviderMoves DEF Shared
      <4>2. CASE e # c
        <5>1. \E to \in Saga \cup {"done"} : at' = [at EXCEPT ![c] = to]
          BY <1>1, ProceedMoves
        <5>. QED BY <2>1, <3>6, <4>2, <5>1 DEF TypeInv, TypeOK
      <4>. QED BY <4>1, <4>2
    <3>. QED BY <3>3, <3>4, <3>5, <3>6 DEF SharedIsStarted
  <2>. QED BY <2>2, <2>3
<1>2. ASSUME NEW c \in Cmd, Start(c)
      PROVE  \/ g \in providers' \cup toStart' \/ ~booted'
             \/ \E d \in Cmd : at'[d] = "start" /\ command'[d].agent = g
  <2>1. Shared(g) /\ UNCHANGED <<providers, toStart, booted>>
    BY <1>2 DEF Start, Shared, diskVars, hostVars, processVars
  <2>2. ASSUME NEW e \in Cmd, at[e] = "start" PROVE at'[e] = "start" /\ command'[e] = command[e]
    BY <1>2, <2>2 DEF Start, TypeInv, TypeOK
  <2>. QED BY <2>1, <2>2 DEF SharedIsStarted
<1>3. CASE LoadAgents
  BY <1>3 DEF LoadAgents, Shared, diskVars
<1>4. ASSUME NEW h \in Agent, StartLoaded(h)
      PROVE  \/ g \in providers' \cup toStart' \/ ~booted'
             \/ \E d \in Cmd : at'[d] = "start" /\ command'[d].agent = g
  BY <1>4 DEF StartLoaded, Shared, SharedIsStarted, diskVars, hostVars
<1>5. CASE Restart
  BY <1>5 DEF Restart
<1>6. CASE UNCHANGED vars
  BY <1>6 DEF vars, Shared, SharedIsStarted, diskVars, hostVars, processVars
<1>. QED BY <1>1, <1>2, <1>3, <1>4, <1>5, <1>6 DEF Next

\* A shared Agent has a provider, or one that is still to be started.
THEOREM SharedAreStarted == Spec => []SharedIsStarted
<1>1. ASSUME Init PROVE RegisteredInv /\ SharedIsStarted
  <2>1. \A c \in Cmd : command[c] = None /\ at[c] = "idle"
    BY <1>1 DEF Init
  <2>2. \A g \in Agent : listed[g] = None /\ localAgents[g] = None
    BY <1>1 DEF Init
  <2>. QED BY <2>1, <2>2 DEF RegisteredInv, SharedIsStarted, Shared, Registers
<1>. QED BY <1>1, RegisteredStep, StartedStep, TypeInvariant, PTL DEF Spec
=============================================================================

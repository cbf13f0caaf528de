------------------------------- MODULE Device -------------------------------
(***************************************************************************)
(* The background service of one device (internal/service/daemon.go) and   *)
(* what it keeps: private keys in the Keychain, Projects and Agents in     *)
(* state.json (internal/v2state/state.go), the rows of the Projects it     *)
(* hosts, and the providers it runs.  A control command changes several of *)
(* them one after another; commands run concurrently, every change may     *)
(* fail, and the process may die between any two.                          *)
(*                                                                         *)
(* Grain: one step per Keychain call, per load-and-save of state.json      *)
(* under Manager.mu, per transaction of the store and per RPC.             *)
(***************************************************************************)
EXTENDS Naturals

CONSTANTS
    Cmd,         \* control commands; create and join each make one key
    Local,       \* IDs that createProject may draw
    Remote,      \* Projects hosted by other devices
    Agent,       \* IDs that registerAgent may draw
    MaxRestarts, \* bound: restarts of the service
    None

Project == Local \cup Remote

\* A key, and the member it makes, is named by the command that generated it.
CreateCmd == [kind : {"create"}, project : Local]
JoinCmd == [kind : {"join"}, project : Project]
UseCmd == [kind : {"use"}, project : Project]
AgentCmd == [kind : {"register", "remove"}, agent : Agent]
Command == CreateCmd \cup JoinCmd \cup UseCmd \cup AgentCmd

Profile == [key : Cmd, hosted : BOOLEAN]
Listing == [project : Project, owner : Cmd]

DeviceAssumption ==
    /\ Local \cap Remote = {}
    /\ MaxRestarts \in Nat
    /\ None \notin Cmd \cup Project \cup Profile \cup Listing \cup Command

ASSUME DeviceAssumption

VARIABLES
    \* durable, on this device
    keys,        \* Keychain: the private key of a Project
    profiles,    \* state.json: the profile of a Project
    current,     \* state.json: the current Project
    localAgents, \* state.json: the Project of a shared Agent
    hostKey,     \* host.sqlite: the host key of a Project hosted here
    \* at the Project hosts, this one or others
    members,     \* keys of this device that are members of a Project
    listed,      \* Agents of this device and what their row says
    \* the service process
    at,          \* where a command stands
    command,     \* what it does
    client,      \* the profile and the key it has read
    outcome,     \* none, ok or failed
    lock,        \* the command that holds Manager.mu across steps
    providers,   \* Agents with a running provider
    runtime,     \* whether the isolated Codex runtime was found, once per process
    toStart,     \* Agents the starting service has read and not yet started
    booted,      \* whether the starting service has read state.json
    restarts,
    \* history
    torn,        \* Projects whose key and profile were not replaced in one go
    rekeyed,     \* Projects hosted here that were joined from here
    botched,     \* Projects for which undoing a create failed in part
    overtaken    \* Agents listed for a profile that was removed meanwhile

diskVars == <<keys, profiles, current, localAgents, hostKey>>
hostVars == <<members, listed>>
processVars == <<providers, runtime, toStart, booted>>
historyVars == <<torn, rekeyed, botched, overtaken>>
vars == <<diskVars, hostVars, at, command, client, outcome, lock, processVars,
          restarts, historyVars>>

Saga == {"insert", "join", "key", "profile", "invite", "unkey", "unprofile", "unrow",
         "use", "client", "sign", "rpc", "save", "start", "stop", "forget"}

TypeOK ==
    /\ keys \in [Project -> Cmd \cup {None}]
    /\ profiles \in [Project -> Profile \cup {None}]
    /\ current \in Project \cup {None}
    /\ localAgents \in [Agent -> Project \cup {None}]
    /\ hostKey \in [Local -> Cmd \cup {None}]
    /\ members \in [Project -> SUBSET Cmd]
    /\ listed \in [Agent -> Listing \cup {None}]
    /\ at \in [Cmd -> {"idle", "done", "lost"} \cup Saga]
    /\ command \in [Cmd -> Command \cup {None}]
    /\ client \in [Cmd -> [project : Project \cup {None}, member : Cmd \cup {None},
                           signer : Cmd \cup {None}]]
    /\ outcome \in [Cmd -> {"none", "ok", "failed"}]
    /\ lock \in Cmd \cup {None}
    /\ providers \in SUBSET Agent /\ toStart \in SUBSET Agent
    /\ runtime \in BOOLEAN /\ booted \in BOOLEAN
    /\ restarts \in 0..MaxRestarts
    /\ \A c \in Cmd : at[c] \in {"sign", "rpc", "save"} =>
         client[c].project # None /\ (at[c] # "sign" => client[c].signer # None)
    /\ torn \in SUBSET Project /\ rekeyed \in SUBSET Project
    /\ botched \in SUBSET Project /\ overtaken \in SUBSET Agent

NoClient == [project |-> None, member |-> None, signer |-> None]

Init ==
    /\ keys = [p \in Project |-> None]
    /\ profiles = [p \in Project |-> None]
    /\ current = None
    /\ localAgents = [g \in Agent |-> None]
    /\ hostKey = [p \in Local |-> None]
    /\ members = [p \in Project |-> {}]
    /\ listed = [g \in Agent |-> None]
    /\ at = [c \in Cmd |-> "idle"]
    /\ command = [c \in Cmd |-> None]
    /\ client = [c \in Cmd |-> NoClient]
    /\ outcome = [c \in Cmd |-> "none"]
    /\ lock = None
    /\ providers = {} /\ toStart = {}
    /\ runtime \in BOOLEAN /\ booted = FALSE
    /\ restarts = 0
    /\ torn = {} /\ rekeyed = {} /\ botched = {} /\ overtaken = {}

-----------------------------------------------------------------------------
(* Control commands: Daemon.dispatchControl.                               *)

FirstStep == [create |-> "insert", join |-> "join", use |-> "use",
              register |-> "client", remove |-> "client"]

\* IDs of Projects and Agents are drawn once.
Drawn(r) ==
    \E d \in Cmd :
        /\ command[d] # None /\ command[d].kind = r.kind
        /\ \/ r.kind = "create" /\ command[d].project = r.project
           \/ r.kind = "register" /\ command[d].agent = r.agent

Start(c) ==
    /\ at[c] = "idle"
    /\ \E r \in Command :
         /\ ~Drawn(r)
         /\ command' = [command EXCEPT ![c] = r]
         /\ at' = [at EXCEPT ![c] = FirstStep[r.kind]]
    /\ UNCHANGED <<diskVars, hostVars, client, outcome, lock, processVars, restarts, historyVars>>

Goto(c, from, to) == at[c] = from /\ at' = [at EXCEPT ![c] = to]
Go(c, from, to) == Goto(c, from, to) /\ UNCHANGED outcome
Finish(c, from, o) == Goto(c, from, "done") /\ outcome' = [outcome EXCEPT ![c] = o]

ProjectOf(c) == command[c].project
Creates(c) == command[c].kind = "create"

\* createProject gives up by deleting the rows it made; joinProject has none.
Abandon(c, from) == IF Creates(c) THEN Go(c, from, "unrow") ELSE Finish(c, from, "failed")

\* Store.CreateProject, a transaction: the Project and its Owner.
InsertRows(c) ==
    LET p == ProjectOf(c) IN
    /\ at[c] = "insert"
    /\ \/ /\ hostKey' = [hostKey EXCEPT ![p] = c]
          /\ members' = [members EXCEPT ![p] = {c}]
          /\ Go(c, "insert", "key")
       \/ Finish(c, "insert", "failed") /\ UNCHANGED <<hostKey, members>>
    /\ UNCHANGED <<keys, profiles, current, localAgents, listed, command, client, lock,
                   processVars, restarts, historyVars>>

\* A host answers for a Project: this one only with the key it was made with
\* (Daemon.hostIdentity).
Answers(p) ==
    p \in Local => /\ hostKey[p] # None
                   /\ profiles[p] # None /\ profiles[p].hosted
                   /\ keys[p] = hostKey[p]

\* lanhost.Join: the host has made the device a member, whether or not the
\* device learns of it (Membership.tla has the details).
Join(c) ==
    LET p == ProjectOf(c) IN
    /\ at[c] = "join"
    /\ \/ /\ p \in Local => hostKey[p] # None
          /\ members' = [members EXCEPT ![p] = @ \cup {c}]
          /\ \/ Answers(p) /\ Go(c, "join", "key")
             \/ Finish(c, "join", "failed")
       \/ Finish(c, "join", "failed") /\ UNCHANGED members
    /\ UNCHANGED <<diskVars, listed, command, client, lock, processVars, restarts, historyVars>>

\* Commands between the two halves of a change of key and profile of p.
Halfway(p) == {d \in Cmd : at[d] \in {"profile", "unprofile"} /\ ProjectOf(d) = p}

StoreWith(c, stored) ==
    LET p == ProjectOf(c) IN
    /\ at[c] = "key"
    /\ \/ /\ keys' = [keys EXCEPT ![p] = stored]
          /\ Go(c, "key", "profile")
          /\ torn' = IF Halfway(p) # {} THEN torn \cup {p} ELSE torn
          /\ rekeyed' = IF p \in Local /\ ~Creates(c) THEN rekeyed \cup {p} ELSE rekeyed
       \/ Abandon(c, "key") /\ UNCHANGED <<keys, torn, rekeyed>>
    /\ UNCHANGED <<profiles, current, localAgents, hostKey, hostVars, command, client, lock,
                   processVars, restarts, botched, overtaken>>

\* Fault: a key that is there already is kept.
StoreKey_KeepsOld(c) ==
    at[c] = "key" /\ StoreWith(c, IF keys[ProjectOf(c)] = None THEN c ELSE keys[ProjectOf(c)])

\* Manager.PutProfile stores the key, before it takes Manager.mu ...
StoreKey(c) == StoreWith(c, c)

\* ... then saves the profile and makes it the current one.
SaveProfile(c) ==
    LET p == ProjectOf(c) IN
    /\ at[c] = "profile" /\ lock = None
    /\ \/ /\ profiles' = [profiles EXCEPT ![p] = [key |-> c, hosted |-> Creates(c)]]
          /\ current' = p
          /\ IF Creates(c) THEN Go(c, "profile", "invite") ELSE Finish(c, "profile", "ok")
          /\ UNCHANGED torn
       \/ /\ Abandon(c, "profile")
          /\ torn' = torn \cup {p}
          /\ UNCHANGED <<profiles, current>>
    /\ UNCHANGED <<keys, localAgents, hostKey, hostVars, command, client, lock, processVars,
                   restarts, rekeyed, botched, overtaken>>

\* createProject asks its own host for the first invitation.
CreateInvitation(c) ==
    /\ at[c] = "invite"
    /\ \/ Answers(ProjectOf(c)) /\ c \in members[ProjectOf(c)] /\ Finish(c, "invite", "ok")
       \/ Go(c, "invite", "unkey")
    /\ UNCHANGED <<diskVars, hostVars, command, client, lock, processVars, restarts, historyVars>>

\* Manager.RemoveProfile takes Manager.mu, loads the state and deletes the key;
\* the caller ignores an error.
DeleteKey(c) ==
    LET p == ProjectOf(c) IN
    /\ at[c] = "unkey" /\ lock = None
    /\ \/ /\ keys' = [keys EXCEPT ![p] = None]
          /\ lock' = c
          /\ torn' = IF Halfway(p) # {} THEN torn \cup {p} ELSE torn
          /\ Go(c, "unkey", "unprofile")
          /\ UNCHANGED botched
       \/ /\ botched' = botched \cup {p}
          /\ Go(c, "unkey", "unrow")
          /\ UNCHANGED <<keys, lock, torn>>
    /\ UNCHANGED <<profiles, current, localAgents, hostKey, hostVars, command, client,
                   processVars, restarts, rekeyed, overtaken>>

\* Agents that a registration has listed, or will, with the profile of p.
Registering(p) ==
    {command[d].agent : d \in {e \in Cmd : /\ at[e] \in {"sign", "rpc", "save"}
                                           /\ command[e].kind = "register"
                                           /\ client[e].project = p}}

SaveRemoval(c, agents, now) ==
    LET p == ProjectOf(c) IN
    /\ Go(c, "unprofile", "unrow")
    /\ lock' = None
    /\ \/ /\ profiles' = [profiles EXCEPT ![p] = None]
          /\ localAgents' = agents
          /\ current' = now
          /\ overtaken' = overtaken \cup Registering(p)
          /\ UNCHANGED <<torn, botched>>
       \/ /\ torn' = torn \cup {p} /\ botched' = botched \cup {p}
          /\ UNCHANGED <<profiles, localAgents, current, overtaken>>
    /\ UNCHANGED <<keys, hostKey, hostVars, command, client, processVars, restarts, rekeyed>>

AgentsWithout(p) == [g \in Agent |-> IF localAgents[g] = p THEN None ELSE localAgents[g]]

\* Fault: the current Project is not reset.
RemoveProfile_KeepsCurrent(c) ==
    at[c] = "unprofile" /\ SaveRemoval(c, AgentsWithout(ProjectOf(c)), current)

\* ... then saves the state without the profile and its Agents.
RemoveProfile(c) ==
    at[c] = "unprofile" /\
    SaveRemoval(c, AgentsWithout(ProjectOf(c)),
                IF current = ProjectOf(c) THEN None ELSE current)

\* Fault: the rows are left.
DeleteRows_Skipped(c) ==
    /\ Finish(c, "unrow", "failed")
    /\ UNCHANGED <<diskVars, hostVars, command, client, lock, processVars, restarts, historyVars>>

\* Store.DeleteProject, a transaction; the caller ignores an error.
DeleteRows(c) ==
    LET p == ProjectOf(c) IN
    /\ Finish(c, "unrow", "failed")
    /\ \/ /\ hostKey' = [hostKey EXCEPT ![p] = None]
          /\ members' = [members EXCEPT ![p] = {}]
          /\ listed' = [g \in Agent |->
               IF listed[g] # None /\ listed[g].project = p THEN None ELSE listed[g]]
          /\ UNCHANGED botched
       \/ botched' = botched \cup {p} /\ UNCHANGED <<hostKey, hostVars>>
    /\ UNCHANGED <<keys, profiles, current, localAgents, command, client, lock, processVars,
                   restarts, torn, rekeyed, overtaken>>

\* Manager.Use
UseProject(c) ==
    /\ at[c] = "use" /\ lock = None
    /\ \/ profiles[ProjectOf(c)] # None /\ current' = ProjectOf(c) /\ Finish(c, "use", "ok")
       \/ Finish(c, "use", "failed") /\ UNCHANGED current
    /\ UNCHANGED <<keys, profiles, localAgents, hostKey, hostVars, command, client, lock,
                   processVars, restarts, historyVars>>

-----------------------------------------------------------------------------
(* registerAgent and removeAgent.                                          *)

\* Daemon.currentClient reads the current profile, for a registration after
\* the runtime was found ...
ReadProfile(c) ==
    /\ at[c] = "client" /\ lock = None
    /\ \/ /\ current # None /\ profiles[current] # None
          /\ command[c].kind = "register" => runtime
          /\ client' = [client EXCEPT ![c] = [project |-> current,
                          member |-> profiles[current].key, signer |-> None]]
          /\ Go(c, "client", "sign")
       \/ Finish(c, "client", "failed") /\ UNCHANGED client
    /\ UNCHANGED <<diskVars, hostVars, command, lock, processVars, restarts, historyVars>>

\* Fault: a Project without a key is not noticed.
ReadKey_Unchecked(c) ==
    /\ Go(c, "sign", "rpc")
    /\ client' = [client EXCEPT ![c].signer = keys[client[c].project]]
    /\ UNCHANGED <<diskVars, hostVars, command, lock, processVars, restarts, historyVars>>

\* ... and then the key of its Project.
ReadKey(c) ==
    /\ at[c] = "sign"
    /\ \/ /\ keys[client[c].project] # None
          /\ client' = [client EXCEPT ![c].signer = keys[client[c].project]]
          /\ Go(c, "sign", "rpc")
       \/ Finish(c, "sign", "failed") /\ UNCHANGED client
    /\ UNCHANGED <<diskVars, hostVars, command, lock, processVars, restarts, historyVars>>

\* The host accepts the RPC of a member signed with its own key.
Accepts(c) ==
    /\ client[c].signer = client[c].member
    /\ client[c].member \in members[client[c].project]

\* The RPC lists the Agent under a new ID, or removes one that the member
\* owns; the command goes on when it has a response of the host.
AgentRPC(c) ==
    LET g == command[c].agent
        p == client[c].project
        registers == command[c].kind = "register"
    IN  /\ at[c] = "rpc"
        /\ \/ /\ Accepts(c)
              /\ \/ /\ registers
                    /\ listed' = [listed EXCEPT ![g] = [project |-> p, owner |-> client[c].member]]
                 \/ /\ ~registers
                    /\ listed[g] = [project |-> p, owner |-> client[c].member]
                    /\ listed' = [listed EXCEPT ![g] = None]
              /\ \/ Answers(p) /\ Go(c, "rpc", IF registers THEN "save" ELSE "stop")
                 \/ Finish(c, "rpc", "failed")
           \/ Finish(c, "rpc", "failed") /\ UNCHANGED listed
        /\ UNCHANGED <<diskVars, members, command, client, lock, processVars, restarts,
                       historyVars>>

\* Fault: the Agent is saved and not started.
PutAgent_Unstarted(c) ==
    /\ at[c] = "save" /\ lock = None
    /\ localAgents' = [localAgents EXCEPT ![command[c].agent] = client[c].project]
    /\ Finish(c, "save", "ok")
    /\ UNCHANGED <<keys, profiles, current, hostKey, hostVars, command, client, lock,
                   processVars, restarts, historyVars>>

\* Manager.PutAgent
PutAgent(c) ==
    /\ at[c] = "save" /\ lock = None
    /\ \/ /\ localAgents' = [localAgents EXCEPT ![command[c].agent] = client[c].project]
          /\ Go(c, "save", "start")
       \/ Finish(c, "save", "failed") /\ UNCHANGED localAgents
    /\ UNCHANGED <<keys, profiles, current, hostKey, hostVars, command, client, lock,
                   processVars, restarts, historyVars>>

\* Daemon.startProvider, unless the runtime is missing; the command then waits
\* a while for the Agent to come online.
StartProvider(c) ==
    /\ at[c] = "start"
    /\ providers' = IF runtime THEN providers \cup {command[c].agent} ELSE providers
    /\ \E o \in {"ok", "failed"} : Finish(c, "start", o)
    /\ UNCHANGED <<diskVars, hostVars, command, client, lock, runtime, toStart, booted,
                   restarts, historyVars>>

\* Daemon.stopProvider
StopProvider(c) ==
    /\ Go(c, "stop", "forget")
    /\ providers' = providers \ {command[c].agent}
    /\ UNCHANGED <<diskVars, hostVars, command, client, lock, runtime, toStart, booted,
                   restarts, historyVars>>

\* Manager.RemoveAgent, whose error is ignored.
ForgetAgent(c) ==
    /\ lock = None
    /\ Finish(c, "forget", "ok")
    /\ \/ localAgents' = [localAgents EXCEPT ![command[c].agent] = None]
       \/ UNCHANGED localAgents
    /\ UNCHANGED <<keys, profiles, current, hostKey, hostVars, command, client, lock,
                   processVars, restarts, historyVars>>

-----------------------------------------------------------------------------
(* The process: Daemon.Run.                                                *)

\* The service has begun to take commands, and reads the Agents to start ...
LoadAgents ==
    /\ ~booted /\ lock = None
    /\ booted' = TRUE
    /\ toStart' = {g \in Agent : localAgents[g] # None}
    /\ UNCHANGED <<diskVars, hostVars, at, command, client, outcome, lock, providers, runtime,
                   restarts, historyVars>>

\* Fault: the Agents of state.json are not started.
StartLoaded_Skipped(g) ==
    /\ g \in toStart
    /\ toStart' = toStart \ {g}
    /\ UNCHANGED <<diskVars, hostVars, at, command, client, outcome, lock, providers, runtime,
                   booted, restarts, historyVars>>

\* ... and starts them one by one.
StartLoaded(g) ==
    /\ g \in toStart
    /\ toStart' = toStart \ {g}
    /\ providers' = IF runtime THEN providers \cup {g} ELSE providers
    /\ UNCHANGED <<diskVars, hostVars, at, command, client, outcome, lock, runtime, booted,
                   restarts, historyVars>>

\* The service dies and starts again: what is on disk stays.
Restart ==
    /\ restarts < MaxRestarts
    /\ restarts' = restarts + 1
    /\ at' = [c \in Cmd |-> IF at[c] \in Saga THEN "lost" ELSE at[c]]
    /\ lock' = None
    /\ providers' = {} /\ toStart' = {} /\ booted' = FALSE
    /\ runtime' \in BOOLEAN
    /\ torn' = torn \cup {ProjectOf(c) : c \in {d \in Cmd : at[d] \in {"profile", "unprofile"}}}
    /\ UNCHANGED <<diskVars, hostVars, command, client, outcome, rekeyed, botched, overtaken>>

-----------------------------------------------------------------------------

Proceed(c) ==
    \/ InsertRows(c)       \/ Join(c)          \/ StoreKey(c)     \/ SaveProfile(c)
    \/ CreateInvitation(c) \/ DeleteKey(c)     \/ RemoveProfile(c) \/ DeleteRows(c)
    \/ UseProject(c)       \/ ReadProfile(c)   \/ ReadKey(c)      \/ AgentRPC(c)
    \/ PutAgent(c)         \/ StartProvider(c) \/ StopProvider(c) \/ ForgetAgent(c)

Next ==
    \/ \E c \in Cmd : Start(c) \/ Proceed(c)
    \/ LoadAgents
    \/ \E g \in Agent : StartLoaded(g)
    \/ Restart

Spec == Init /\ [][Next]_vars

\* A command that has begun goes on, and so does a service that is starting.
Fairness ==
    /\ \A c \in Cmd : WF_vars(Proceed(c))
    /\ WF_vars(LoadAgents) /\ \A g \in Agent : WF_vars(StartLoaded(g))

FairSpec == Spec /\ Fairness

-----------------------------------------------------------------------------

\* Commands that touch the key or the profile of p.
Changing(p) ==
    \E c \in Cmd : at[c] \in {"profile", "unprofile"} /\ ProjectOf(c) = p

\* The Keychain holds the key of the member that state.json names, also after
\* joining a Project again, unless a change of the two failed halfway, died
\* halfway or met another one.
KeyFitsProfile ==
    \A p \in Project :
        profiles[p] # None /\ p \notin torn /\ ~Changing(p) => keys[p] = profiles[p].key

\* No creation is half done: one that succeeded left rows, a hosted profile and
\* a key that belong together, unless this device has joined the Project since;
\* one that failed left neither rows nor a hosted profile, unless undoing it
\* failed too.
CreateIsAllOrNothing ==
    \A c \in Cmd :
        command[c] # None /\ Creates(c) =>
            LET p == ProjectOf(c)
                hosted == [key |-> c, hosted |-> TRUE]
            IN  /\ outcome[c] = "ok" =>
                      /\ hostKey[p] = c /\ c \in members[p]
                      /\ p \notin rekeyed => profiles[p] = hosted /\ keys[p] = c
                /\ outcome[c] = "failed" /\ p \notin botched =>
                      hostKey[p] = None /\ profiles[p] # hosted

\* The current Project is one that is configured, and so is the Project of a
\* shared Agent, however commands that create, undo and switch overlap; but for
\* an Agent whose registration was under way while its Project was undone.
ReferencesResolve ==
    /\ current # None => profiles[current] # None
    /\ \A g \in Agent :
         localAgents[g] # None /\ g \notin overtaken => profiles[localAgents[g]] # None

\* An Agent is to be served when it is configured here and listed at its host
\* and the Codex runtime is there.
Shared(g) == localAgents[g] # None /\ listed[g] # None /\ runtime

\* A shared Agent without a provider is one that the starting service or its
\* registration has still to start: no removal that overlaps stops it, and no
\* boot passes over it.
SharedIsStarted ==
    \A g \in Agent : Shared(g) =>
        \/ g \in providers \cup toStart \/ ~booted
        \/ \E c \in Cmd : at[c] = "start" /\ command[c].agent = g

\* Every Agent that is configured here and listed at its host gets a provider,
\* after a restart too, when the Codex runtime is there.
AgentsAreServed == \A g \in Agent : Shared(g) ~> (g \in providers \/ ~Shared(g))
=============================================================================

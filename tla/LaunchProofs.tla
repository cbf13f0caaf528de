---------------------------- MODULE LaunchProofs ----------------------------
(* Proofs about Launch, for any number of commands and crashes. *)
EXTENDS Launch, TLAPS

Outcome == {"none", "ok", "failed", "refused", "lost"}
Where == {"new", "done"} \cup Underway

USE LaunchAssumption DEF LaunchAssumption

\* What an ending process does to the commands.
LEMMA EndProcessType ==
    ASSUME NEW next \in [Command -> Where], EndProcess(next),
           outcome \in [Command -> Outcome]
    PROVE  /\ at' \in [Command -> Where] /\ outcome' \in [Command -> Outcome]
           /\ \A k \in Command : at[k] = "sent" => at'[k] = "done"
           /\ \A k \in Command : at[k] # "sent" =>
                at'[k] = next[k] /\ outcome'[k] = outcome[k]
  BY DEF EndProcess, Where, Underway, Outcome

LEMMA TypeStep == TypeOK /\ [Next]_vars => TypeOK'
<1> SUFFICES ASSUME TypeOK, [Next]_vars PROVE TypeOK'
  OBVIOUS
<1>a. at \in [Command -> Where] /\ outcome \in [Command -> Outcome]
  BY DEF TypeOK, Where, Outcome
<1>1. CASE Listen
  BY <1>1 DEF Listen, TypeOK
<1>2. CASE Crash
  <2>1. EndProcess(at)
    BY <1>2 DEF Crash
  <2>2. \A k \in Command : at'[k] # "sent"
    BY <1>a, <2>1, EndProcessType, Zenon
  <2>. QED BY <1>2, <1>a, <2>1, <2>2, EndProcessType DEF Crash, TypeOK, Where, Outcome
<1>3. CASE Exit
  <2>1. EndProcess(at)
    BY <1>3 DEF Exit
  <2>2. \A k \in Command : at'[k] # "sent"
    BY <1>a, <2>1, EndProcessType, Zenon
  <2>. QED BY <1>3, <1>a, <2>1, <2>2, EndProcessType DEF Exit, TypeOK, Where, Outcome
<1>4. CASE KeepAlive
  BY <1>4 DEF KeepAlive, TypeOK
<1>5. ASSUME NEW k \in Command, Begin(k) PROVE TypeOK'
  BY <1>5 DEF Begin, Goto, TypeOK, Underway
<1>6. ASSUME NEW k \in Command, Ping(k) \/ Poll(k) \/ Send(k) PROVE TypeOK'
  BY <1>6 DEF Ping, Poll, Reached, Send, Listening, Goto, End, TypeOK, Underway
<1>7. ASSUME NEW k \in Command, PingFails(k) \/ PollFails(k) \/ Install(k) \/ Settle(k) \/ Answer(k)
      PROVE TypeOK'
  BY <1>7 DEF PingFails, PollFails, Install, Settle, Answer, Goto, End, TypeOK, Underway
<1>8. ASSUME NEW k \in Command, Bootstrap(k) PROVE TypeOK'
  BY <1>8 DEF Bootstrap, Goto, TypeOK, Underway
<1>9. ASSUME NEW k \in Command, Kickstart(k) PROVE TypeOK'
  <2> DEFINE next == [at EXCEPT ![k] = "poll"]
  <2>1. CASE loaded /\ service' = "starting" /\ EndProcess(next)
    <3>1. next \in [Command -> Where]
      BY <1>a DEF Where, Underway
    <3>2. \A j \in Command : at'[j] # "sent"
      <4>1. \A j \in Command : at[j] # "sent" => next[j] # "sent"
        BY <1>a
      <4>. QED BY <1>a, <2>1, <3>1, <4>1, EndProcessType, Zenon
    <3>. QED BY <1>9, <1>a, <2>1, <3>1, <3>2, EndProcessType DEF Kickstart, TypeOK, Where, Outcome
  <2>2. CASE ~loaded /\ UNCHANGED service
    BY <1>9, <2>2 DEF Kickstart, Goto, End, TypeOK, Underway
  <2>. QED BY <1>9, <2>1, <2>2 DEF Kickstart
<1>10. ASSUME NEW k \in Command, Bootout(k) PROVE TypeOK'
  BY <1>10 DEF Bootout, Goto, End, TypeOK, Underway
<1>11. CASE UNCHANGED vars
  BY <1>11 DEF vars, TypeOK
<1>. QED
  BY <1>1, <1>2, <1>3, <1>4, <1>5, <1>6, <1>7, <1>8, <1>9, <1>10, <1>11 DEF Next, CommandStep

\* Commands and the service are always in one of their states, and a command
\* awaits an answer only from a process that is there to give it.
THEOREM TypeInvariant == Spec => []TypeOK
<1>1. ASSUME Init PROVE TypeOK
  <2>1. answered \in [Command -> BOOLEAN] /\ alone \in [Command -> BOOLEAN]
    BY <1>1, Zenon DEF Init
  <2>2. \A k \in Command : at[k] = "new"
    BY <1>1 DEF Init
  <2>3. at \in [Command -> {"new", "done"} \cup Underway]
    BY <1>1 DEF Init
  <2>4. outcome \in [Command -> {"none", "ok", "failed", "refused", "lost"}]
    BY <1>1 DEF Init
  <2>5. /\ loaded \in BOOLEAN /\ service \in {"down", "starting", "up", "leaving"}
        /\ kind \in [Command -> Kind] /\ crashes = 0
    BY <1>1, Zenon DEF Init
  <2>6. crashes \in 0..MaxCrashes
    BY <2>5
  <2>. QED BY <2>1, <2>2, <2>3, <2>4, <2>5, <2>6 DEF TypeOK
<1>. QED BY <1>1, TypeStep, PTL DEF Spec

-----------------------------------------------------------------------------

\* A command without company keeps the service it has found.
LoneInv ==
    /\ \A k \in Command : at[k] # "done" => outcome[k] = "none"
    /\ \A k \in Command : alone[k] /\ at[k] \in Underway =>
         \A j \in Command \ {k} : at[j] \notin Underway
    /\ \A k \in Command : alone[k] /\ crashes = 0 /\ at[k] \in {"ready", "sent"} =>
         service = "up"
    /\ LoneIsAnswered

\* Command k, found underway, takes a step that no other command notices.
LEMMA LoneCommand ==
    ASSUME TypeOK, LoneInv, NEW k \in Command, NEW to \in Where, NEW o \in Outcome,
           at[k] \in Underway, at' = [at EXCEPT ![k] = to],
           UNCHANGED <<alone, crashes>>,
           outcome' = [outcome EXCEPT ![k] = o],
           to # "done" => o = "none",
           alone[k] /\ crashes = 0 => o \notin {"refused", "lost"},
           \A j \in Command \ {k} : alone[j] /\ at[j] \in Underway => service' = service,
           alone[k] /\ crashes = 0 /\ to \in {"ready", "sent"} => service' = "up"
    PROVE  LoneInv'
<1>1. \A j \in Command \ {k} : at'[j] = at[j] /\ outcome'[j] = outcome[j]
  BY DEF TypeOK
<1>2. at'[k] = to /\ outcome'[k] = o
  BY DEF TypeOK
<1>3. ASSUME NEW j \in Command, alone'[j], at'[j] \in Underway
      PROVE  \A i \in Command \ {j} : at'[i] \notin Underway
  BY <1>1, <1>2, <1>3 DEF LoneInv
<1>4. ASSUME NEW j \in Command, alone'[j], crashes' = 0, at'[j] \in {"ready", "sent"}
      PROVE  service' = "up"
  BY <1>1, <1>2, <1>4 DEF LoneInv, Underway
<1>5. LoneIsAnswered'
  BY <1>1, <1>2 DEF LoneInv, LoneIsAnswered
<1>6. \A j \in Command : at'[j] # "done" => outcome'[j] = "none"
  BY <1>1, <1>2 DEF LoneInv
<1>. QED BY <1>3, <1>4, <1>5, <1>6 DEF LoneInv

\* A step with which command k goes from one place to another, or returns.
LEMMA LoneGoto ==
    ASSUME TypeOK, LoneInv, NEW k \in Command, NEW from \in Underway, NEW to \in Where,
           \/ Goto(k, from, to) /\ UNCHANGED outcome /\ to # "done"
           \/ to = "done" /\ \E o \in {"ok", "failed"} : End(k, from, o),
           UNCHANGED <<alone, crashes>>,
           alone[k] /\ crashes = 0 /\ to \in {"ready", "sent"} => service' = "up",
           (\E j \in Command \ {k} : alone[j] /\ at[j] \in Underway) => service' = service
    PROVE  LoneInv'
<1>1. PICK o \in Outcome : /\ outcome' = [outcome EXCEPT ![k] = o]
                           /\ o \notin {"refused", "lost"} /\ (to # "done" => o = "none")
  <2>1. CASE Goto(k, from, to) /\ UNCHANGED outcome /\ to # "done"
    <3>1. outcome[k] = "none" /\ outcome' = [outcome EXCEPT ![k] = "none"]
      BY <2>1 DEF Goto, LoneInv, TypeOK, Underway
    <3>. QED BY <3>1 DEF Outcome
  <2>2. CASE to = "done" /\ \E o \in {"ok", "failed"} : End(k, from, o)
    BY <2>2 DEF End, Outcome
  <2>. QED BY <2>1, <2>2
<1>2. at[k] \in Underway /\ at' = [at EXCEPT ![k] = to]
  BY DEF Goto, End
<1>. QED BY <1>1, <1>2, LoneCommand

LEMMA LoneStep == TypeOK /\ LoneInv /\ [Next]_vars => LoneInv'
<1> SUFFICES ASSUME TypeOK, LoneInv, [Next]_vars PROVE LoneInv'
  OBVIOUS
<1>1. CASE Listen \/ KeepAlive
  <2>1. UNCHANGED <<at, outcome, crashes, alone>>
    BY <1>1 DEF Listen, KeepAlive
  <2>2. service' = "up" \/ service = "down"
    BY <1>1 DEF Listen, KeepAlive
  <2>. QED BY <2>1, <2>2 DEF LoneInv, LoneIsAnswered
<1>2. CASE Crash
  <2>1. crashes' # 0
    BY <1>2 DEF Crash, TypeOK
  <2>2. /\ UNCHANGED alone
        /\ \A k \in Command : \/ at'[k] = "done"
                              \/ at'[k] = at[k] /\ outcome'[k] = outcome[k]
    BY <1>2 DEF Crash, EndProcess
  <2>. QED BY <2>1, <2>2 DEF LoneInv, LoneIsAnswered, Underway
<1>3. CASE Exit
  <2>1. \A k \in Command : alone[k] /\ crashes = 0 => at[k] \notin {"ready", "sent"}
    BY <1>3 DEF Exit, LoneInv
  <2>2. /\ UNCHANGED <<alone, crashes>>
        /\ \A k \in Command : \/ at[k] = "sent" /\ at'[k] = "done"
                              \/ at'[k] = at[k] /\ outcome'[k] = outcome[k]
    BY <1>3 DEF Exit, EndProcess
  <2>. QED BY <2>1, <2>2 DEF LoneInv, LoneIsAnswered, Underway
<1>4. ASSUME NEW k \in Command, Begin(k) PROVE LoneInv'
  <2>1. /\ at[k] = "new" /\ UNCHANGED <<service, crashes, outcome>>
        /\ at'[k] \in {"bootout", "ping"}
        /\ \A j \in Command \ {k} : at'[j] = at[j]
    BY <1>4 DEF Begin, Goto, TypeOK
  <2>2. alone'[k] => \A j \in Command \ {k} : at[j] \notin Underway
    BY <1>4 DEF Begin, TypeOK
  <2>3. \A j \in Command \ {k} : alone'[j] => alone[j] /\ at[j] \notin Underway
    BY <1>4 DEF Begin, TypeOK
  <2>4. LoneIsAnswered'
    BY <2>1, <2>3 DEF LoneInv, LoneIsAnswered
  <2>5. \A j \in Command : at'[j] # "done" => outcome'[j] = "none"
    BY <2>1 DEF LoneInv
  <2>6. ASSUME NEW j \in Command, alone'[j], at'[j] \in Underway
        PROVE  j = k /\ \A i \in Command \ {j} : at'[i] \notin Underway
    BY <2>1, <2>2, <2>3, <2>6
  <2>. QED BY <2>1, <2>4, <2>5, <2>6 DEF LoneInv, Underway
<1>5. ASSUME NEW k \in Command, NEW from \in {"ping", "poll"}, Reached(k, from) PROVE LoneInv'
  <2>1. from \in Underway /\ {"ready", "done"} \subseteq Where
    BY DEF Underway, Where
  <2>2. service = "up" /\ UNCHANGED <<service, crashes, alone>>
    BY <1>5 DEF Reached, Listening
  <2>3. CASE Goto(k, from, "ready") /\ UNCHANGED outcome
    BY <2>1, <2>2, <2>3, LoneGoto
  <2>4. CASE End(k, from, "ok")
    BY <2>1, <2>2, <2>4, LoneGoto
  <2>. QED BY <1>5, <2>3, <2>4 DEF Reached
<1>6. ASSUME NEW k \in Command, Send(k) PROVE LoneInv'
  <2>1. /\ "ready" \in Underway /\ {"sent", "done"} \subseteq Where /\ "refused" \in Outcome
        /\ UNCHANGED <<service, crashes, alone>>
    BY <1>6 DEF Send, Underway, Where, Outcome
  <2>2. CASE service = "up" /\ Goto(k, "ready", "sent") /\ UNCHANGED outcome
    BY <2>1, <2>2, LoneGoto
  <2>3. CASE service # "up" /\ End(k, "ready", "refused")
    <3>1. at[k] = "ready" /\ at' = [at EXCEPT ![k] = "done"]
      BY <2>3 DEF End, Goto
    <3>2. ~(alone[k] /\ crashes = 0)
      BY <2>3, <3>1 DEF LoneInv
    <3>. QED BY <2>1, <2>3, <3>1, <3>2, LoneCommand DEF End
  <2>. QED BY <1>6, <2>2, <2>3 DEF Send, Listening
<1>7. ASSUME NEW k \in Command, PingFails(k) \/ PollFails(k) \/ Install(k) \/ Settle(k) \/ Answer(k)
      PROVE LoneInv'
  <2>1. /\ {"ping", "poll", "install", "settle", "sent"} \subseteq Underway
        /\ {"install", "done", "bootstrap", "ping"} \subseteq Where
        /\ UNCHANGED <<service, crashes, alone>>
    BY <1>7 DEF PingFails, PollFails, Install, Settle, Answer, Underway, Where
  <2>2. CASE PingFails(k)
    BY <2>1, <2>2, LoneGoto DEF PingFails
  <2>3. CASE PollFails(k)
    BY <2>1, <2>3, LoneGoto DEF PollFails
  <2>4. CASE Install(k)
    BY <2>1, <2>4, LoneGoto DEF Install
  <2>5. CASE Settle(k)
    <3>1. CASE kind[k] = "restart"
      BY <2>1, <2>5, <3>1, LoneGoto DEF Settle
    <3>2. CASE kind[k] # "restart"
      BY <2>1, <2>5, <3>2, LoneGoto DEF Settle
    <3>. QED BY <3>1, <3>2
  <2>6. CASE Answer(k)
    BY <2>1, <2>6, LoneGoto DEF Answer
  <2>. QED BY <1>7, <2>2, <2>3, <2>4, <2>5, <2>6
<1>8. ASSUME NEW k \in Command, Bootstrap(k) \/ Bootout(k) PROVE LoneInv'
  <2>1. /\ {"bootstrap", "bootout"} \subseteq Underway
        /\ {"kickstart", "settle", "done"} \subseteq Where
        /\ UNCHANGED <<crashes, alone>> /\ at[k] \in Underway
    BY <1>8 DEF Bootstrap, Bootout, Underway, Where, Goto, End
  <2>2. \A j \in Command \ {k} : ~(alone[j] /\ at[j] \in Underway)
    BY <2>1 DEF LoneInv
  <2>3. CASE Bootstrap(k)
    BY <2>1, <2>2, <2>3, LoneGoto DEF Bootstrap
  <2>4. CASE Goto(k, "bootout", "settle") /\ UNCHANGED outcome
    BY <2>1, <2>2, <2>4, LoneGoto
  <2>5. CASE End(k, "bootout", "failed")
    BY <2>1, <2>2, <2>5, LoneGoto
  <2>. QED BY <1>8, <2>3, <2>4, <2>5 DEF Bootout
<1>9. ASSUME NEW k \in Command, Kickstart(k) PROVE LoneInv'
  <2>1. /\ "kickstart" \in Underway /\ {"poll", "done"} \subseteq Where
        /\ at[k] = "kickstart" /\ UNCHANGED <<crashes, alone>>
    BY <1>9 DEF Kickstart, Underway, Where
  <2>2. \A j \in Command \ {k} : ~(alone[j] /\ at[j] \in Underway)
    BY <2>1 DEF LoneInv
  <2>3. CASE EndProcess([at EXCEPT ![k] = "poll"])
    <3>1. /\ at'[k] = "poll" /\ outcome'[k] = outcome[k]
          /\ \A j \in Command \ {k} : \/ at[j] = "sent" /\ at'[j] = "done"
                                      \/ at'[j] = at[j] /\ outcome'[j] = outcome[j]
      BY <2>1, <2>3 DEF EndProcess, TypeOK
    <3>2. \A j \in Command : alone[j] => at'[j] \notin {"ready", "sent"} /\ outcome'[j] = outcome[j]
      BY <2>1, <2>2, <3>1 DEF Underway
    <3>3. ASSUME NEW j \in Command, alone[j], at'[j] \in Underway
          PROVE  \A i \in Command \ {j} : at'[i] \notin Underway
      BY <2>1, <2>2, <3>1, <3>3 DEF Underway, LoneInv
    <3>4. \A j \in Command : at'[j] # "done" => outcome'[j] = "none"
      BY <2>1, <3>1 DEF LoneInv
    <3>. QED BY <2>1, <3>2, <3>3, <3>4 DEF LoneInv, LoneIsAnswered
  <2>4. CASE ~loaded /\ UNCHANGED service
    BY <1>9, <2>1, <2>2, <2>4, LoneGoto DEF Kickstart
  <2>. QED BY <1>9, <2>3, <2>4 DEF Kickstart
<1>10. CASE UNCHANGED vars
  BY <1>10 DEF vars, LoneInv, LoneIsAnswered
<1>. QED
  BY <1>1, <1>2, <1>3, <1>4, <1>5, <1>6, <1>7, <1>8, <1>9, <1>10 DEF Next, CommandStep, Ping, Poll

\* A command that no other overlaps is answered by the service it has found,
\* unless that one crashes: neither bootstrap nor kickstart of its own start
\* takes the service away from it again.
THEOREM LoneCommandsAreAnswered == Spec => []LoneIsAnswered
<1>1. Init => LoneInv
  BY DEF Init, LoneInv, LoneIsAnswered, Underway
<1>2. LoneInv => LoneIsAnswered
  BY DEF LoneInv
<1>. QED BY <1>1, <1>2, LoneStep, TypeInvariant, PTL DEF Spec

-----------------------------------------------------------------------------

\* Command j has unloaded the job, or tried to, and has not found the service
\* up since.
Unloader(j) ==
    /\ kind[j] \in {"stop", "restart"}
    /\ at[j] \notin {"new", "bootout", "ready", "sent"}
    /\ at[j] = "done" => kind[j] = "stop" \/ outcome[j] # "ok"

\* Only commands that unload the job make it so, and nothing comes up then.
LoadedInv ==
    /\ \A k \in Command : at[k] \in {"bootout", "settle"} => kind[k] \in {"stop", "restart"}
    /\ ~loaded =>
         /\ service \in {"down", "leaving"}
         /\ \/ \A k \in Command : at[k] \notin {"ready", "sent"} /\ outcome[k] # "ok"
            \/ \E j \in Command : Unloader(j)

\* What a step does to commands while the job is not loaded: it leaves the ones
\* that unloaded it, and finds no service up.
LEMMA UnloadedStep ==
    ASSUME TypeOK, LoadedInv, ~loaded, ~loaded', [Next]_vars
    PROVE  /\ service' \in {"down", "leaving"}
           /\ \A j \in Command : Unloader(j) => Unloader(j)'
           /\ \A k \in Command :
                \/ Unloader(k)'
                \/ /\ at'[k] \in {"ready", "sent"} => at[k] \in {"ready", "sent"}
                   /\ outcome'[k] = "ok" => outcome[k] = "ok" \/ at[k] = "sent"
<1>a. /\ at \in [Command -> Where] /\ outcome \in [Command -> Outcome]
      /\ kind \in [Command -> Kind] /\ service \in {"down", "leaving"}
  BY DEF TypeOK, LoadedInv, Where, Outcome
<1>1. CASE Listen \/ KeepAlive \/ UNCHANGED vars
  BY <1>a, <1>1 DEF Listen, KeepAlive, vars, Unloader
<1>2. CASE Crash \/ Exit
  BY <1>a, <1>2 DEF Crash, Exit, EndProcess, Unloader
<1>3. ASSUME NEW k \in Command, Begin(k)
      PROVE  /\ UNCHANGED <<kind, outcome, service>> /\ at[k] = "new"
             /\ at'[k] \in {"bootout", "ping"}
             /\ \A j \in Command \ {k} : at'[j] = at[j]
  BY <1>a, <1>3 DEF Begin, Goto
<1>4. ASSUME NEW k \in Command, CommandStep(k)
      PROVE  /\ service' \in {"down", "leaving"} /\ UNCHANGED kind
             /\ \A j \in Command \ {k} : at'[j] = at[j] /\ outcome'[j] = outcome[j]
             /\ \/ /\ at[k] \in {"ping", "install", "bootstrap", "kickstart", "poll"}
                   /\ at'[k] \in {"install", "bootstrap", "kickstart", "poll", "done"}
                   /\ outcome'[k] \in {outcome[k], "failed"} /\ (at'[k] = "done" => outcome'[k] = "failed")
                \/ /\ at[k] \in {"ready", "sent"} /\ at'[k] = "done"
                   /\ outcome'[k] = "ok" => at[k] = "sent"
                \/ /\ at[k] = "bootout"
                   /\ \/ at'[k] = "settle" /\ outcome' = outcome
                      \/ at'[k] = "done" /\ outcome'[k] = "failed"
                \/ /\ at[k] = "settle"
                   /\ \/ at'[k] = "ping" /\ outcome' = outcome
                      \/ at'[k] = "done" /\ kind[k] # "restart"
  <2>1. CASE Ping(k) \/ Poll(k)
    BY <1>a, <2>1 DEF Ping, Poll, Reached, Listening
  <2>2. CASE Send(k)
    BY <1>a, <2>2 DEF Send, Listening, Goto, End
  <2>3. CASE PingFails(k) \/ Install(k) \/ PollFails(k)
    BY <1>a, <2>3 DEF PingFails, Install, PollFails, Goto, End
  <2>4. CASE Bootstrap(k)
    BY <1>a, <2>4 DEF Bootstrap, Goto
  <2>5. CASE Kickstart(k)
    BY <1>a, <2>5 DEF Kickstart, Goto, End
  <2>6. CASE Bootout(k)
    BY <1>a, <2>6 DEF Bootout, Goto, End
  <2>7. CASE Settle(k) \/ Answer(k)
    BY <1>a, <2>7 DEF Settle, Answer, Goto, End
  <2>. QED BY <1>4, <2>1, <2>2, <2>3, <2>4, <2>5, <2>6, <2>7 DEF CommandStep
<1>5. ASSUME NEW k \in Command, CommandStep(k) \/ Begin(k)
      PROVE  /\ service' \in {"down", "leaving"}
             /\ \A j \in Command : Unloader(j) => Unloader(j)'
             /\ \A j \in Command :
                  \/ Unloader(j)'
                  \/ /\ at'[j] \in {"ready", "sent"} => at[j] \in {"ready", "sent"}
                     /\ outcome'[j] = "ok" => outcome[j] = "ok" \/ at[j] = "sent"
  BY <1>a, <1>3, <1>4, <1>5 DEF Unloader, LoadedInv, Kind
<1>. QED BY <1>1, <1>2, <1>5 DEF Next

LEMMA LoadedStep == TypeOK /\ LoadedInv /\ [Next]_vars => LoadedInv'
<1> SUFFICES ASSUME TypeOK, LoadedInv, [Next]_vars PROVE LoadedInv'
  OBVIOUS
<1>a. /\ at \in [Command -> Where] /\ kind \in [Command -> Kind]
  BY DEF TypeOK, Where
<1>1. \A k \in Command : at'[k] \in {"bootout", "settle"} => kind'[k] \in {"stop", "restart"}
  <2>1. CASE Listen \/ KeepAlive \/ Crash \/ Exit \/ UNCHANGED vars
    BY <2>1 DEF Listen, KeepAlive, Crash, Exit, EndProcess, vars, LoadedInv
  <2>2. ASSUME NEW k \in Command, Begin(k)
        PROVE \A j \in Command : at'[j] \in {"bootout", "settle"} => kind'[j] \in {"stop", "restart"}
    BY <1>a, <2>2 DEF Begin, Goto, LoadedInv
  <2>3. ASSUME NEW k \in Command, CommandStep(k)
        PROVE \A j \in Command : at'[j] \in {"bootout", "settle"} => kind'[j] \in {"stop", "restart"}
    BY <1>a, <2>3 DEF CommandStep, Ping, Poll, Reached, PingFails, Send, Install, Bootstrap,
       Kickstart, PollFails, Bootout, Settle, Answer, Goto, End, EndProcess, LoadedInv
  <2>. QED BY <2>1, <2>2, <2>3 DEF Next
<1>2. CASE loaded'
  BY <1>1, <1>2 DEF LoadedInv
<1>3. CASE ~loaded /\ ~loaded'
  <2>1. CASE \E j \in Command : Unloader(j)
    BY <1>1, <1>3, <2>1, UnloadedStep DEF LoadedInv
  <2>2. CASE \A k \in Command : at[k] \notin {"ready", "sent"} /\ outcome[k] # "ok"
    BY <1>1, <1>3, <2>2, UnloadedStep DEF LoadedInv
  <2>. QED BY <1>3, <2>1, <2>2 DEF LoadedInv
<1>4. CASE loaded /\ ~loaded'
  <2>1. PICK k \in Command : Bootout(k)
    BY <1>4 DEF Next, Listen, KeepAlive, Crash, Exit, vars, Begin, CommandStep, Ping, Poll, Reached,
       PingFails, Send, Install, Bootstrap, Kickstart, PollFails, Settle, Answer
  <2>2. /\ at[k] = "bootout" /\ at'[k] = "settle" /\ kind'[k] = kind[k]
        /\ service' \in {"down", "leaving"}
    BY <1>a, <1>4, <2>1 DEF Bootout, Goto
  <2>3. Unloader(k)'
    BY <2>2 DEF Unloader, LoadedInv
  <2>. QED BY <1>1, <2>2, <2>3 DEF LoadedInv
<1>. QED BY <1>2, <1>3, <1>4

\* A service that was asked for stays one that launchd keeps alive, however
\* many commands overlapped: the last one to unload the job is still underway,
\* was to stop the service, or has failed.
THEOREM StartedAreLoaded == Spec => []StartedIsLoaded
<1>1. Init => LoadedInv
  BY DEF Init, LoadedInv
<1>2. LoadedInv => StartedIsLoaded
  BY DEF LoadedInv, Unloader, StartedIsLoaded, Wanted, Quiet
<1>. QED BY <1>1, <1>2, LoadedStep, TypeInvariant, PTL DEF Spec
=============================================================================

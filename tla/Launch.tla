------------------------------- MODULE Launch -------------------------------
(***************************************************************************)
(* How commands find a running service: LaunchAgent                        *)
(* (internal/service/launchd.go), the control socket (client.go) and the   *)
(* command line that uses both (internal/cli/v2_commands.go).              *)
(*                                                                         *)
(* Each command is a process of its own and knows the service only by what *)
(* a ping over the socket and launchctl tell it.  launchd is external: it  *)
(* keeps a job loaded, starts it again when it ends, and runs one instance *)
(* of it at a time.                                                        *)
(***************************************************************************)
EXTENDS FiniteSets, Naturals

CONSTANTS
    Command,   \* invocations of peerctx
    MaxCrashes \* bound: times the service ends by itself

LaunchAssumption == MaxCrashes \in Nat

ASSUME LaunchAssumption

Kind == {"use", "start", "stop", "restart"}

VARIABLES
    \* launchd
    loaded,   \* the job is bootstrapped
    service,  \* its process: down, starting, up or leaving (after SIGTERM)
    \* commands
    kind,     \* what a command does
    at,       \* where it stands
    answered, \* launchctl bootstrap succeeded
    outcome,
    \* faults and history
    crashes,
    alone     \* no other command was in progress while this one was

vars == <<loaded, service, kind, at, answered, outcome, crashes, alone>>

Underway == {"ping", "install", "bootstrap", "kickstart", "poll", "bootout", "settle", "ready", "sent"}

TypeOK ==
    /\ loaded \in BOOLEAN
    /\ service \in {"down", "starting", "up", "leaving"}
    /\ kind \in [Command -> Kind]
    /\ at \in [Command -> {"new", "done"} \cup Underway]
    /\ answered \in [Command -> BOOLEAN]
    /\ outcome \in [Command -> {"none", "ok", "failed", "refused", "lost"}]
    /\ crashes \in 0..MaxCrashes
    /\ alone \in [Command -> BOOLEAN]
    /\ \A k \in Command : at[k] = "sent" => service \in {"up", "leaving"}

Init ==
    /\ loaded = FALSE /\ service = "down"
    /\ kind \in [Command -> Kind]
    /\ at = [k \in Command |-> "new"]
    /\ answered = [k \in Command |-> FALSE]
    /\ outcome = [k \in Command |-> "none"]
    /\ crashes = 0
    /\ alone = [k \in Command |-> TRUE]

Goto(k, from, to) == at[k] = from /\ at' = [at EXCEPT ![k] = to]

\* A command returns.
End(k, from, result) ==
    /\ Goto(k, from, "done")
    /\ outcome' = [outcome EXCEPT ![k] = result]

-----------------------------------------------------------------------------
(* The service's process.                                                  *)

\* Fault: a broken connection is not noticed.
EndProcess_Unnoticed(next) == at' = next /\ UNCHANGED outcome

\* A process that ends breaks the connections of the commands it was about to
\* answer; the others stand at next.
EndProcess(next) ==
    /\ at' = [k \in Command |-> IF at[k] = "sent" THEN "done" ELSE next[k]]
    /\ outcome' = [k \in Command |-> IF at[k] = "sent" THEN "lost" ELSE outcome[k]]

\* Daemon.Run listens on the control socket, in place of one left behind.
Listen ==
    /\ service = "starting"
    /\ service' = "up"
    /\ UNCHANGED <<loaded, kind, at, answered, outcome, crashes, alone>>

Crash ==
    /\ service # "down" /\ crashes < MaxCrashes
    /\ service' = "down" /\ crashes' = crashes + 1
    /\ EndProcess(at)
    /\ UNCHANGED <<loaded, kind, answered, alone>>

\* After SIGTERM it answers what it has begun, for five seconds at most.
Exit ==
    /\ service = "leaving"
    /\ service' = "down"
    /\ EndProcess(at)
    /\ UNCHANGED <<loaded, kind, answered, crashes, alone>>

\* Fault: the job is not kept alive.
KeepAlive_Not == FALSE /\ UNCHANGED vars

\* RunAtLoad and KeepAlive in the property list.
KeepAlive ==
    /\ loaded /\ service = "down"
    /\ service' = "starting"
    /\ UNCHANGED <<loaded, kind, at, answered, outcome, crashes, alone>>

\* The service answers a command.
Answer(k) ==
    /\ End(k, "sent", "ok")
    /\ UNCHANGED <<loaded, service, kind, answered, crashes, alone>>

\* Fault: the socket stays open while the service leaves.
Listening_Leaving == service \in {"up", "leaving"}

\* A request over the control socket is taken.
Listening == service = "up"

-----------------------------------------------------------------------------
(* Commands.                                                               *)

\* runService and control.
Begin(k) ==
    /\ Goto(k, "new", IF kind[k] \in {"stop", "restart"} THEN "bootout" ELSE "ping")
    /\ LET Others == {j \in Command \ {k} : at[j] \in Underway} IN
         alone' = [j \in Command |-> IF j = k THEN Others = {} ELSE alone[j] /\ j \notin Others]
    /\ UNCHANGED <<loaded, service, kind, answered, outcome, crashes>>

\* Ensure is done when a ping is answered; control then sends its request.
Reached(k, from) ==
    /\ Listening
    /\ IF kind[k] = "use" THEN Goto(k, from, "ready") /\ UNCHANGED outcome ELSE End(k, from, "ok")
    /\ UNCHANGED <<loaded, service, kind, answered, crashes, alone>>

Ping(k) == Reached(k, "ping")

Send(k) ==
    /\ IF Listening THEN Goto(k, "ready", "sent") /\ UNCHANGED outcome
                    ELSE End(k, "ready", "refused")
    /\ UNCHANGED <<loaded, service, kind, answered, crashes, alone>>

\* The ping is not answered in time: nobody listens, or the service is busy.
PingFails(k) ==
    /\ Goto(k, "ping", "install")
    /\ UNCHANGED <<loaded, service, kind, answered, outcome, crashes, alone>>

\* The property list is written beside its place and renamed into it.
Install(k) ==
    /\ \/ Goto(k, "install", "bootstrap") /\ UNCHANGED outcome
       \/ End(k, "install", "failed")
    /\ UNCHANGED <<loaded, service, kind, answered, crashes, alone>>

\* launchctl bootstrap fails for a job that is loaded or still leaving.
Bootstrap(k) ==
    /\ Goto(k, "bootstrap", "kickstart")
    /\ LET new == ~loaded /\ service = "down" IN
         /\ answered' = [answered EXCEPT ![k] = new]
         /\ loaded' = (loaded \/ new)
         /\ service' = IF new THEN "starting" ELSE service
    /\ UNCHANGED <<kind, outcome, crashes, alone>>

\* launchctl kickstart -k kills the instance there is and starts another one;
\* Ensure gives up when both calls have failed.
Kickstart(k) ==
    /\ at[k] = "kickstart"
    /\ \/ loaded /\ service' = "starting" /\ EndProcess([at EXCEPT ![k] = "poll"])
       \/ /\ ~loaded /\ UNCHANGED service
          /\ IF answered[k] THEN Goto(k, "kickstart", "poll") /\ UNCHANGED outcome
                            ELSE End(k, "kickstart", "failed")
    /\ UNCHANGED <<loaded, kind, answered, crashes, alone>>

\* Ensure polls until a ping is answered ...
Poll(k) == Reached(k, "poll")

\* ... or eight seconds have passed.
PollFails(k) ==
    /\ End(k, "poll", "failed")
    /\ UNCHANGED <<loaded, service, kind, answered, crashes, alone>>

\* launchctl bootout unloads the job and sends its process SIGTERM.
Bootout(k) ==
    /\ \/ /\ Goto(k, "bootout", "settle")
          /\ loaded' = FALSE
          /\ service' = CASE ~loaded -> service
                          [] service = "down" -> "down"
                          [] OTHER -> "leaving"
          /\ UNCHANGED outcome
       \/ End(k, "bootout", "failed") /\ UNCHANGED <<loaded, service>>
    /\ UNCHANGED <<kind, answered, crashes, alone>>

\* Stop polls until no ping is answered or three seconds have passed; Restart
\* goes on with Ensure.
Settle(k) ==
    /\ IF kind[k] = "restart" THEN Goto(k, "settle", "ping") /\ UNCHANGED outcome
                              ELSE End(k, "settle", "ok")
    /\ UNCHANGED <<loaded, service, kind, answered, crashes, alone>>

CommandStep(k) ==
    \/ Ping(k) \/ PingFails(k) \/ Send(k) \/ Install(k) \/ Bootstrap(k) \/ Kickstart(k)
    \/ Poll(k) \/ PollFails(k) \/ Bootout(k) \/ Settle(k) \/ Answer(k)

Next ==
    \/ Listen \/ Crash \/ Exit \/ KeepAlive
    \/ \E k \in Command : Begin(k) \/ CommandStep(k)

Spec == Init /\ [][Next]_vars

Fairness ==
    /\ WF_vars(Listen) /\ WF_vars(Exit) /\ WF_vars(KeepAlive)
    /\ \A k \in Command : WF_vars(CommandStep(k))

FairSpec == Spec /\ Fairness

-----------------------------------------------------------------------------

\* A command that no other overlaps gets an answer from the service it has
\* found, unless that one crashes.
LoneIsAnswered ==
    \A k \in Command : alone[k] /\ crashes = 0 => outcome[k] \notin {"refused", "lost"}

\* No command is in progress, one of them succeeded, none was to stop the
\* service and no restart of it failed.
Quiet == \A k \in Command : at[k] \in {"new", "done"}

Wanted ==
    /\ Quiet
    /\ \E k \in Command : at[k] = "done" /\ outcome[k] = "ok"
    /\ \A k \in Command : at[k] = "done" => /\ kind[k] # "stop"
                                            /\ kind[k] = "restart" => outcome[k] = "ok"

\* A service that was asked for is one that launchd keeps alive, even if starts
\* and restarts of it overlapped: none of them unloads the job behind another
\* one that reports success.
StartedIsLoaded == Wanted => loaded

\* Between commands a service that was asked for comes up, after a crash too.
StartedIsServed == Wanted ~> (service = "up" \/ ~Quiet)
=============================================================================

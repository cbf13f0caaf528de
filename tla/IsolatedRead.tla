---------------------------- MODULE IsolatedRead ----------------------------
(***************************************************************************)
(* One read by an isolated Codex: IsolatedAdapter.Run in                   *)
(* internal/codex/isolated.go.  Run makes a temporary directory, starts    *)
(* Codex, decodes the events it prints until the end of the stream, waits  *)
(* for the process and for the goroutine that discards its standard error, *)
(* and returns the last message or an error.                               *)
(*                                                                         *)
(* The `codex' that is installed may be a wrapper: a process that starts   *)
(* the program that does the work and hands it its pipes.  The context     *)
(* kills the process that Run started and no other, and a pipe ends when   *)
(* nobody is left to write to it.                                          *)
(***************************************************************************)
EXTENDS Naturals, Sequences

CONSTANTS
    Message,   \* final messages
    Script,    \* what Codex may print in a read: sequences of events
    PipeSize,  \* how many events, or chunks of standard error, a pipe holds
    MaxNoise,  \* bound: chunks of standard error in a read
    None

Event == Message \cup {"other", "garbage", "oversized"}
ReadFailure == {"agent_repository_unavailable", "isolated_runtime_unavailable",
                "codex_protocol_error", "response_too_large", "request_canceled",
                "codex_execution_failed"}

ReadAssumption ==
    /\ Script \subseteq Seq(Event)
    /\ PipeSize \in Nat \ {0} /\ MaxNoise \in Nat
    /\ None \notin Message \cup ReadFailure
    /\ Message \cap ({"other", "garbage", "oversized"} \cup ReadFailure) = {}

ASSUME ReadAssumption

VARIABLES
    canceled,  \* the context of the caller is done
    \* the processes and their pipes
    codex,     \* the process that Run started
    worker,    \* the program that does the work is alive
    wrapped,   \* it is another process than codex
    script,    \* the events it has still to print
    noise,     \* the chunks it has still to write to standard error
    body,      \* the question is not yet copied to standard input
    stdout,    \* events in the pipe
    stderr,    \* chunks in the pipe
    \* Run
    run,       \* where it stands
    directory, \* the temporary directory exists
    open,      \* our ends of the pipes are open
    draining,  \* the goroutine that discards standard error runs
    final,     \* the last message decoded
    parseErr,  \* why decoding ended, if not at the end of the stream
    result,    \* what Run returned
    \* history
    said,      \* the last message of the whole script
    leftBehind \* results of reads that left their worker running

processVars == <<codex, worker, wrapped, script, noise>>
pipeVars == <<body, stdout, stderr>>
runVars == <<run, directory, open, draining, final, parseErr, result>>
readVars == <<canceled, processVars, pipeVars, runVars, said, leftBehind>>

ReadTypeOK ==
    /\ canceled \in BOOLEAN
    /\ codex \in {"none", "running", "ok", "failed", "killed"}
    /\ worker \in BOOLEAN /\ wrapped \in BOOLEAN
    /\ script \in Seq(Event) /\ noise \in 0..MaxNoise
    /\ body \in BOOLEAN
    /\ stdout \in Seq(Event) /\ Len(stdout) <= PipeSize
    /\ stderr \in 0..PipeSize
    /\ run \in {"idle", "prepare", "parse", "wait", "drain", "done"}
    /\ directory \in BOOLEAN /\ open \in BOOLEAN /\ draining \in BOOLEAN
    /\ final \in Message \cup {None} /\ said \in Message \cup {None}
    /\ parseErr \in {"codex_protocol_error", "response_too_large", None}
    /\ result \in Message \cup ReadFailure \cup {None}
    /\ leftBehind \in SUBSET (Message \cup ReadFailure)

ReadInit ==
    /\ canceled = FALSE
    /\ codex = "none" /\ worker = FALSE /\ wrapped = FALSE
    /\ script = <<>> /\ noise = 0
    /\ body = FALSE /\ stdout = <<>> /\ stderr = 0
    /\ run = "idle" /\ directory = FALSE /\ open = FALSE /\ draining = FALSE
    /\ final = None /\ parseErr = None /\ result = None
    /\ said = None /\ leftBehind = {}

\* The last message among the events of s, None if there is none.
LastMessage(s) ==
    LET at == {i \in DOMAIN s : s[i] \in Message}
    IN  IF at = {} THEN None ELSE s[CHOOSE i \in at : \A j \in at : j <= i]

\* Somebody may still write to the pipes.
Writers == codex = "running" \/ worker

-----------------------------------------------------------------------------
(* Codex, as far as Run sees it.                                           *)

\* Codex reads the question, then prints its events; it stands still while a
\* pipe is full.  What it writes once our end is closed goes nowhere.
TakeBody ==
    /\ worker /\ body
    /\ body' = FALSE
    /\ UNCHANGED <<canceled, processVars, stdout, stderr, runVars, said, leftBehind>>

PrintEvent ==
    /\ worker /\ ~body /\ script # <<>>
    /\ open => Len(stdout) < PipeSize
    /\ script' = Tail(script)
    /\ stdout' = IF open THEN Append(stdout, Head(script)) ELSE stdout
    /\ UNCHANGED <<canceled, codex, worker, wrapped, noise, body, stderr, runVars, said, leftBehind>>

WriteNoise ==
    /\ worker /\ noise > 0
    /\ open => stderr < PipeSize
    /\ noise' = noise - 1
    /\ stderr' = IF open THEN stderr + 1 ELSE stderr
    /\ UNCHANGED <<canceled, codex, worker, wrapped, script, body, stdout, runVars, said, leftBehind>>

\* It ends; a wrapper that is still there ends with it, the same way.
WorkerEnds(status) ==
    /\ worker
    /\ worker' = FALSE
    /\ codex' = IF codex = "running" THEN status ELSE codex
    /\ UNCHANGED <<canceled, wrapped, script, noise, pipeVars, runVars, said, leftBehind>>

Finishes == script = <<>> /\ noise = 0 /\ \E status \in {"ok", "failed"} : WorkerEnds(status)

\* It may fail at any time.
Crashes == WorkerEnds("failed")

CodexGoesOn == TakeBody \/ PrintEvent \/ WriteNoise \/ Finishes

-----------------------------------------------------------------------------
(* Run and its goroutines.                                                 *)

\* Something fails before Codex runs; whatever was made is removed again.
PrepareFails ==
    /\ run = "prepare"
    /\ result' \in {"agent_repository_unavailable", "isolated_runtime_unavailable",
                    "codex_execution_failed"}
    /\ run' = "done"
    /\ UNCHANGED <<canceled, processVars, pipeVars, directory, open, draining, final, parseErr,
                   said, leftBehind>>

\* Codex starts, unless the context is done.
StartCodex ==
    /\ run = "prepare" /\ ~canceled
    /\ run' = "parse" /\ directory' = TRUE /\ open' = TRUE /\ draining' = TRUE
    /\ final' = None /\ parseErr' = None /\ result' = None
    /\ codex' = "running" /\ worker' = TRUE /\ wrapped' \in BOOLEAN
    /\ script' \in Script /\ noise' \in 0..MaxNoise
    /\ body' = TRUE /\ stdout' = <<>> /\ stderr' = 0
    /\ said' = LastMessage(script')
    /\ UNCHANGED <<canceled, leftBehind>>

\* parseFinalAgentMessage decodes one event: it keeps the last message and
\* stops at one it cannot decode or that is too long ...
Decode ==
    /\ run = "parse" /\ stdout # <<>>
    /\ stdout' = Tail(stdout)
    /\ LET e == Head(stdout) IN
         /\ final' = IF e \in Message THEN e ELSE final
         /\ parseErr' = CASE e = "garbage" -> "codex_protocol_error"
                          [] e = "oversized" -> "response_too_large"
                          [] OTHER -> None
         /\ run' = IF e \in {"garbage", "oversized"} THEN "wait" ELSE "parse"
    /\ UNCHANGED <<canceled, processVars, body, stderr, directory, open, draining, result,
                   said, leftBehind>>

\* A worker that died may have printed half of its next event.
StopParsing ==
    /\ \/ final # None /\ parseErr' = None
       \/ (final = None \/ script # <<>>) /\ parseErr' = "codex_protocol_error"
    /\ run' = "wait"
    /\ UNCHANGED <<canceled, processVars, pipeVars, directory, open, draining, final, result,
                   said, leftBehind>>

\* Fault: the stream is taken to end with the process that was started.
EndOfOutput_AtExit == run = "parse" /\ stdout = <<>> /\ codex # "running" /\ StopParsing

\* ... and ends with the stream, which a message must have come on.
EndOfOutput == run = "parse" /\ stdout = <<>> /\ ~Writers /\ StopParsing

\* Fault: the process does not end with the context of the caller.
KillWanted_OnErrorOnly == parseErr # None

\* The run context: done with the caller's, or canceled after a decoding error.
KillWanted == canceled \/ parseErr # None

\* The goroutine of exec.CommandContext kills the process that was started.
Kill ==
    /\ run \in {"parse", "wait"} /\ KillWanted /\ codex = "running"
    /\ codex' = "killed"
    /\ worker' = (worker /\ wrapped)
    /\ UNCHANGED <<canceled, wrapped, script, noise, pipeVars, runVars, said, leftBehind>>

\* The goroutine that copies the question ends with the readers of its pipe.
CopyFails ==
    /\ run = "wait" /\ body /\ ~Writers
    /\ body' = FALSE
    /\ UNCHANGED <<canceled, processVars, stdout, stderr, runVars, said, leftBehind>>

\* cmd.Wait: the process and the copying have ended; our ends are closed.
Wait ==
    /\ run = "wait" /\ codex # "running" /\ ~body
    /\ open' = FALSE /\ stdout' = <<>> /\ stderr' = 0
    /\ run' = "drain"
    /\ UNCHANGED <<canceled, processVars, body, directory, draining, final, parseErr, result,
                   said, leftBehind>>

\* Fault: standard error is left unread.
Discard_Never == FALSE /\ UNCHANGED readVars

\* The other goroutine discards standard error ...
Discard ==
    /\ draining /\ stderr > 0
    /\ stderr' = 0
    /\ UNCHANGED <<canceled, processVars, body, stdout, runVars, said, leftBehind>>

\* ... until it ends or is closed.
DiscardEnds ==
    /\ draining
    /\ open => stderr = 0 /\ ~Writers
    /\ draining' = FALSE
    /\ UNCHANGED <<canceled, processVars, pipeVars, run, directory, open, final, parseErr, result,
                   said, leftBehind>>

ReturnWith(value) ==
    /\ run = "drain" /\ ~draining
    /\ run' = "done" /\ result' = value
    /\ directory' \in (IF worker THEN BOOLEAN ELSE {FALSE})
    /\ worker' = FALSE /\ script' = <<>> /\ noise' = 0
    /\ leftBehind' = IF worker THEN leftBehind \cup {value} ELSE leftBehind
    /\ UNCHANGED <<canceled, codex, wrapped, pipeVars, open, draining, final, parseErr, said>>

\* Fault: the exit status is not looked at.
Return_AnyStatus ==
    ReturnWith(IF parseErr # None THEN parseErr
               ELSE IF canceled THEN "request_canceled" ELSE final)

\* Run returns: a decoding error, then the context, then the exit status, and
\* only then the message.  The directory is removed, as far as a worker that
\* is still there lets it; from here on that one is nobody's.
Return ==
    ReturnWith(IF parseErr # None THEN parseErr
               ELSE IF canceled THEN "request_canceled"
               ELSE IF codex # "ok" THEN "codex_execution_failed" ELSE final)

Reader ==
    \/ PrepareFails \/ StartCodex \/ Decode \/ EndOfOutput \/ Kill \/ CopyFails
    \/ Wait \/ Discard \/ DiscardEnds \/ Return

=============================================================================

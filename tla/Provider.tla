------------------------------ MODULE Provider ------------------------------
(***************************************************************************)
(* The provider of one Agent on its owner's device: startProvider          *)
(* (internal/service/daemon.go) dials the Project Host and serves the      *)
(* request frames of the connection (internal/lanhost/client.go), one at a *)
(* time, each with an isolated read.  Frames wait in the socket meanwhile  *)
(* and are checked for their age only when they are read.                  *)
(*                                                                         *)
(* The context of a read is that of the provider: neither the end of the   *)
(* connection nor that of the request cancels it.                          *)
(***************************************************************************)
EXTENDS IsolatedRead

CONSTANTS
    Ask,      \* requests the host sends to this Agent
    MaxAge,   \* ticks after which a signature is too old
    MaxClock  \* bound: ticks of the clock

ProviderAssumption == MaxAge \in Nat /\ MaxClock \in Nat

ASSUME ProviderAssumption

VARIABLES
    loop,    \* where the provider's goroutine stands
    link,    \* the connection is there
    inbox,   \* frames in the socket, with the time they were signed at
    clock,
    died,    \* the service process has ended
    asked    \* requests sent so far

loopVars == <<loop, link, inbox, clock, died, asked>>
vars == <<readVars, loopVars>>

Frame == [ask : Ask, at : 0..MaxClock]

TypeOK ==
    /\ ReadTypeOK
    /\ loop \in {"dial", "read", "serve", "ended"}
    /\ link \in BOOLEAN /\ died \in BOOLEAN
    /\ inbox \in Seq(Frame)
    /\ clock \in 0..MaxClock /\ asked \in SUBSET Ask
    /\ run # "idle" => loop = "serve"

Init ==
    /\ ReadInit
    /\ loop = "dial" /\ link = FALSE /\ inbox = <<>> /\ clock = 0 /\ died = FALSE
    /\ asked = {}

-----------------------------------------------------------------------------

\* The loop of startProvider dials again after each connection ...
Dial ==
    /\ loop = "dial" /\ ~canceled
    /\ loop' = "read" /\ link' = TRUE /\ inbox' = <<>>
    /\ UNCHANGED <<readVars, clock, died, asked>>

\* ... until it is stopped.
Leave ==
    /\ loop = "dial" /\ canceled
    /\ loop' = "ended"
    /\ UNCHANGED <<readVars, link, inbox, clock, died, asked>>

\* stopProvider, or the end of the service: the context of the provider.
Cancel ==
    /\ ~canceled
    /\ canceled' = TRUE
    /\ UNCHANGED <<processVars, pipeVars, runVars, said, leftBehind, loopVars>>

\* The host writes a request frame.
HostWrites(a) ==
    /\ link /\ a \notin asked
    /\ inbox' = Append(inbox, [ask |-> a, at |-> clock])
    /\ asked' = asked \cup {a}
    /\ UNCHANGED <<readVars, loop, link, clock, died>>

LinkDrops ==
    /\ link
    /\ link' = FALSE
    /\ UNCHANGED <<readVars, loop, inbox, clock, died, asked>>

\* SignedMessage.Verify, when the frame is read.
Fresh(f) == clock - f.at <= MaxAge

\* runProviderEndpoint reads a frame and calls the handler ...
ReadFrame ==
    /\ loop = "read" /\ inbox # <<>> /\ Fresh(Head(inbox))
    /\ loop' = "serve" /\ inbox' = Tail(inbox)
    /\ run' = "prepare"
    /\ UNCHANGED <<canceled, processVars, pipeVars, directory, open, draining, final, parseErr, result,
                   said, leftBehind, link, clock, died, asked>>

\* ... or leaves the connection, and what else waits in it, for a frame that
\* is too old.
RefuseFrame ==
    /\ loop = "read" /\ inbox # <<>> /\ ~Fresh(Head(inbox))
    /\ loop' = "dial" /\ link' = FALSE /\ inbox' = <<>>
    /\ UNCHANGED <<readVars, clock, died, asked>>

\* Fault: the connection is left while a request of it is served.
ReadFails_Anytime ==
    /\ loop \in {"read", "serve"} /\ (~link \/ canceled)
    /\ loop' = "dial" /\ link' = FALSE /\ inbox' = <<>>
    /\ UNCHANGED <<readVars, clock, died, asked>>

\* The connection has ended, or the watching goroutine closes it.
ReadFails ==
    /\ loop = "read" /\ (~link \/ canceled)
    /\ loop' = "dial" /\ link' = FALSE /\ inbox' = <<>>
    /\ UNCHANGED <<readVars, clock, died, asked>>

\* The read has returned and its result is written to the connection.
Reply ==
    /\ loop = "serve" /\ run = "done"
    /\ run' = "idle"
    /\ \/ link /\ loop' = "read" /\ UNCHANGED <<link, inbox>>
       \/ (~link \/ canceled) /\ loop' = "dial" /\ link' = FALSE /\ inbox' = <<>>
    /\ UNCHANGED <<canceled, processVars, pipeVars, directory, open, draining, final, parseErr, result,
                   said, leftBehind, clock, died, asked>>

\* Daemon.Run does not wait for its providers, and a process may be killed:
\* what a read has made stays.
ServiceEnds ==
    /\ loop # "ended"
    /\ died' = TRUE /\ loop' = "ended" /\ link' = FALSE /\ inbox' = <<>>
    /\ run' = "idle" /\ open' = FALSE /\ draining' = FALSE
    /\ codex' = "none" /\ worker' = FALSE
    /\ UNCHANGED <<canceled, wrapped, script, noise, pipeVars, directory, final, parseErr, result,
                   said, leftBehind, clock, asked>>

\* Time passes.  A provider that waits for a frame reads it within a tick.
Tick ==
    /\ clock < MaxClock /\ ~(loop = "read" /\ inbox # <<>>)
    /\ clock' = clock + 1
    /\ UNCHANGED <<readVars, loop, link, inbox, died, asked>>

ProviderStep == Leave \/ ReadFrame \/ RefuseFrame \/ ReadFails \/ Reply
IsolatedStep == (Reader \/ CodexGoesOn \/ Crashes) /\ UNCHANGED loopVars

Next ==
    \/ IsolatedStep \/ ProviderStep
    \/ Dial \/ Cancel \/ LinkDrops \/ ServiceEnds \/ Tick
    \/ \E a \in Ask : HostWrites(a)

Spec == Init /\ [][Next]_vars

Fairness ==
    /\ WF_vars(Reader /\ UNCHANGED loopVars)
    /\ WF_vars(Kill /\ UNCHANGED loopVars)
    /\ WF_vars(ProviderStep)
CodexEnds == WF_vars(CodexGoesOn /\ UNCHANGED loopVars)

FairSpec == Spec /\ Fairness

-----------------------------------------------------------------------------

\* An answer is the last message of everything Codex had to say, and Codex
\* ended well: no prefix of an answer is passed on, whatever dies when.
WholeAnswers == run = "done" /\ result \in Message => result = said /\ codex = "ok"

\* A read leaves a process running only after it could not decode what Codex
\* printed, and then from a wrapper; and a temporary directory only with such a
\* process, or when the service ended in the middle of a read.
NothingLeftBehind ==
    /\ leftBehind \subseteq {"codex_protocol_error", "response_too_large"}
    /\ run = "idle" /\ directory => died \/ leftBehind # {}

\* As long as Codex itself goes on, the provider gets through: a read returns,
\* whatever fills up, fails to decode or is killed on the way, and each frame
\* that waited for it is served, refused as too old, or gone with its connection.
WorkIsDone ==
    CodexEnds => (run # "idle" \/ inbox # <<>> ~> run = "idle" /\ inbox = <<>>)

\* A canceled read returns even if Codex hangs, unless Codex is wrapped.
CancelEndsRead == canceled /\ run # "idle" ~> run = "idle" \/ wrapped
=============================================================================

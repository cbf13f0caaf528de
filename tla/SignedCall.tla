----------------------------- MODULE SignedCall -----------------------------
(***************************************************************************)
(* A signed call of a member to its Project Host: the client signs it once *)
(* and posts the same bytes to one endpoint after another until one of     *)
(* them answers (Client.RPC); the host checks the signing time, lets each  *)
(* nonce in once, and runs the operation (Server.handleRPC, authenticate,  *)
(* replayGuard.Accept).                                                    *)
(*                                                                         *)
(* Time is a tick count of the host's clock; a client's clock is ahead of  *)
(* it or behind it by a fixed number of ticks.                             *)
(***************************************************************************)
EXTENDS Integers, Sequences

CONSTANTS
    Call,        \* signed messages; each carries a nonce of its own
    Handler,     \* HTTP handlers of the host
    MaxAge,      \* DefaultSignatureMaxAge
    MaxSkew,     \* how far a client's clock may be off the host's
    MaxLag,      \* ticks between a handler's reading of the clock and its turn at the guard
    MaxPosts,    \* bound: posts of one call, over all endpoints of both attempts
    MaxClock,    \* bound: ticks
    MaxRestarts, \* bound: restarts of the host process
    None

\* The window of the guard is wide enough for the clocks of the clients and
\* the scheduling of the host: the code allows for MaxAge in each direction.
CallAssumption ==
    /\ MaxAge \in Nat /\ MaxSkew \in Nat /\ MaxLag \in Nat
    /\ MaxPosts \in Nat /\ MaxClock \in Nat /\ MaxRestarts \in Nat
    /\ MaxSkew + MaxLag <= MaxAge
    /\ None \notin Int
    /\ None \notin [step : {"verified", "admitted"}, call : Call, post : 1..MaxPosts, now : Int]

ASSUME CallAssumption

VARIABLES
    clock,      \* the host's clock
    skew,       \* how far the clock of a call's client is ahead
    stamp,      \* the signing time a call carries
    client,     \* idle, next (about to post), waiting or done
    tries,      \* posts of a call so far; the client waits for the last one
    outcome,    \* what Client.RPC returned for a call
    requests,   \* posts on their way to the host
    responses,  \* responses on their way back
    handler,    \* what a handler is working on
    seen,       \* replayGuard.seen
    runs,       \* times this host process has run a call
    taken,      \* history: calls the guard has ever let in
    done,       \* history: calls ever run
    restarts

clientVars == <<skew, stamp, client, tries, outcome>>
hostVars == <<handler, seen, runs, taken, done>>
vars == <<clock, clientVars, requests, responses, hostVars, restarts>>

Post == [call : Call, post : 1..MaxPosts]
Response == [call : Call, post : 1..MaxPosts, kind : {"ok", "replayed", "clock_skew"}, at : Int]
Work == [step : {"verified", "admitted"}, call : Call, post : 1..MaxPosts, now : Int]

TypeOK ==
    /\ clock \in 0..MaxClock
    /\ skew \in [Call -> -MaxSkew..MaxSkew]
    /\ stamp \in [Call -> Int]
    /\ client \in [Call -> {"idle", "next", "waiting", "done"}]
    /\ tries \in [Call -> 0..MaxPosts]
    /\ outcome \in [Call -> {"none", "ok", "replayed", "clock_skew", "offline"}]
    /\ requests \in SUBSET Post
    /\ responses \in SUBSET Response
    /\ handler \in [Handler -> Work \cup {None}]
    /\ seen \in [Call -> Int \cup {None}]
    /\ runs \in [Call -> Nat]
    /\ taken \in SUBSET Call
    /\ done \in SUBSET Call
    /\ restarts \in 0..MaxRestarts

Init ==
    /\ clock = 0
    /\ skew = [m \in Call |-> 0]
    /\ stamp = [m \in Call |-> 0]
    /\ client = [m \in Call |-> "idle"]
    /\ tries = [m \in Call |-> 0]
    /\ outcome = [m \in Call |-> "none"]
    /\ requests = {}
    /\ responses = {}
    /\ handler = [h \in Handler |-> None]
    /\ seen = [m \in Call |-> None]
    /\ runs = [m \in Call |-> 0]
    /\ taken = {}
    /\ done = {}
    /\ restarts = 0

\* Time passes, but no handler takes longer than MaxLag from the clock to the
\* guard.
Tick ==
    /\ clock < MaxClock
    /\ \A h \in Handler :
         handler[h] # None /\ handler[h].step = "verified" => clock < handler[h].now + MaxLag
    /\ clock' = clock + 1
    /\ UNCHANGED <<clientVars, requests, responses, hostVars, restarts>>

-----------------------------------------------------------------------------
(* Client.RPC                                                              *)

\* A signing time or a response is accepted within MaxAge of the local clock,
\* on either side (SignedMessage.Verify).
Fresh(now, at) == now - at <= MaxAge /\ at - now <= MaxAge

\* The client signs the call, once for all the posts to come.
Sign(m) ==
    /\ client[m] = "idle"
    /\ client' = [client EXCEPT ![m] = "next"]
    /\ \E s \in -MaxSkew..MaxSkew :
         /\ skew' = [skew EXCEPT ![m] = s]
         /\ stamp' = [stamp EXCEPT ![m] = clock + s]
    /\ UNCHANGED <<clock, tries, outcome, requests, responses, hostVars, restarts>>

\* Fault: the client starts over when no endpoint is left.
PostCall_StartsOver(m) ==
    /\ client[m] = "next"
    /\ client' = [client EXCEPT ![m] = "waiting"]
    /\ tries' = [tries EXCEPT ![m] = @ + 1]
    /\ requests' = requests \cup {[call |-> m, post |-> tries[m] + 1]}
    /\ UNCHANGED <<clock, skew, stamp, outcome, responses, hostVars, restarts>>

\* It posts the signed bytes to the next endpoint.
PostCall(m) ==
    /\ client[m] = "next" /\ tries[m] < MaxPosts
    /\ client' = [client EXCEPT ![m] = "waiting"]
    /\ tries' = [tries EXCEPT ![m] = @ + 1]
    /\ requests' = requests \cup {[call |-> m, post |-> tries[m] + 1]}
    /\ UNCHANGED <<clock, skew, stamp, outcome, responses, hostVars, restarts>>

\* The post fails, or its response is lost or too late: on to the next
\* endpoint, with the same bytes.
PostFails(m) ==
    /\ client[m] = "waiting"
    /\ client' = [client EXCEPT ![m] = "next"]
    /\ UNCHANGED <<clock, skew, stamp, tries, outcome, requests, responses, hostVars, restarts>>

\* No endpoint is left, those of the rediscovered host included.
GiveUp(m) ==
    /\ client[m] = "next"
    /\ client' = [client EXCEPT ![m] = "done"]
    /\ outcome' = [outcome EXCEPT ![m] = "offline"]
    /\ UNCHANGED <<clock, skew, stamp, tries, requests, responses, hostVars, restarts>>

\* A response to the post the client waits for ends the call, whatever it
\* says; one that looks too old or too new counts as a clock skew.
TakeResponse(m) ==
    /\ client[m] = "waiting"
    /\ \E r \in responses :
         /\ r.call = m /\ r.post = tries[m]
         /\ responses' = responses \ {r}
         /\ outcome' = [outcome EXCEPT ![m] =
                          IF Fresh(clock + skew[m], r.at) THEN r.kind ELSE "clock_skew"]
    /\ client' = [client EXCEPT ![m] = "done"]
    /\ UNCHANGED <<clock, skew, stamp, tries, requests, hostVars, restarts>>

-----------------------------------------------------------------------------
(* The host                                                                *)

Answer(p, kind) ==
    responses' = responses \cup {[call |-> p.call, post |-> p.post, kind |-> kind, at |-> clock]}

\* Server.authenticate reads the clock and verifies the message.
Authenticate(h) ==
    /\ handler[h] = None
    /\ \E p \in requests :
         /\ requests' = requests \ {p}
         /\ \/ /\ Fresh(clock, stamp[p.call])
               /\ handler' = [handler EXCEPT ![h] =
                     [step |-> "verified", call |-> p.call, post |-> p.post, now |-> clock]]
               /\ UNCHANGED responses
            \/ ~Fresh(clock, stamp[p.call]) /\ Answer(p, "clock_skew") /\ UNCHANGED handler
    /\ UNCHANGED <<clock, clientVars, seen, runs, taken, done, restarts>>

\* What the guard still remembers at a time, entries of up to age ticks.
Remembered(now, age) ==
    [m \in Call |-> IF seen[m] # None /\ now - seen[m] > age THEN None ELSE seen[m]]

\* What the guard does with the call of handler h, given what it remembers
\* and whether that holds the call.
AdmitWith(h, kept, known, refusal) ==
    LET w == handler[h] IN
    /\ w # None /\ w.step = "verified"
    /\ \/ /\ known
          /\ seen' = kept
          /\ Answer(w, refusal)
          /\ handler' = [handler EXCEPT ![h] = None]
          /\ UNCHANGED taken
       \/ /\ ~known
          /\ seen' = [kept EXCEPT ![w.call] = w.now]
          /\ handler' = [handler EXCEPT ![h] = [w EXCEPT !.step = "admitted"]]
          /\ taken' = taken \cup {w.call}
          /\ UNCHANGED responses
    /\ UNCHANGED <<clock, clientVars, requests, runs, done, restarts>>

\* Fault: entries are forgotten after MaxAge.
Admit_ShortWindow(h) ==
    LET w == handler[h]
        kept == Remembered(w.now, MaxAge)
    IN  w # None /\ AdmitWith(h, kept, kept[w.call] # None, "replayed")

\* Fault: the key of an entry lacks the nonce.
Admit_NoNonce(h) ==
    LET w == handler[h]
        kept == Remembered(w.now, 2 * MaxAge)
    IN  w # None /\ AdmitWith(h, kept, \E m \in Call : kept[m] # None, "replayed")

\* replayGuard.Accept under its mutex: it forgets what is older than twice
\* MaxAge at the handler's reading of the clock, then lets the call in unless
\* it remembers its nonce.
Admit(h) ==
    LET w == handler[h]
        kept == Remembered(w.now, 2 * MaxAge)
    IN  w # None /\ AdmitWith(h, kept, kept[w.call] # None, "replayed")

\* Server.dispatchRPC runs the operation and the response is written.
Operate(h) ==
    LET w == handler[h] IN
    /\ w # None /\ w.step = "admitted"
    /\ runs' = [runs EXCEPT ![w.call] = @ + 1]
    /\ done' = done \cup {w.call}
    /\ Answer(w, "ok")
    /\ handler' = [handler EXCEPT ![h] = None]
    /\ UNCHANGED <<clock, clientVars, requests, seen, taken, restarts>>

\* The host process dies, with its guard and its connections, and starts again.
Restart ==
    /\ restarts < MaxRestarts
    /\ restarts' = restarts + 1
    /\ handler' = [h \in Handler |-> None]
    /\ seen' = [m \in Call |-> None]
    /\ runs' = [m \in Call |-> 0]
    /\ requests' = {}
    /\ UNCHANGED <<clock, clientVars, responses, taken, done>>

-----------------------------------------------------------------------------

Next ==
    \/ Tick
    \/ \E m \in Call : Sign(m) \/ PostCall(m) \/ PostFails(m) \/ GiveUp(m) \/ TakeResponse(m)
    \/ \E h \in Handler : Authenticate(h) \/ Admit(h) \/ Operate(h)
    \/ Restart

Spec == Init /\ [][Next]_vars

-----------------------------------------------------------------------------

\* However often its client posts a call, and however its handlers overlap,
\* one host process runs it at most once: an entry the guard forgets belongs
\* to a message the time check refuses by then.
RunOncePerProcess == \A m \in Call : runs[m] <= 1

\* What a client is told about its call is true, over lost responses, repeated
\* posts and restarts: a success was run, and request_replayed is never a false
\* alarm, since the host had let an earlier post of the same call in.
OutcomesAreTrue ==
    \A m \in Call : /\ outcome[m] = "ok" => m \in done
                    /\ outcome[m] = "replayed" => m \in taken
=============================================================================

-------------------------- MODULE SignedCallProofs --------------------------
(***************************************************************************)
(* Proofs about SignedCall, for any number of calls, posts and handlers    *)
(* and any MaxAge, as long as MaxSkew + MaxLag <= MaxAge.                  *)
(***************************************************************************)
EXTENDS SignedCall, TLAPS

USE CallAssumption DEF CallAssumption

Admitted(h) == handler[h] # None /\ handler[h].step = "admitted"

LEMMA WorkFacts ==
    /\ None \notin Work
    /\ \A w \in Work : [w EXCEPT !.step = "admitted"] \in Work
  BY DEF Work

LEMMA AnswerType ==
    ASSUME TypeOK, NEW p, p.call \in Call, p.post \in 1..MaxPosts,
           NEW kind \in {"ok", "replayed", "clock_skew"}, Answer(p, kind)
    PROVE  responses' \in SUBSET Response
  BY DEF TypeOK, Answer, Response

LEMMA ClientTypeStep ==
    ASSUME TypeOK, NEW m \in Call,
           Sign(m) \/ PostCall(m) \/ PostFails(m) \/ GiveUp(m) \/ TakeResponse(m)
    PROVE  TypeOK'
<1>1. CASE Sign(m)
  <2>1. PICK s \in -MaxSkew..MaxSkew : skew' = [skew EXCEPT ![m] = s]
                                       /\ stamp' = [stamp EXCEPT ![m] = clock + s]
    BY <1>1 DEF Sign
  <2>. QED BY <1>1, <2>1 DEF Sign, TypeOK, hostVars
<1>2. CASE PostCall(m)
  <2>1. tries[m] + 1 \in 1..MaxPosts
    BY <1>2 DEF PostCall, TypeOK
  <2>. QED BY <1>2, <2>1 DEF PostCall, TypeOK, Post, hostVars
<1>3. CASE PostFails(m) \/ GiveUp(m)
  BY <1>3 DEF PostFails, GiveUp, TypeOK, hostVars
<1>4. CASE TakeResponse(m)
  <2>1. PICK r \in responses :
           /\ responses' = responses \ {r}
           /\ outcome' = [outcome EXCEPT ![m] =
                            IF Fresh(clock + skew[m], r.at) THEN r.kind ELSE "clock_skew"]
    BY <1>4 DEF TakeResponse
  <2>2. r.kind \in {"ok", "replayed", "clock_skew"}
    BY DEF TypeOK, Response
  <2>. QED BY <1>4, <2>1, <2>2 DEF TakeResponse, TypeOK, hostVars
<1>. QED BY <1>1, <1>2, <1>3, <1>4

LEMMA HostTypeStep ==
    ASSUME TypeOK, NEW h \in Handler, Authenticate(h) \/ Admit(h) \/ Operate(h)
    PROVE  TypeOK'
<1>1. CASE Authenticate(h)
  <2>1. PICK p \in requests :
           /\ requests' = requests \ {p}
           /\ \/ /\ handler' = [handler EXCEPT ![h] =
                       [step |-> "verified", call |-> p.call, post |-> p.post, now |-> clock]]
                 /\ UNCHANGED responses
              \/ Answer(p, "clock_skew") /\ UNCHANGED handler
    BY <1>1 DEF Authenticate
  <2>2. p.call \in Call /\ p.post \in 1..MaxPosts
    BY DEF TypeOK, Post
  <2>3. responses' \in SUBSET Response
    BY <2>1, <2>2, AnswerType DEF TypeOK
  <2>4. handler' \in [Handler -> Work \cup {None}]
    BY <2>1, <2>2 DEF TypeOK, Work
  <2>. QED BY <1>1, <2>1, <2>3, <2>4 DEF Authenticate, TypeOK, clientVars
<1>2. CASE Admit(h)
  <2> DEFINE w == handler[h]
             kept == Remembered(w.now, 2 * MaxAge)
  <2>1. w \in Work /\ AdmitWith(h, kept, kept[w.call] # None, "replayed")
    BY <1>2 DEF Admit, TypeOK
  <2>2. w.call \in Call /\ w.post \in 1..MaxPosts /\ w.now \in Int
    BY <2>1 DEF Work
  <2>3. kept \in [Call -> Int \cup {None}]
    BY DEF Remembered, TypeOK
  <2>4. responses' \in SUBSET Response
    BY <2>1, <2>2, AnswerType DEF AdmitWith, TypeOK
  <2>5. handler' \in [Handler -> Work \cup {None}]
    BY <2>1, WorkFacts DEF AdmitWith, TypeOK
  <2>6. seen' \in [Call -> Int \cup {None}] /\ taken' \in SUBSET Call
    BY <2>1, <2>2, <2>3 DEF AdmitWith, TypeOK
  <2>. QED BY <2>1, <2>4, <2>5, <2>6 DEF AdmitWith, TypeOK, clientVars
<1>3. CASE Operate(h)
  <2>1. handler[h] \in Work
    BY <1>3 DEF Operate, TypeOK
  <2>2. handler[h].call \in Call /\ handler[h].post \in 1..MaxPosts
    BY <2>1 DEF Work
  <2>3. responses' \in SUBSET Response
    BY <1>3, <2>2, AnswerType DEF Operate
  <2>. QED BY <1>3, <2>2, <2>3 DEF Operate, TypeOK, clientVars
<1>. QED BY <1>1, <1>2, <1>3

LEMMA TypeStep == TypeOK /\ [Next]_vars => TypeOK'
<1> SUFFICES ASSUME TypeOK, [Next]_vars PROVE TypeOK'
  OBVIOUS
<1>1. CASE Tick
  BY <1>1 DEF Tick, TypeOK, clientVars, hostVars
<1>2. CASE Restart
  BY <1>2 DEF Restart, TypeOK, clientVars
<1>3. CASE UNCHANGED vars
  BY <1>3 DEF TypeOK, vars, clientVars, hostVars
<1>. QED BY <1>1, <1>2, <1>3, ClientTypeStep, HostTypeStep DEF Next

\* The types hold in every reachable state.
THEOREM TypeInvariant == Spec => []TypeOK
<1>1. Init => TypeOK
  BY DEF Init, TypeOK
<1>. QED BY <1>1, TypeStep, PTL DEF Spec

-----------------------------------------------------------------------------
(* The guard: an entry is only forgotten when the call is too old for any  *)
(* handler that has read, or will read, the clock.                         *)

\* Only calls that were signed are on their way or in a handler, and a
\* handler's reading of the clock is recent and fits the signing time.
TimeInv ==
    /\ \A p \in requests : client[p.call] # "idle"
    /\ \A m \in Call : client[m] # "idle" => stamp[m] <= clock + MaxSkew
    /\ \A m \in Call : client[m] = "idle" => seen[m] = None /\ runs[m] = 0
    /\ \A m \in Call : seen[m] # None => stamp[m] <= seen[m] + MaxSkew
    /\ \A h \in Handler : handler[h] # None =>
         LET w == handler[h] IN
         /\ client[w.call] # "idle"
         /\ stamp[w.call] <= w.now + MaxSkew
         /\ w.now <= stamp[w.call] + MaxAge
         /\ w.step = "verified" => clock <= w.now + MaxLag
         /\ w.now <= clock

\* A call that was let in is remembered until it is too old.
GuardInv ==
    /\ \A m \in Call : runs[m] <= 1
    /\ \A h \in Handler : Admitted(h) => runs[handler[h].call] = 0
    /\ \A g, h \in Handler :
         Admitted(g) /\ Admitted(h) /\ handler[g].call = handler[h].call => g = h
    /\ \A m \in Call : runs[m] # 0 /\ seen[m] = None => clock > stamp[m] + MaxAge + MaxLag
    /\ \A h \in Handler : Admitted(h) /\ seen[handler[h].call] = None =>
         clock > stamp[handler[h].call] + MaxAge + MaxLag

CallInv == TypeOK /\ TimeInv /\ GuardInv

\* The facts about types the steps below rest on.
LEMMA CallTypes ==
    ASSUME TypeOK
    PROVE  /\ clock \in Int /\ stamp \in [Call -> Int]
           /\ client \in [Call -> {"idle", "next", "waiting", "done"}]
           /\ seen \in [Call -> Int \cup {None}]
           /\ runs \in [Call -> Nat]
           /\ handler \in [Handler -> Work \cup {None}]
           /\ \A p \in requests : p.call \in Call
           /\ \A h \in Handler : handler[h] # None =>
                 handler[h].call \in Call /\ handler[h].now \in Int
                 /\ handler[h].step \in {"verified", "admitted"}
  BY DEF TypeOK, Work, Post

LEMMA ClientGuardStep ==
    ASSUME CallInv, NEW m \in Call,
           Sign(m) \/ PostCall(m) \/ PostFails(m) \/ GiveUp(m) \/ TakeResponse(m)
    PROVE  TimeInv' /\ GuardInv'
<1>a. TypeOK /\ TimeInv /\ GuardInv
  BY DEF CallInv
<1>1. CASE Sign(m)
  <2>1. PICK s \in -MaxSkew..MaxSkew : stamp' = [stamp EXCEPT ![m] = clock + s]
    BY <1>1 DEF Sign
  <2>2. /\ client[m] = "idle" /\ client' = [client EXCEPT ![m] = "next"]
        /\ UNCHANGED <<clock, requests, handler, seen, runs>>
    BY <1>1 DEF Sign, hostVars
  <2>3. seen[m] = None /\ runs[m] = 0
        /\ \A h \in Handler : handler[h] # None => handler[h].call # m
    BY <1>a, <2>2 DEF TimeInv
  <2>4. TimeInv'
    BY <1>a, <2>1, <2>2, <2>3, CallTypes DEF TimeInv
  <2>5. GuardInv'
    BY <1>a, <2>1, <2>2, <2>3, CallTypes DEF GuardInv, Admitted
  <2>. QED BY <2>4, <2>5
<1>2. CASE PostCall(m)
  <2>1. /\ client[m] # "idle" /\ client' = [client EXCEPT ![m] = "waiting"]
        /\ requests' = requests \cup {[call |-> m, post |-> tries[m] + 1]}
        /\ UNCHANGED <<clock, stamp, handler, seen, runs>>
    BY <1>2 DEF PostCall, hostVars
  <2>. QED BY <1>a, <2>1, CallTypes DEF TimeInv, GuardInv, Admitted
<1>3. CASE PostFails(m) \/ GiveUp(m) \/ TakeResponse(m)
  <2>1. /\ client[m] # "idle" /\ \E s \in {"next", "done"} : client' = [client EXCEPT ![m] = s]
        /\ UNCHANGED <<clock, stamp, requests, handler, seen, runs>>
    BY <1>3 DEF PostFails, GiveUp, TakeResponse, hostVars
  <2>. QED BY <1>a, <2>1, CallTypes DEF TimeInv, GuardInv, Admitted
<1>. QED BY <1>1, <1>2, <1>3

LEMMA AuthenticateGuardStep ==
    ASSUME CallInv, NEW h \in Handler, Authenticate(h)
    PROVE  TimeInv' /\ GuardInv'
<1>a. TypeOK /\ TimeInv /\ GuardInv
  BY DEF CallInv
<1>1. PICK p \in requests :
         /\ requests' = requests \ {p}
         /\ \/ /\ Fresh(clock, stamp[p.call])
               /\ handler' = [handler EXCEPT ![h] =
                     [step |-> "verified", call |-> p.call, post |-> p.post, now |-> clock]]
            \/ UNCHANGED handler
  BY DEF Authenticate
<1>2. UNCHANGED <<clock, stamp, client, seen, runs>> /\ handler[h] = None
  BY DEF Authenticate, clientVars
<1>3. CASE UNCHANGED handler
  BY <1>a, <1>1, <1>2, <1>3, CallTypes DEF TimeInv, GuardInv, Admitted
<1>4. CASE /\ Fresh(clock, stamp[p.call])
           /\ handler' = [handler EXCEPT ![h] =
                 [step |-> "verified", call |-> p.call, post |-> p.post, now |-> clock]]
  <2>1. client[p.call] # "idle" /\ stamp[p.call] <= clock + MaxSkew /\ p.call \in Call
    BY <1>a, CallTypes DEF TimeInv
  <2>2. clock <= stamp[p.call] + MaxAge
    BY <1>a, <1>4, <2>1, CallTypes DEF Fresh
  <2>3. ~Admitted(h)' /\ \A g \in Handler \ {h} : handler'[g] = handler[g]
    BY <1>a, <1>4, CallTypes DEF Admitted
  <2>4. TimeInv'
    BY <1>a, <1>1, <1>2, <1>4, <2>1, <2>2, CallTypes DEF TimeInv
  <2>5. GuardInv'
    BY <1>a, <1>2, <2>3, CallTypes DEF GuardInv, Admitted
  <2>. QED BY <2>4, <2>5
<1>. QED BY <1>1, <1>3, <1>4

\* An entry that is pruned belongs to a call too old for every handler.
LEMMA PrunedIsOld ==
    ASSUME CallInv, NEW h \in Handler, handler[h] # None, NEW m \in Call,
           seen[m] # None, handler[h].now - seen[m] > 2 * MaxAge
    PROVE  clock > stamp[m] + MaxAge + MaxLag
<1>1. /\ handler[h].now <= clock /\ handler[h].now \in Int /\ clock \in Int
      /\ stamp[m] <= seen[m] + MaxSkew /\ stamp[m] \in Int /\ seen[m] \in Int
  BY CallTypes DEF CallInv, TimeInv
<1>. QED BY <1>1

LEMMA AdmitGuardStep ==
    ASSUME CallInv, NEW h \in Handler, Admit(h)
    PROVE  TimeInv' /\ GuardInv'
<1> DEFINE w == handler[h]
           kept == Remembered(w.now, 2 * MaxAge)
<1>a. TypeOK /\ TimeInv /\ GuardInv
  BY DEF CallInv
<1>1. /\ w # None /\ w.step = "verified" /\ w.call \in Call /\ w.now \in Int
      /\ UNCHANGED <<clock, stamp, client, requests, runs>>
  BY <1>a, CallTypes DEF Admit, AdmitWith, clientVars
<1>2. /\ kept \in [Call -> Int \cup {None}]
      /\ \A m \in Call : \/ kept[m] = seen[m]
                         \/ (kept[m] = None /\ clock > stamp[m] + MaxAge + MaxLag)
  <2>1. ASSUME NEW m \in Call, seen[m] # None, w.now - seen[m] > 2 * MaxAge
        PROVE  clock > stamp[m] + MaxAge + MaxLag
    BY <1>1, <2>1, PrunedIsOld
  <2>2. seen \in [Call -> Int \cup {None}]
    BY <1>a, CallTypes
  <2>3. kept = [m \in Call |-> IF seen[m] # None /\ w.now - seen[m] > 2 * MaxAge
                                THEN None ELSE seen[m]]
    BY DEF Remembered
  <2> HIDE DEF kept
  <2>4. kept \in [Call -> Int \cup {None}]
    BY <2>2, <2>3
  <2>5. ASSUME NEW m \in Call
        PROVE  \/ kept[m] = seen[m]
               \/ (kept[m] = None /\ clock > stamp[m] + MaxAge + MaxLag)
    <3>1. kept[m] = IF seen[m] # None /\ w.now - seen[m] > 2 * MaxAge THEN None ELSE seen[m]
      BY <2>3
    <3>. QED BY <2>1, <3>1
  <2>. QED BY <2>4, <2>5
<1>3. \/ seen' = kept /\ handler' = [handler EXCEPT ![h] = None]
      \/ /\ kept[w.call] = None
         /\ seen' = [kept EXCEPT ![w.call] = w.now]
         /\ handler' = [handler EXCEPT ![h] = [w EXCEPT !.step = "admitted"]]
  BY DEF Admit, AdmitWith
<1>4. CASE seen' = kept /\ handler' = [handler EXCEPT ![h] = None]
  <2>1. TimeInv'
    BY <1>a, <1>1, <1>2, <1>4, CallTypes DEF TimeInv
  <2>2. \A g \in Handler : Admitted(g)' => Admitted(g) /\ handler'[g] = handler[g]
    BY <1>a, <1>4, CallTypes DEF Admitted
  <2>3. ASSUME NEW g \in Handler, Admitted(g)'
        PROVE  /\ runs'[handler'[g].call] = 0
               /\ seen'[handler'[g].call] = None =>
                    clock' > stamp'[handler'[g].call] + MaxAge + MaxLag
    <3>1. Admitted(g) /\ handler'[g] = handler[g] /\ handler[g].call \in Call
      BY <1>a, <2>2, <2>3, CallTypes DEF Admitted
    <3>. QED BY <1>a, <1>1, <1>2, <1>4, <3>1 DEF GuardInv
  <2>4. \A f, g \in Handler :
          Admitted(f)' /\ Admitted(g)' /\ handler'[f].call = handler'[g].call => f = g
    BY <1>a, <2>2 DEF GuardInv
  <2>5. \A m \in Call : runs'[m] # 0 /\ seen'[m] = None => clock' > stamp'[m] + MaxAge + MaxLag
    BY <1>a, <1>1, <1>2, <1>4 DEF GuardInv
  <2>6. \A m \in Call : runs'[m] <= 1
    BY <1>a, <1>1 DEF GuardInv
  <2>7. GuardInv'
    BY <2>3, <2>4, <2>5, <2>6 DEF GuardInv
  <2>. QED BY <2>1, <2>7
<1>5. CASE /\ kept[w.call] = None
           /\ seen' = [kept EXCEPT ![w.call] = w.now]
           /\ handler' = [handler EXCEPT ![h] = [w EXCEPT !.step = "admitted"]]
  <2>1. /\ clock <= w.now + MaxLag /\ w.now <= stamp[w.call] + MaxAge
        /\ stamp[w.call] <= w.now + MaxSkew /\ client[w.call] # "idle"
        /\ clock \in Int /\ stamp[w.call] \in Int
    BY <1>a, <1>1, CallTypes DEF TimeInv
  <2>2. ~(clock > stamp[w.call] + MaxAge + MaxLag)
    BY <1>1, <2>1
  <2>3. seen[w.call] = None
    BY <1>1, <1>2, <1>5, <2>2
  <2>4. /\ runs[w.call] = 0
        /\ \A g \in Handler : Admitted(g) => handler[g].call # w.call
    BY <1>a, <1>1, <2>2, <2>3, CallTypes DEF GuardInv
  <2>5. /\ handler'[h] = [w EXCEPT !.step = "admitted"]
        /\ handler'[h].call = w.call /\ handler'[h].now = w.now /\ handler'[h].step = "admitted"
        /\ \A g \in Handler \ {h} : handler'[g] = handler[g]
    BY <1>a, <1>1, <1>5, CallTypes DEF Work
  <2>6. TimeInv'
    BY <1>a, <1>1, <1>2, <1>5, <2>1, <2>5, CallTypes DEF TimeInv
  <2>7. \A g \in Handler \ {h} : Admitted(g)' => Admitted(g)
    BY <2>5 DEF Admitted
  <2>8. w.now # None
    BY <1>1
  <2>9. /\ \A m \in Call : runs'[m] <= 1
        /\ \A g \in Handler : Admitted(g)' => runs'[handler'[g].call] = 0
    BY <1>a, <1>1, <2>4, <2>5, <2>7 DEF GuardInv
  <2>10. \A f, g \in Handler :
           Admitted(f)' /\ Admitted(g)' /\ handler'[f].call = handler'[g].call => f = g
    BY <1>a, <2>4, <2>5, <2>7 DEF GuardInv
  <2>11. \A m \in Call : runs'[m] # 0 /\ seen'[m] = None => clock' > stamp'[m] + MaxAge + MaxLag
    BY <1>a, <1>1, <1>2, <1>5, <2>4 DEF GuardInv
  <2>12. \A g \in Handler : Admitted(g)' /\ seen'[handler'[g].call] = None =>
           clock' > stamp'[handler'[g].call] + MaxAge + MaxLag
    <3>1. ASSUME NEW g \in Handler, Admitted(g)', seen'[handler'[g].call] = None
          PROVE  clock > stamp[handler'[g].call] + MaxAge + MaxLag
      <4>1. seen'[w.call] = w.now
        BY <1>1, <1>2, <1>5
      <4>2. g # h
        BY <3>1, <4>1, <2>5, <2>8
      <4>3. Admitted(g) /\ handler'[g] = handler[g] /\ handler[g].call \in Call
            /\ handler[g].call # w.call
        BY <1>a, <3>1, <4>2, <2>4, <2>5, <2>7, CallTypes DEF Admitted
      <4>4. kept[handler[g].call] = None
        BY <1>1, <1>2, <1>5, <3>1, <4>3
      <4>. QED BY <1>a, <1>2, <4>3, <4>4 DEF GuardInv
    <3>. QED BY <1>1, <3>1
  <2>13. GuardInv'
    BY <2>9, <2>10, <2>11, <2>12 DEF GuardInv
  <2>. QED BY <2>6, <2>13
<1>. QED BY <1>3, <1>4, <1>5

LEMMA OperateGuardStep ==
    ASSUME CallInv, NEW h \in Handler, Operate(h)
    PROVE  TimeInv' /\ GuardInv'
<1> DEFINE m == handler[h].call
<1>a. TypeOK /\ TimeInv /\ GuardInv
  BY DEF CallInv
<1>1. /\ Admitted(h) /\ m \in Call
      /\ runs' = [runs EXCEPT ![m] = runs[m] + 1]
      /\ handler' = [handler EXCEPT ![h] = None]
      /\ UNCHANGED <<clock, stamp, client, requests, seen>>
  BY <1>a, CallTypes DEF Operate, Admitted, clientVars
<1>2. runs[m] = 0 /\ client[m] # "idle"
      /\ (seen[m] = None => clock > stamp[m] + MaxAge + MaxLag)
  BY <1>a, <1>1 DEF GuardInv, TimeInv, Admitted
<1>3. \A g \in Handler : Admitted(g)' =>
        Admitted(g) /\ handler'[g] = handler[g] /\ handler[g].call # m
  BY <1>a, <1>1, CallTypes DEF Admitted, GuardInv
<1>4. TimeInv'
  BY <1>a, <1>1, <1>2, CallTypes DEF TimeInv
<1>5. /\ \A c \in Call : runs'[c] <= 1
      /\ \A c \in Call : runs'[c] # 0 /\ seen'[c] = None => clock' > stamp'[c] + MaxAge + MaxLag
  BY <1>a, <1>1, <1>2, CallTypes DEF GuardInv
<1>6. \A g \in Handler : Admitted(g)' =>
        /\ runs'[handler'[g].call] = 0
        /\ seen'[handler'[g].call] = None => clock' > stamp'[handler'[g].call] + MaxAge + MaxLag
  BY <1>a, <1>1, <1>3, CallTypes DEF GuardInv
<1>7. \A f, g \in Handler :
        Admitted(f)' /\ Admitted(g)' /\ handler'[f].call = handler'[g].call => f = g
  BY <1>a, <1>3 DEF GuardInv
<1>. QED BY <1>4, <1>5, <1>6, <1>7 DEF GuardInv

LEMMA CallInvStep == CallInv /\ [Next]_vars => CallInv'
<1> SUFFICES ASSUME CallInv, [Next]_vars PROVE TimeInv' /\ GuardInv'
  BY TypeStep DEF CallInv
<1>a. TypeOK /\ TimeInv /\ GuardInv
  BY DEF CallInv
<1>1. CASE Tick
  <2>1. /\ clock' = clock + 1 /\ UNCHANGED <<stamp, client, requests, handler, seen, runs>>
        /\ \A h \in Handler : handler[h] # None /\ handler[h].step = "verified" =>
             clock < handler[h].now + MaxLag
    BY <1>1 DEF Tick, clientVars, hostVars
  <2>2. TimeInv'
    BY <1>a, <2>1, CallTypes DEF TimeInv
  <2>3. GuardInv'
    BY <1>a, <2>1, CallTypes DEF GuardInv, Admitted
  <2>. QED BY <2>2, <2>3
<1>2. CASE Restart
  BY <1>a, <1>2 DEF Restart, TimeInv, GuardInv, Admitted, clientVars
<1>3. CASE UNCHANGED vars
  BY <1>a, <1>3 DEF vars, clientVars, hostVars, TimeInv, GuardInv, Admitted
<1>. QED
  BY <1>1, <1>2, <1>3, ClientGuardStep, AuthenticateGuardStep, AdmitGuardStep, OperateGuardStep
     DEF Next

\* One host process runs a signed call at most once, although its client may
\* post it to every endpoint and the guard forgets entries as time passes.
THEOREM RunsOncePerProcess == Spec => []RunOncePerProcess
<1>1. Init => CallInv
  BY DEF Init, CallInv, TypeOK, TimeInv, GuardInv, Admitted
<1>2. CallInv => RunOncePerProcess
  BY DEF CallInv, GuardInv, RunOncePerProcess
<1>. QED BY <1>1, <1>2, CallInvStep, PTL DEF Spec

-----------------------------------------------------------------------------
(* Outcomes: a response, and what the client makes of it, tells the truth  *)
(* about what the host did.                                                *)

OutcomeInv ==
    /\ \A r \in responses : /\ r.kind = "ok" => r.call \in done
                            /\ r.kind = "replayed" => r.call \in taken
    /\ \A m \in Call : seen[m] # None => m \in taken
    /\ OutcomesAreTrue

LEMMA OutcomeStep == TypeOK /\ OutcomeInv /\ [Next]_vars => OutcomeInv'
<1> SUFFICES ASSUME TypeOK, OutcomeInv, [Next]_vars PROVE OutcomeInv'
  OBVIOUS
<1>1. ASSUME NEW m \in Call, TakeResponse(m) PROVE OutcomeInv'
  <2>1. PICK r \in responses :
           /\ r.call = m /\ responses' = responses \ {r}
           /\ outcome' = [outcome EXCEPT ![m] =
                            IF Fresh(clock + skew[m], r.at) THEN r.kind ELSE "clock_skew"]
    BY <1>1 DEF TakeResponse
  <2>2. UNCHANGED <<seen, taken, done>> /\ outcome \in [Call -> {"none", "ok", "replayed", "clock_skew", "offline"}]
    BY <1>1 DEF TakeResponse, hostVars, TypeOK
  <2>. QED BY <2>1, <2>2 DEF OutcomeInv, OutcomesAreTrue
<1>2. ASSUME NEW m \in Call, Sign(m) \/ PostCall(m) \/ PostFails(m) PROVE OutcomeInv'
  BY <1>2 DEF Sign, PostCall, PostFails, hostVars, OutcomeInv, OutcomesAreTrue
<1>3. ASSUME NEW m \in Call, GiveUp(m) PROVE OutcomeInv'
  BY <1>3 DEF GiveUp, hostVars, TypeOK, OutcomeInv, OutcomesAreTrue
<1>4. ASSUME NEW h \in Handler, Authenticate(h) PROVE OutcomeInv'
  <2>1. /\ UNCHANGED <<outcome, seen, taken, done>>
        /\ \A r \in responses' : r \in responses \/ r.kind = "clock_skew"
    BY <1>4 DEF Authenticate, Answer, clientVars
  <2>. QED BY <2>1 DEF OutcomeInv, OutcomesAreTrue
<1>5. ASSUME NEW h \in Handler, Admit(h) PROVE OutcomeInv'
  <2> DEFINE w == handler[h]
             kept == Remembered(w.now, 2 * MaxAge)
  <2>1. /\ w \in Work /\ w.call \in Call
        /\ AdmitWith(h, kept, kept[w.call] # None, "replayed")
    BY <1>5 DEF Admit, TypeOK, Work
  <2>2. /\ kept \in [Call -> Int \cup {None}]
        /\ \A m \in Call : kept[m] # None => m \in taken
    BY DEF Remembered, OutcomeInv, TypeOK
  <2>3. UNCHANGED <<outcome, done>> /\ taken \subseteq taken'
    BY <2>1 DEF AdmitWith, clientVars
  <2>4. /\ \A m \in Call : seen'[m] # None => m \in taken'
        /\ \A r \in responses' : \/ r \in responses
                                 \/ r.kind = "replayed" /\ r.call \in taken'
    <3>1. CASE kept[w.call] # None /\ seen' = kept /\ Answer(w, "replayed") /\ UNCHANGED taken
      BY <3>1, <2>1, <2>2 DEF Answer
    <3>2. CASE /\ seen' = [kept EXCEPT ![w.call] = w.now]
               /\ taken' = taken \cup {w.call} /\ UNCHANGED responses
      BY <3>2, <2>1, <2>2
    <3>. QED BY <2>1, <3>1, <3>2 DEF AdmitWith
  <2>. QED BY <2>3, <2>4 DEF OutcomeInv, OutcomesAreTrue
<1>6. ASSUME NEW h \in Handler, Operate(h) PROVE OutcomeInv'
  <2>1. /\ UNCHANGED <<outcome, seen, taken>> /\ done \subseteq done'
        /\ \A r \in responses' : \/ r \in responses
                                 \/ r.kind = "ok" /\ r.call \in done'
    BY <1>6 DEF Operate, Answer, clientVars
  <2>. QED BY <2>1 DEF OutcomeInv, OutcomesAreTrue
<1>7. CASE Tick \/ Restart \/ UNCHANGED vars
  BY <1>7 DEF Tick, Restart, vars, clientVars, hostVars, OutcomeInv, OutcomesAreTrue
<1>. QED BY <1>1, <1>2, <1>3, <1>4, <1>5, <1>6, <1>7 DEF Next

\* A client that was told of success relies on an operation that ran, and one
\* that was told request_replayed got through with an earlier post, over
\* retries, lost responses and restarts.
THEOREM OutcomesAreReal == Spec => []OutcomesAreTrue
<1>1. Init => OutcomeInv
  BY DEF Init, OutcomeInv, OutcomesAreTrue
<1>2. OutcomeInv => OutcomesAreTrue
  BY DEF OutcomeInv
<1>. QED BY <1>1, <1>2, OutcomeStep, TypeInvariant, PTL DEF Spec
=============================================================================

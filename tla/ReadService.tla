----------------------------- MODULE ReadService -----------------------------
(***************************************************************************)
(* What a Project promises about reads, without connections, brokers or    *)
(* processes: a request ID names at most one accepted ask of its Project,  *)
(* an accepted ask is run at most once, it is answered only after it was   *)
(* run, and the status of its row tells how it ended.                      *)
(***************************************************************************)
CONSTANTS Ask, RequestKey, KeyOf

ServiceAssumption == KeyOf \in [Ask -> RequestKey]

VARIABLES
    status,   \* per request key: none, running, succeeded or failed
    outcome,  \* per ask: none, open, answered, failed, refused or abandoned
    ran       \* asks an Agent has run

vars == <<status, outcome, ran>>

Init ==
    /\ status = [k \in RequestKey |-> "none"]
    /\ outcome = [a \in Ask |-> "none"]
    /\ ran = {}

\* An ask takes a request ID that is still free.
Accept(a) ==
    /\ outcome[a] = "none" /\ status[KeyOf[a]] = "none"
    /\ outcome' = [outcome EXCEPT ![a] = "open"]
    /\ status' = [status EXCEPT ![KeyOf[a]] = "running"]
    /\ UNCHANGED ran

Refuse(a) ==
    /\ outcome[a] = "none"
    /\ outcome' = [outcome EXCEPT ![a] = "refused"]
    /\ UNCHANGED <<status, ran>>

\* The Agent runs an accepted ask, perhaps after the requester was told that
\* it failed.
Run(a) ==
    /\ outcome[a] \in {"open", "failed", "abandoned"} /\ a \notin ran
    /\ ran' = ran \cup {a}
    /\ UNCHANGED <<status, outcome>>

Answer(a) ==
    /\ outcome[a] = "open" /\ a \in ran
    /\ outcome' = [outcome EXCEPT ![a] = "answered"]
    /\ status' = [status EXCEPT ![KeyOf[a]] = "succeeded"]
    /\ UNCHANGED ran

Fail(a) ==
    /\ outcome[a] = "open"
    /\ outcome' = [outcome EXCEPT ![a] = "failed"]
    /\ status' = [status EXCEPT ![KeyOf[a]] = "failed"]
    /\ UNCHANGED ran

\* The host gives asks up, all at once when it dies: their rows stay as they
\* are, for ever.
GiveUp(S) ==
    /\ S # {} /\ \A a \in S : outcome[a] \in {"none", "open"}
    /\ outcome' = [a \in Ask |->
         IF a \notin S THEN outcome[a]
         ELSE IF outcome[a] = "open" THEN "abandoned" ELSE "refused"]
    /\ UNCHANGED <<status, ran>>

Next ==
    \/ \E a \in Ask : Accept(a) \/ Refuse(a) \/ Run(a) \/ Answer(a) \/ Fail(a)
    \/ \E S \in SUBSET Ask : GiveUp(S)

Spec == Init /\ [][Next]_vars

-----------------------------------------------------------------------------

TypeOK ==
    /\ status \in [RequestKey -> {"none", "running", "succeeded", "failed"}]
    /\ outcome \in [Ask -> {"none", "open", "answered", "failed", "refused", "abandoned"}]
    /\ ran \in SUBSET Ask

Taken == {"open", "answered", "failed", "abandoned"}

\* A request ID belongs to at most one accepted ask of its Project (the primary
\* key of the requests rows), whatever became of the ask.
OneAskPerKey ==
    \A a, b \in Ask :
        KeyOf[a] = KeyOf[b] /\ outcome[a] \in Taken /\ outcome[b] \in Taken => a = b

\* The status of a row tells what became of the ask that took it: only an ask
\* that was given up leaves a row that says running for ever.
StatusTellsOutcome ==
    \A a \in Ask : outcome[a] \in Taken =>
        status[KeyOf[a]] = CASE outcome[a] = "answered" -> "succeeded"
                             [] outcome[a] = "failed" -> "failed"
                             [] OTHER -> "running"
=============================================================================

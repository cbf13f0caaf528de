-------------------------- MODULE ReadServiceProofs --------------------------
(***************************************************************************)
(* Proofs about ReadService, for any number of asks and request IDs.       *)
(***************************************************************************)
EXTENDS ReadService, TLAPS

\* Every accepted ask holds a row of its own, and the row tells its outcome.
ServiceInv == ServiceAssumption /\ TypeOK /\ OneAskPerKey /\ StatusTellsOutcome

LEMMA ServiceInit == ServiceAssumption /\ Init => ServiceInv
  BY DEF Init, ServiceInv, TypeOK, OneAskPerKey, StatusTellsOutcome, Taken

\* A free request ID belongs to no accepted ask.
LEMMA FreeKey ==
    ASSUME ServiceInv, NEW a \in Ask, status[KeyOf[a]] = "none", NEW b \in Ask, KeyOf[b] = KeyOf[a]
    PROVE  outcome[b] \notin Taken
  BY DEF ServiceInv, StatusTellsOutcome

LEMMA ServiceStep == ServiceInv /\ [Next]_vars => ServiceInv'
<1> SUFFICES ASSUME ServiceInv, [Next]_vars PROVE ServiceInv'
  OBVIOUS
<1>a. /\ status \in [RequestKey -> {"none", "running", "succeeded", "failed"}]
      /\ outcome \in [Ask -> {"none", "open", "answered", "failed", "refused", "abandoned"}]
      /\ ran \in SUBSET Ask
      /\ \A a \in Ask : KeyOf[a] \in RequestKey
      /\ ServiceAssumption /\ ServiceAssumption'
  BY DEF ServiceInv, TypeOK, ServiceAssumption
<1>b. /\ \A a, b \in Ask :
           KeyOf[a] = KeyOf[b] /\ outcome[a] \in Taken /\ outcome[b] \in Taken => a = b
      /\ \A a \in Ask : outcome[a] \in Taken =>
           status[KeyOf[a]] = CASE outcome[a] = "answered" -> "succeeded"
                                [] outcome[a] = "failed" -> "failed"
                                [] OTHER -> "running"
  BY DEF ServiceInv, OneAskPerKey, StatusTellsOutcome
<1>1. ASSUME NEW a \in Ask, Accept(a) PROVE ServiceInv'
  <2>1. /\ outcome' = [outcome EXCEPT ![a] = "open"]
        /\ status' = [status EXCEPT ![KeyOf[a]] = "running"]
        /\ UNCHANGED ran
    BY <1>1 DEF Accept
  <2>2. \A b \in Ask : KeyOf[b] = KeyOf[a] => outcome[b] \notin Taken
    BY <1>1, FreeKey DEF Accept
  <2>3. \A b \in Ask \ {a} : outcome'[b] = outcome[b]
    BY <1>a, <2>1
  <2>4. outcome'[a] = "open" /\ status'[KeyOf[a]] = "running"
    BY <1>a, <2>1
  <2>5. \A b \in Ask : KeyOf[b] # KeyOf[a] => status'[KeyOf[b]] = status[KeyOf[b]]
    BY <1>a, <2>1
  <2>6. TypeOK'
    BY <1>a, <2>1 DEF TypeOK
  <2>7. OneAskPerKey'
    BY <1>a, <1>b, <2>2, <2>3, <2>4 DEF OneAskPerKey
  <2>8. StatusTellsOutcome'
    BY <1>b, <2>2, <2>3, <2>4, <2>5 DEF StatusTellsOutcome
  <2>. QED BY <2>6, <2>7, <2>8 DEF ServiceInv
<1>2. ASSUME NEW a \in Ask, Refuse(a) PROVE ServiceInv'
  <2>1. \A b \in Ask : outcome'[b] \in Taken => outcome'[b] = outcome[b]
    BY <1>2, <1>a DEF Refuse, Taken
  <2>. QED BY <1>a, <1>b, <1>2, <2>1
           DEF Refuse, ServiceInv, TypeOK, OneAskPerKey, StatusTellsOutcome
<1>3. ASSUME NEW a \in Ask, Run(a) PROVE ServiceInv'
  BY <1>a, <1>b, <1>3 DEF Run, ServiceInv, TypeOK, OneAskPerKey, StatusTellsOutcome
<1>4. ASSUME NEW a \in Ask, Answer(a) \/ Fail(a) PROVE ServiceInv'
  <2>1. outcome[a] = "open" /\ UNCHANGED ran
    BY <1>4 DEF Answer, Fail
  <2>2. PICK o \in {"answered", "failed"}, s \in {"succeeded", "failed"} :
          /\ outcome' = [outcome EXCEPT ![a] = o]
          /\ status' = [status EXCEPT ![KeyOf[a]] = s]
          /\ s = CASE o = "answered" -> "succeeded" [] OTHER -> "failed"
    BY <1>4 DEF Answer, Fail
  <2>3. \A b \in Ask \ {a} : outcome'[b] = outcome[b]
    BY <1>a, <2>2
  <2>4. outcome'[a] = o /\ status'[KeyOf[a]] = s
    BY <1>a, <2>2
  <2>5. \A b \in Ask : KeyOf[b] # KeyOf[a] => status'[KeyOf[b]] = status[KeyOf[b]]
    BY <1>a, <2>2
  <2>6. TypeOK'
    BY <1>a, <2>1, <2>2 DEF TypeOK
  <2>7. OneAskPerKey'
    BY <1>b, <2>1, <2>3 DEF OneAskPerKey, Taken
  <2>8. \A b \in Ask \ {a} : outcome[b] \in Taken => KeyOf[b] # KeyOf[a]
    BY <1>b, <2>1 DEF Taken
  <2>9. StatusTellsOutcome'
    BY <1>b, <2>2, <2>3, <2>4, <2>5, <2>8 DEF StatusTellsOutcome
  <2>. QED BY <2>6, <2>7, <2>9 DEF ServiceInv
<1>5. ASSUME NEW S \in SUBSET Ask, GiveUp(S) PROVE ServiceInv'
  <2>1. \A b \in Ask :
          \/ outcome'[b] = outcome[b]
          \/ outcome[b] = "open" /\ outcome'[b] = "abandoned"
          \/ outcome'[b] = "refused"
    BY <1>5 DEF GiveUp
  <2>2. TypeOK'
    BY <1>a, <1>5 DEF GiveUp, TypeOK
  <2>3. \A b \in Ask : outcome'[b] \in Taken => outcome[b] \in Taken
    BY <2>1 DEF Taken
  <2>4. OneAskPerKey'
    BY <1>b, <2>3 DEF OneAskPerKey
  <2>5. StatusTellsOutcome'
    <3>1. UNCHANGED status
      BY <1>5 DEF GiveUp
    <3>. QED BY <1>b, <2>1, <2>3, <3>1 DEF StatusTellsOutcome, Taken
  <2>. QED BY <2>2, <2>4, <2>5 DEF ServiceInv
<1>6. CASE UNCHANGED vars
  BY <1>6 DEF vars, ServiceInv, TypeOK, OneAskPerKey, StatusTellsOutcome
<1>. QED BY <1>1, <1>2, <1>3, <1>4, <1>5, <1>6 DEF Next

LEMMA ServiceCorrect == ServiceAssumption /\ Spec => []ServiceInv
  BY ServiceInit, ServiceStep, PTL DEF Spec

\* A request ID belongs to at most one accepted ask of its Project.
THEOREM KeysAreUnique == ServiceAssumption /\ Spec => []OneAskPerKey
<1>1. ServiceInv => OneAskPerKey
  BY DEF ServiceInv
<1>. QED BY <1>1, ServiceCorrect, PTL

\* The status of a row tells what became of the ask that took it.
THEOREM StatusIsTrue == ServiceAssumption /\ Spec => []StatusTellsOutcome
<1>1. ServiceInv => StatusTellsOutcome
  BY DEF ServiceInv
<1>. QED BY <1>1, ServiceCorrect, PTL
=============================================================================

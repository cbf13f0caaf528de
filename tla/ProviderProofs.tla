--------------------------- MODULE ProviderProofs ---------------------------
(***************************************************************************)
(* Proofs about Provider and the reads it makes, for whatever Codex may    *)
(* print, pipes of any size, and any number of requests and ticks.         *)
(***************************************************************************)
EXTENDS Provider, SequenceTheorems, WellFoundedInduction, TLAPS

-----------------------------------------------------------------------------
(* The last message of a stream.                                           *)

LEMMA HasMax ==
    ASSUME NEW n \in Nat, NEW S \in SUBSET (1..n), S # {}
    PROVE  \E i \in S : \A j \in S : j <= i
<1> DEFINE T == {n - i : i \in S}
<1>1. T \subseteq Nat
  <2>1. \A i \in S : n - i \in Nat
    OBVIOUS
  <2>. QED BY <2>1
<1>2. T # {}
  OBVIOUS
<1> HIDE DEF T
<1>3. PICK x \in T : \A y \in T : ~(<<y, x>> \in OpToRel(<, Nat))
  BY <1>1, <1>2, NatLessThanWellFounded, WFMin, Zenon
<1>4. \A y \in T : ~(y < x)
  BY <1>1, <1>3, Zenon DEF OpToRel
<1>5. PICK i \in S : x = n - i
  BY DEF T
<1>6. ASSUME NEW j \in S PROVE j <= i
  <2>1. n - j \in T /\ ~(n - j < n - i)
    BY <1>4, <1>5 DEF T
  <2>. QED BY <2>1
<1>. QED BY <1>6

\* The place of the last message of s, if there is one.
IsLast(s, i) ==
    /\ i \in 1..Len(s) /\ s[i] \in Message
    /\ \A j \in 1..Len(s) : s[j] \in Message => j <= i

LEMMA LastMessageIs ==
    ASSUME NEW s \in Seq(Event), NEW i, IsLast(s, i)
    PROVE  LastMessage(s) = s[i]
<1> DEFINE at == {j \in DOMAIN s : s[j] \in Message}
<1>1. DOMAIN s = 1..Len(s) /\ Len(s) \in Nat
  OBVIOUS
<1>2. i \in at /\ \A j \in at : j <= i
  BY <1>1 DEF IsLast
<1>3. \A k \in at : (\A j \in at : j <= k) => k = i
  BY <1>1, <1>2
<1> HIDE DEF at
<1>4. (CHOOSE k \in at : \A j \in at : j <= k) = i
  BY <1>2, <1>3
<1>. QED BY <1>2, <1>4 DEF LastMessage, at

LEMMA LastMessageNone ==
    ASSUME NEW s \in Seq(Event), \A i \in 1..Len(s) : s[i] \notin Message
    PROVE  LastMessage(s) = None
<1>1. {j \in DOMAIN s : s[j] \in Message} = {}
  OBVIOUS
<1>. QED BY <1>1 DEF LastMessage

LEMMA LastMessageCases ==
    ASSUME NEW s \in Seq(Event)
    PROVE  \/ LastMessage(s) = None /\ \A i \in 1..Len(s) : s[i] \notin Message
           \/ LastMessage(s) \in Message /\ \E i \in 1..Len(s) : IsLast(s, i)
<1> DEFINE at == {j \in 1..Len(s) : s[j] \in Message}
<1>1. CASE at = {}
  BY <1>1, LastMessageNone
<1>2. CASE at # {}
  <2>1. Len(s) \in Nat /\ at \in SUBSET (1..Len(s))
    OBVIOUS
  <2>2. PICK i \in at : \A j \in at : j <= i
    BY <1>2, <2>1, HasMax
  <2>3. IsLast(s, i)
    BY <2>2 DEF IsLast
  <2>. QED BY <2>3, LastMessageIs DEF IsLast
<1>. QED BY <1>1, <1>2

\* What a reader holds at the end of s that held f before it.
LastOf(f, s) == IF LastMessage(s) = None THEN f ELSE LastMessage(s)

LEMMA LastOfEmpty == \A f : LastOf(f, <<>>) = f
<1>1. <<>> \in Seq(Event) /\ \A i \in 1..Len(<<>>) : <<>>[i] \notin Message
  OBVIOUS
<1>2. LastMessage(<<>>) = None
  BY <1>1, LastMessageNone
<1>. QED BY <1>2 DEF LastOf

LEMMA LastOfNone ==
    ASSUME NEW s \in Seq(Event)
    PROVE  LastMessage(s) = LastOf(None, s)
  BY DEF LastOf

\* Reading the head of a stream first changes nothing.
LEMMA LastOfTail ==
    ASSUME NEW f, NEW s \in Seq(Event), s # <<>>
    PROVE  LastOf(f, s) = LastOf(IF Head(s) \in Message THEN Head(s) ELSE f, Tail(s))
<1> DEFINE t == Tail(s)
<1>a. /\ Len(s) \in Nat \ {0} /\ Head(s) = s[1]
      /\ t \in Seq(Event) /\ Len(t) = Len(s) - 1
      /\ \A i \in 1..Len(t) : t[i] = s[i + 1]
  BY HeadTailProperties, EmptySeq
<1>b. None \notin Message
  BY ReadAssumption DEF ReadAssumption
<1> HIDE DEF t
<1>1. CASE \E i \in 1..Len(t) : IsLast(t, i)
  <2>1. PICK i \in 1..Len(t) : IsLast(t, i)
    BY <1>1
  <2>2. IsLast(s, i + 1)
    <3>1. i + 1 \in 1..Len(s) /\ s[i + 1] \in Message
      BY <1>a, <2>1 DEF IsLast
    <3>2. ASSUME NEW j \in 1..Len(s), s[j] \in Message PROVE j <= i + 1
      <4>1. CASE j = 1
        BY <4>1, <2>1 DEF IsLast
      <4>2. CASE j # 1
        <5>1. j - 1 \in 1..Len(t) /\ t[j - 1] = s[j]
          BY <1>a, <4>2
        <5>. QED BY <5>1, <3>2, <2>1 DEF IsLast
      <4>. QED BY <4>1, <4>2
    <3>. QED BY <3>1, <3>2 DEF IsLast
  <2>3. LastMessage(s) = s[i + 1] /\ LastMessage(t) = t[i] /\ t[i] = s[i + 1] /\ t[i] \in Message
    BY <1>a, <2>1, <2>2, LastMessageIs DEF IsLast
  <2>. QED BY <2>3, <1>b DEF LastOf, t
<1>2. CASE \A i \in 1..Len(t) : t[i] \notin Message
  <2>1. LastMessage(t) = None
    BY <1>a, <1>2, LastMessageNone
  <2>2. ASSUME NEW j \in 1..Len(s), j # 1 PROVE s[j] \notin Message
    <3>1. j - 1 \in 1..Len(t) /\ t[j - 1] = s[j]
      BY <1>a, <2>2
    <3>. QED BY <3>1, <1>2
  <2>3. CASE Head(s) \in Message
    <3>1. IsLast(s, 1)
      BY <1>a, <2>2, <2>3 DEF IsLast
    <3>2. LastMessage(s) = Head(s)
      BY <1>a, <3>1, LastMessageIs
    <3>. QED BY <2>1, <2>3, <3>2, <1>b DEF LastOf, t
  <2>4. CASE Head(s) \notin Message
    <3>1. LastMessage(s) = None
      BY <1>a, <2>2, <2>4, LastMessageNone
    <3>. QED BY <2>1, <2>4, <3>1 DEF LastOf, t
  <2>. QED BY <2>3, <2>4
<1>. QED BY <1>a, <1>1, <1>2, LastMessageCases

\* What is printed leaves the script for the pipe; what is decoded leaves the
\* pipe.
LEMMA PrintKeeps ==
    ASSUME NEW s \in Seq(Event), NEW t \in Seq(Event), t # <<>>
    PROVE  Append(s, Head(t)) \o Tail(t) = s \o t
<1>1. /\ Head(t) \in Event /\ Tail(t) \in Seq(Event)
      /\ t = <<Head(t)>> \o Tail(t)
      /\ <<Head(t)>> \in Seq(Event)
  <2>1. /\ Head(t) \in Event /\ Tail(t) \in Seq(Event) /\ Len(t) \in Nat \ {0}
        /\ Len(Tail(t)) = Len(t) - 1 /\ Head(t) = t[1]
        /\ \A i \in 1..Len(Tail(t)) : Tail(t)[i] = t[i + 1]
    BY HeadTailProperties, EmptySeq
  <2>2. <<Head(t)>> \in Seq(Event) /\ Len(<<Head(t)>>) = 1 /\ <<Head(t)>>[1] = t[1]
    BY <2>1
  <2> DEFINE u == <<Head(t)>> \o Tail(t)
  <2>3. /\ u \in Seq(Event) /\ Len(u) = Len(t)
        /\ \A i \in 1..Len(t) : u[i] = IF i <= 1 THEN <<Head(t)>>[i] ELSE Tail(t)[i - 1]
    BY <2>1, <2>2, ConcatProperties
  <2>4. ASSUME NEW i \in 1..Len(t) PROVE u[i] = t[i]
    <3>1. CASE i = 1
      BY <2>2, <2>3, <3>1
    <3>2. CASE i # 1
      <4>1. i - 1 \in 1..Len(Tail(t)) /\ ~(i <= 1) /\ (i - 1) + 1 = i
        BY <2>1, <3>2
      <4>. QED BY <2>1, <2>3, <4>1
    <3>. QED BY <3>1, <3>2
  <2>. QED BY <2>1, <2>2, <2>3, <2>4, SeqEqual
<1>2. Append(s, Head(t)) = s \o <<Head(t)>>
  BY <1>1, AppendIsConcat
<1>. QED BY <1>1, <1>2, ConcatAssociative

LEMMA DecodeKeeps ==
    ASSUME NEW f, NEW s \in Seq(Event), NEW t \in Seq(Event), s # <<>>
    PROVE  LastOf(f, s \o t)
             = LastOf(IF Head(s) \in Message THEN Head(s) ELSE f, Tail(s) \o t)
<1>1. /\ Len(s) \in Nat \ {0} /\ Len(t) \in Nat /\ Head(s) = s[1]
      /\ Tail(s) \in Seq(Event) /\ Len(Tail(s)) = Len(s) - 1
      /\ \A i \in 1..Len(Tail(s)) : Tail(s)[i] = s[i + 1]
  BY HeadTailProperties, EmptySeq
<1> DEFINE u == s \o t
           v == Tail(s) \o t
<1>2. /\ u \in Seq(Event) /\ Len(u) = Len(s) + Len(t)
      /\ \A i \in 1..(Len(s) + Len(t)) : u[i] = IF i <= Len(s) THEN s[i] ELSE t[i - Len(s)]
  BY ConcatProperties
<1>3. /\ v \in Seq(Event) /\ Len(v) = Len(s) - 1 + Len(t)
      /\ \A i \in 1..(Len(s) - 1 + Len(t)) :
           v[i] = IF i <= Len(s) - 1 THEN Tail(s)[i] ELSE t[i - (Len(s) - 1)]
  BY <1>1, ConcatProperties
<1> HIDE DEF u, v
<1>4. u # <<>> /\ Head(u) = Head(s)
  BY <1>1, <1>2
<1>5. /\ Tail(u) \in Seq(Event) /\ Len(Tail(u)) = Len(v)
      /\ \A i \in 1..Len(v) : Tail(u)[i] = u[i + 1]
  BY <1>1, <1>2, <1>3, <1>4, HeadTailProperties
<1>6. ASSUME NEW i \in 1..Len(v) PROVE Tail(u)[i] = v[i]
  <2>1. i + 1 \in 1..(Len(s) + Len(t)) /\ i \in 1..(Len(s) - 1 + Len(t))
    BY <1>1, <1>3
  <2>2. CASE i <= Len(s) - 1
    <3>1. i + 1 <= Len(s) /\ i \in 1..Len(Tail(s))
      BY <1>1, <1>3, <2>2
    <3>. QED BY <1>1, <1>2, <1>3, <1>5, <2>1, <2>2, <3>1
  <2>3. CASE ~(i <= Len(s) - 1)
    <3>1. ~(i + 1 <= Len(s)) /\ i + 1 - Len(s) = i - (Len(s) - 1)
      BY <1>1, <1>3, <2>3
    <3>. QED BY <1>2, <1>3, <1>5, <2>1, <2>3, <3>1
  <2>. QED BY <2>2, <2>3
<1>7. Tail(u) = v
  BY <1>3, <1>5, <1>6, SeqEqual
<1>. QED BY <1>2, <1>4, <1>7, LastOfTail DEF u, v

-----------------------------------------------------------------------------
(* Types.                                                                  *)

LEMMA LastMessageType == ASSUME NEW s \in Seq(Event) PROVE LastMessage(s) \in Message \cup {None}
  BY LastMessageCases

\* The steps of the loop around a read leave the read alone.
LoopOnly ==
    \/ Leave \/ RefuseFrame \/ ReadFails \/ Dial \/ LinkDrops \/ Tick
    \/ \E a \in Ask : HostWrites(a)

LEMMA LoopKeepsRead == LoopOnly => UNCHANGED readVars
  BY DEF LoopOnly, Leave, RefuseFrame, ReadFails, Dial, LinkDrops, Tick, HostWrites

LEMMA NextCases ==
    ASSUME [Next]_vars
    PROVE  \/ Reader /\ UNCHANGED loopVars
           \/ CodexGoesOn /\ UNCHANGED loopVars
           \/ Crashes /\ UNCHANGED loopVars
           \/ LoopOnly
           \/ ReadFrame \/ Reply \/ Cancel \/ ServiceEnds
           \/ UNCHANGED vars
  BY DEF Next, IsolatedStep, ProviderStep, LoopOnly

\* The flags, and the other variables of a read.
Flags ==
    /\ canceled \in BOOLEAN /\ worker \in BOOLEAN /\ wrapped \in BOOLEAN /\ body \in BOOLEAN
    /\ directory \in BOOLEAN /\ open \in BOOLEAN /\ draining \in BOOLEAN

Values ==
    /\ codex \in {"none", "running", "ok", "failed", "killed"}
    /\ script \in Seq(Event) /\ noise \in 0..MaxNoise
    /\ stdout \in Seq(Event) /\ Len(stdout) <= PipeSize
    /\ stderr \in 0..PipeSize
    /\ run \in {"idle", "prepare", "parse", "wait", "drain", "done"}
    /\ final \in Message \cup {None} /\ said \in Message \cup {None}
    /\ parseErr \in {"codex_protocol_error", "response_too_large", None}
    /\ result \in Message \cup ReadFailure \cup {None}
    /\ leftBehind \in SUBSET (Message \cup ReadFailure)

LEMMA ReadTypes == (ReadTypeOK <=> Flags /\ Values) /\ (ReadTypeOK' <=> Flags' /\ Values')
  BY Zenon DEF ReadTypeOK, Flags, Values

LEMMA FlagTypes == ASSUME Flags, Reader \/ CodexGoesOn \/ Crashes PROVE Flags'
<1>1. CASE Reader
  <2>1. CASE PrepareFails \/ StartCodex \/ Decode \/ EndOfOutput \/ Kill
    BY <2>1 DEF Flags, PrepareFails, StartCodex, Decode, EndOfOutput, StopParsing, Kill,
       processVars, pipeVars, runVars
  <2>2. CASE CopyFails \/ Wait \/ Discard \/ DiscardEnds
    BY <2>2 DEF Flags, CopyFails, Wait, Discard, DiscardEnds, processVars, pipeVars, runVars
  <2>3. CASE Return
    BY <2>3 DEF Flags, Return, ReturnWith, pipeVars
  <2>. QED BY <1>1, <2>1, <2>2, <2>3 DEF Reader
<1>2. CASE CodexGoesOn \/ Crashes
  BY <1>2 DEF Flags, CodexGoesOn, TakeBody, PrintEvent, WriteNoise, Finishes, Crashes, WorkerEnds,
     processVars, pipeVars, runVars
<1>. QED BY <1>1, <1>2

\* Decoding went on to the end of the stream only if everybody had closed it.
ReadEnded ==
    run \in {"wait", "drain"} /\ parseErr = None =>
        ~worker /\ codex # "running" /\ said = LastOf(final, script)

LEMMA ReaderTypes == ASSUME Values, ReadEnded, Reader PROVE Values'
<1>a. /\ Script \subseteq Seq(Event) /\ PipeSize \in Nat \ {0} /\ MaxNoise \in Nat
      /\ <<>> \in Seq(Event) /\ Len(<<>>) = 0
  BY ReadAssumption, EmptySeq DEF ReadAssumption
<1>1. CASE PrepareFails
  BY <1>1 DEF PrepareFails, Values, ReadFailure, processVars, pipeVars
<1>2. CASE StartCodex
  <2>1. script' \in Seq(Event) /\ said' \in Message \cup {None}
    BY <1>a, <1>2, LastMessageType DEF StartCodex
  <2>. QED BY <1>a, <1>2, <2>1 DEF StartCodex, Values
<1>3. CASE Decode
  <2>1. stdout \in Seq(Event) /\ stdout # <<>> /\ Len(stdout) <= PipeSize
    BY <1>3 DEF Decode, Values
  <2>2. /\ stdout' \in Seq(Event) /\ Len(stdout') <= PipeSize
        /\ Head(stdout) \in Event
    BY <1>a, <1>3, <2>1 DEF Decode
  <2>3. /\ final' \in Message \cup {None}
        /\ parseErr' \in {"codex_protocol_error", "response_too_large", None}
        /\ run' \in {"wait", "parse"} /\ run = "parse"
    BY <1>3 DEF Decode, Values
  <2>. QED BY <1>3, <2>2, <2>3 DEF Decode, Values, processVars
<1>4. CASE EndOfOutput
  BY <1>4 DEF EndOfOutput, StopParsing, Values, processVars, pipeVars
<1>5. CASE Kill
  BY <1>5 DEF Kill, Values, pipeVars, runVars
<1>6. CASE CopyFails
  BY <1>6 DEF CopyFails, Values, processVars, runVars
<1>7. CASE Wait
  BY <1>a, <1>7 DEF Wait, Values, processVars
<1>8. CASE Discard
  BY <1>a, <1>8 DEF Discard, Values, processVars, runVars
<1>9. CASE DiscardEnds
  BY <1>9 DEF DiscardEnds, Values, processVars, pipeVars
<1>10. CASE Return
  <2>1. PICK value \in Message \cup ReadFailure \cup {None} : ReturnWith(value)
    <3>1. /\ parseErr \in {"codex_protocol_error", "response_too_large", None}
          /\ final \in Message \cup {None}
      BY DEF Values
    <3>. QED BY <1>10, <3>1 DEF Return, ReadFailure
  <2>2. leftBehind' \subseteq Message \cup ReadFailure
    <3>1. CASE worker
      <4>1. parseErr \in ReadFailure /\ parseErr # None
        BY <2>1, <3>1 DEF ReturnWith, ReadEnded, Values, ReadFailure
      <4>2. leftBehind' = leftBehind \cup {parseErr}
        BY <1>10, <3>1, <4>1 DEF Return, ReturnWith
      <4>. QED BY <4>1, <4>2 DEF Values
    <3>2. CASE ~worker
      BY <2>1, <3>2 DEF ReturnWith, Values
    <3>. QED BY <3>1, <3>2
  <2>. QED BY <1>a, <2>1, <2>2 DEF ReturnWith, Values, pipeVars
<1>. QED BY <1>1, <1>2, <1>3, <1>4, <1>5, <1>6, <1>7, <1>8, <1>9, <1>10 DEF Reader

LEMMA CodexTypes == ASSUME Values, CodexGoesOn \/ Crashes PROVE Values'
<1>1. CASE TakeBody
  BY <1>1 DEF TakeBody, Values, processVars, runVars
<1>2. CASE PrintEvent
  <2>1. script \in Seq(Event) /\ script # <<>> /\ stdout \in Seq(Event)
    BY <1>2 DEF PrintEvent, Values
  <2>2. Head(script) \in Event /\ Tail(script) \in Seq(Event)
    BY <2>1
  <2>3. stdout' \in Seq(Event) /\ Len(stdout') <= PipeSize
    <3>1. CASE open
      <4>1. stdout' = Append(stdout, Head(script)) /\ Len(stdout) < PipeSize
        BY <1>2, <3>1 DEF PrintEvent
      <4>. QED BY <2>1, <2>2, <4>1, ReadAssumption, AppendProperties DEF ReadAssumption
    <3>2. CASE ~open
      BY <1>2, <3>2 DEF PrintEvent, Values
    <3>. QED BY <3>1, <3>2
  <2>. QED BY <1>2, <2>2, <2>3 DEF PrintEvent, Values, runVars
<1>3. CASE WriteNoise
  <2>1. stderr' \in 0..PipeSize /\ noise' \in 0..MaxNoise
    BY <1>3, ReadAssumption DEF WriteNoise, Values, ReadAssumption
  <2>. QED BY <1>3, <2>1 DEF WriteNoise, Values, runVars
<1>4. ASSUME NEW status \in {"ok", "failed"}, WorkerEnds(status) PROVE Values'
  BY <1>4 DEF WorkerEnds, Values, pipeVars, runVars
<1>. QED BY <1>1, <1>2, <1>3, <1>4 DEF CodexGoesOn, Finishes, Crashes

\* The loop around the reads.
LoopTypes ==
    /\ loop \in {"dial", "read", "serve", "ended"}
    /\ link \in BOOLEAN /\ died \in BOOLEAN
    /\ inbox \in Seq(Frame)
    /\ clock \in 0..MaxClock /\ asked \in SUBSET Ask
    /\ run # "idle" => loop = "serve"

LEMMA LoopOnlyTypes == ASSUME LoopTypes, LoopOnly PROVE LoopTypes'
<1>a. /\ <<>> \in Seq(Frame) /\ UNCHANGED readVars /\ MaxClock \in Nat
  BY LoopKeepsRead, ProviderAssumption DEF ProviderAssumption
<1>b. UNCHANGED run
  BY <1>a DEF readVars, runVars
<1>1. ASSUME NEW a \in Ask, HostWrites(a) PROVE LoopTypes'
  <2>1. [ask |-> a, at |-> clock] \in Frame
    BY DEF LoopTypes, Frame
  <2>2. inbox' \in Seq(Frame)
    BY <1>1, <2>1 DEF HostWrites, LoopTypes
  <2>. QED BY <1>1, <1>b, <2>2 DEF HostWrites, LoopTypes
<1>2. CASE Leave \/ RefuseFrame \/ ReadFails \/ Dial \/ LinkDrops
  <2>1. /\ \/ loop' \in {"dial", "read", "ended"} /\ run = "idle"
           \/ loop' = loop
        /\ link' \in BOOLEAN /\ UNCHANGED <<clock, died, asked>>
        /\ inbox' \in {inbox, <<>>}
    BY <1>2 DEF Leave, RefuseFrame, ReadFails, Dial, LinkDrops, LoopTypes
  <2>. QED BY <1>a, <1>b, <2>1 DEF LoopTypes
<1>3. CASE Tick
  <2>1. clock' \in 0..MaxClock
    BY <1>a, <1>3 DEF Tick, LoopTypes
  <2>. QED BY <1>3, <1>b, <2>1 DEF Tick, LoopTypes
<1>. QED BY <1>1, <1>2, <1>3 DEF LoopOnly

LEMMA NoReadStaysNone ==
    ASSUME Reader \/ CodexGoesOn \/ Crashes, run = "idle"
    PROVE  run' = "idle"
<1>1. CASE Reader
  BY <1>1 DEF Reader, PrepareFails, StartCodex, Decode, EndOfOutput, Kill, CopyFails, Wait, Discard,
     DiscardEnds, Return, ReturnWith, runVars
<1>2. CASE CodexGoesOn \/ Crashes
  BY <1>2 DEF CodexGoesOn, TakeBody, PrintEvent, WriteNoise, Finishes, Crashes, WorkerEnds, runVars
<1>. QED BY <1>1, <1>2

-----------------------------------------------------------------------------
(* What a read knows of its stream, and what it leaves.                    *)

\* Only a read that has started Codex and not yet returned has a process; while
\* it decodes, what it holds and what is still to come make the last message;
\* a process that ended well had printed everything.
StreamInv ==
    /\ run \in {"idle", "prepare", "done"} => ~worker
    /\ run = "parse" => open /\ parseErr = None /\ said = LastOf(final, stdout \o script)
    /\ ReadEnded
    /\ codex = "ok" => script = <<>>
    /\ WholeAnswers

\* A directory belongs to a read in progress, unless something was left.
LeftInv ==
    /\ leftBehind \subseteq {"codex_protocol_error", "response_too_large"}
    /\ directory => died \/ leftBehind # {} \/ run \in {"parse", "wait", "drain"}

ProviderInv == Flags /\ Values /\ LoopTypes /\ StreamInv /\ LeftInv

LEMMA ProviderInit == Init => ProviderInv
<1> SUFFICES ASSUME Init PROVE ProviderInv
  OBVIOUS
<1>a. /\ PipeSize \in Nat /\ MaxNoise \in Nat /\ MaxClock \in Nat
      /\ <<>> \in Seq(Event) /\ Len(<<>>) = 0 /\ <<>> \in Seq(Frame)
  BY ReadAssumption, ProviderAssumption, EmptySeq DEF ReadAssumption, ProviderAssumption
<1>1. Flags
  BY DEF Init, ReadInit, Flags
<1>2. Values
  BY <1>a DEF Init, ReadInit, Values
<1>3. LoopTypes
  <2>1. clock \in 0..MaxClock /\ asked \in SUBSET Ask /\ inbox \in Seq(Frame)
    BY <1>a DEF Init
  <2>2. loop = "dial" /\ link \in BOOLEAN /\ died \in BOOLEAN /\ run = "idle"
    BY DEF Init, ReadInit
  <2>. QED BY <2>1, <2>2 DEF LoopTypes
<1>4. StreamInv /\ LeftInv
  BY DEF Init, ReadInit, StreamInv, ReadEnded, WholeAnswers, LeftInv
<1>. QED BY <1>1, <1>2, <1>3, <1>4 DEF ProviderInv

LEMMA ReaderStream == ASSUME Flags, Values, StreamInv, Reader PROVE StreamInv'
<1>a. /\ Message \cap ReadFailure = {} /\ None \notin Message /\ None \notin ReadFailure
      /\ Message \cap {"other", "garbage", "oversized"} = {}
      /\ Script \subseteq Seq(Event)
  BY ReadAssumption DEF ReadAssumption
<1>1. CASE PrepareFails
  <2>1. /\ run' = "done" /\ result' \in ReadFailure /\ run = "prepare"
        /\ UNCHANGED <<worker, codex, script, said>>
    BY <1>1 DEF PrepareFails, ReadFailure, processVars
  <2>. QED BY <1>a, <2>1 DEF StreamInv, ReadEnded, WholeAnswers
<1>2. CASE StartCodex
  <2>1. /\ run' = "parse" /\ open' /\ parseErr' = None /\ final' = None /\ codex' = "running"
        /\ script' \in Seq(Event) /\ stdout' = <<>> /\ said' = LastMessage(script')
    BY <1>a, <1>2 DEF StartCodex
  <2>2. stdout' \o script' = script'
    BY <2>1, ConcatEmptySeq
  <2>3. said' = LastOf(final', stdout' \o script')
    BY <2>1, <2>2, LastOfNone
  <2>. QED BY <2>1, <2>3 DEF StreamInv, ReadEnded, WholeAnswers
<1>3. CASE Decode
  <2> DEFINE e == Head(stdout)
  <2>1. /\ run = "parse" /\ stdout # <<>> /\ stdout' = Tail(stdout)
        /\ stdout \in Seq(Event) /\ script \in Seq(Event)
        /\ final' = IF e \in Message THEN e ELSE final
        /\ UNCHANGED <<open, codex, worker, script, said>>
    BY <1>3 DEF Decode, Values, processVars
  <2>2. said = LastOf(final', stdout' \o script)
    BY <2>1, DecodeKeeps DEF StreamInv
  <2>3. CASE e \in {"garbage", "oversized"}
    <3>1. parseErr' \in ReadFailure /\ run' = "wait"
      BY <1>3, <2>3 DEF Decode, ReadFailure
    <3>. QED BY <1>a, <2>1, <3>1 DEF StreamInv, ReadEnded, WholeAnswers
  <2>4. CASE e \notin {"garbage", "oversized"}
    <3>1. parseErr' = None /\ run' = "parse"
      BY <1>3, <2>4 DEF Decode
    <3>. QED BY <2>1, <2>2, <3>1 DEF StreamInv, ReadEnded, WholeAnswers
  <2>. QED BY <2>3, <2>4
<1>4. CASE EndOfOutput
  <2>1. /\ run = "parse" /\ run' = "wait" /\ stdout = <<>> /\ codex # "running" /\ ~worker
        /\ script \in Seq(Event)
        /\ UNCHANGED <<codex, worker, script, final, said>>
    BY <1>4 DEF EndOfOutput, StopParsing, Writers, Values, processVars
  <2>2. stdout \o script = script
    BY <2>1, ConcatEmptySeq
  <2>. QED BY <2>1, <2>2 DEF StreamInv, ReadEnded, WholeAnswers
<1>5. CASE Kill
  <2>1. /\ run \in {"parse", "wait"} /\ codex = "running" /\ codex' = "killed"
        /\ UNCHANGED <<run, open, parseErr, said, final, stdout, script>>
    BY <1>5 DEF Kill, pipeVars, runVars
  <2>. QED BY <2>1 DEF StreamInv, ReadEnded, WholeAnswers
<1>6. CASE CopyFails
  <2>1. UNCHANGED <<run, worker, open, parseErr, said, final, stdout, script, codex, result>>
    BY <1>6 DEF CopyFails, processVars, runVars
  <2>. QED BY <2>1 DEF StreamInv, ReadEnded, WholeAnswers
<1>7. CASE Wait
  <2>1. /\ run = "wait" /\ run' = "drain"
        /\ UNCHANGED <<worker, parseErr, said, final, script, codex>>
    BY <1>7 DEF Wait, processVars
  <2>. QED BY <2>1 DEF StreamInv, ReadEnded, WholeAnswers
<1>8. CASE Discard \/ DiscardEnds
  <2>1. UNCHANGED <<run, worker, open, parseErr, said, final, stdout, script, codex, result>>
    BY <1>8 DEF Discard, DiscardEnds, processVars, pipeVars, runVars
  <2>. QED BY <2>1 DEF StreamInv, ReadEnded, WholeAnswers
<1>9. CASE Return
  <2>1. /\ run = "drain" /\ run' = "done" /\ ~worker' /\ script' = <<>>
        /\ UNCHANGED <<codex, said>>
        /\ result' = IF parseErr # None THEN parseErr
                     ELSE IF canceled THEN "request_canceled"
                     ELSE IF codex # "ok" THEN "codex_execution_failed" ELSE final
    BY <1>9 DEF Return, ReturnWith
  <2>2. ASSUME result' \in Message PROVE result' = said /\ codex = "ok"
    <3>1. parseErr = None /\ codex = "ok" /\ result' = final
      BY <1>a, <2>1, <2>2 DEF Values, ReadFailure
    <3>2. said = LastOf(final, <<>>)
      BY <2>1, <3>1 DEF StreamInv, ReadEnded
    <3>. QED BY <3>1, <3>2, LastOfEmpty
  <2>. QED BY <2>1, <2>2 DEF StreamInv, ReadEnded, WholeAnswers
<1>. QED BY <1>1, <1>2, <1>3, <1>4, <1>5, <1>6, <1>7, <1>8, <1>9 DEF Reader

LEMMA CodexStream ==
    ASSUME Flags, Values, StreamInv, CodexGoesOn \/ Crashes
    PROVE  StreamInv'
<1>1. CASE TakeBody \/ WriteNoise
  <2>1. UNCHANGED <<run, worker, open, parseErr, said, final, stdout, script, codex, result>>
    BY <1>1 DEF TakeBody, WriteNoise, processVars, runVars
  <2>. QED BY <2>1 DEF StreamInv, ReadEnded, WholeAnswers
<1>2. CASE PrintEvent
  <2>1. /\ worker /\ script # <<>> /\ script' = Tail(script)
        /\ stdout' = IF open THEN Append(stdout, Head(script)) ELSE stdout
        /\ script \in Seq(Event) /\ stdout \in Seq(Event)
        /\ UNCHANGED <<run, worker, open, parseErr, said, final, codex, result>>
    BY <1>2 DEF PrintEvent, Values, runVars
  <2>2. open => stdout' \o script' = stdout \o script
    BY <2>1, PrintKeeps
  <2>. QED BY <2>1, <2>2 DEF StreamInv, ReadEnded, WholeAnswers
<1>3. ASSUME NEW status \in {"ok", "failed"}, status = "ok" => script = <<>>, WorkerEnds(status)
      PROVE  StreamInv'
  <2>1. /\ worker /\ ~worker'
        /\ codex' = IF codex = "running" THEN status ELSE codex
        /\ UNCHANGED <<run, open, parseErr, said, final, stdout, script, result>>
    BY <1>3 DEF WorkerEnds, pipeVars, runVars
  <2>. QED BY <1>3, <2>1 DEF StreamInv, ReadEnded, WholeAnswers
<1>. QED BY <1>1, <1>2, <1>3 DEF CodexGoesOn, Finishes, Crashes

LEMMA ReaderLeaves ==
    ASSUME Flags, Values, StreamInv, LeftInv, UNCHANGED died, Reader \/ CodexGoesOn \/ Crashes
    PROVE  LeftInv'
<1>1. CASE PrepareFails
  BY <1>1 DEF PrepareFails, LeftInv
<1>2. CASE StartCodex
  BY <1>2 DEF StartCodex, LeftInv
<1>3. CASE Decode \/ EndOfOutput \/ Wait
  BY <1>3 DEF Decode, EndOfOutput, StopParsing, Wait, LeftInv
<1>4. CASE Kill \/ CopyFails \/ Discard \/ DiscardEnds \/ CodexGoesOn \/ Crashes
  <2>1. UNCHANGED <<run, directory, leftBehind>>
    BY <1>4 DEF Kill, CopyFails, Discard, DiscardEnds, CodexGoesOn, TakeBody, PrintEvent, WriteNoise,
       Finishes, Crashes, WorkerEnds, runVars
  <2>. QED BY <2>1 DEF LeftInv
<1>5. CASE Return
  <2>1. CASE worker
    <3>1. parseErr # None /\ parseErr \in {"codex_protocol_error", "response_too_large"}
      BY <1>5, <2>1 DEF Return, ReturnWith, StreamInv, ReadEnded, Values
    <3>2. leftBehind' = leftBehind \cup {parseErr}
      BY <1>5, <2>1, <3>1 DEF Return, ReturnWith
    <3>. QED BY <3>1, <3>2 DEF LeftInv
  <2>2. CASE ~worker
    <3>1. leftBehind' = leftBehind /\ ~directory'
      BY <1>5, <2>2 DEF Return, ReturnWith
    <3>. QED BY <3>1 DEF LeftInv
  <2>. QED BY <2>1, <2>2
<1>. QED BY <1>1, <1>2, <1>3, <1>4, <1>5 DEF Reader

LEMMA ProviderStays == ProviderInv /\ [Next]_vars => ProviderInv'
<1> SUFFICES ASSUME ProviderInv, [Next]_vars PROVE ProviderInv'
  OBVIOUS
<1> USE DEF ProviderInv
<1>1. CASE (Reader \/ CodexGoesOn \/ Crashes) /\ UNCHANGED loopVars
  <2>1. Flags' /\ Values' /\ StreamInv' /\ LeftInv'
    BY <1>1, FlagTypes, ReaderTypes, CodexTypes, ReaderStream, CodexStream, ReaderLeaves
       DEF StreamInv, loopVars
  <2>2. LoopTypes'
    BY <1>1, NoReadStaysNone DEF LoopTypes, loopVars
  <2>. QED BY <2>1, <2>2
<1>2. CASE LoopOnly
  <2>1. UNCHANGED <<readVars, died>>
    BY <1>2, LoopKeepsRead DEF LoopOnly, Leave, RefuseFrame, ReadFails, Dial, LinkDrops, Tick, HostWrites
  <2>2. Flags' /\ Values' /\ StreamInv' /\ LeftInv'
    BY <2>1 DEF readVars, processVars, pipeVars, runVars, Flags, Values, StreamInv, ReadEnded,
       WholeAnswers, LeftInv
  <2>. QED BY <1>2, <2>2, LoopOnlyTypes
<1>3. CASE Cancel
  <2>1. canceled' = TRUE /\ UNCHANGED <<processVars, pipeVars, runVars, said, leftBehind, loopVars>>
    BY <1>3 DEF Cancel
  <2>. QED BY <2>1 DEF processVars, pipeVars, runVars, loopVars, Flags, Values, LoopTypes, StreamInv,
              ReadEnded, WholeAnswers, LeftInv
<1>4. CASE ReadFrame
  <2>1. /\ loop = "read" /\ loop' = "serve" /\ inbox' = Tail(inbox) /\ inbox # <<>>
        /\ run = "idle" /\ run' = "prepare"
        /\ UNCHANGED <<canceled, processVars, pipeVars, directory, open, draining, final, parseErr,
                       result, said, leftBehind, link, clock, died, asked>>
    BY <1>4 DEF ReadFrame, LoopTypes
  <2>2. Flags' /\ Values'
    BY <2>1 DEF processVars, pipeVars, Flags, Values
  <2>3. LoopTypes'
    BY <2>1 DEF LoopTypes
  <2>4. StreamInv' /\ LeftInv'
    BY <2>1 DEF processVars, pipeVars, StreamInv, ReadEnded, WholeAnswers, LeftInv
  <2>. QED BY <2>2, <2>3, <2>4
<1>5. CASE Reply
  <2>1. /\ loop = "serve" /\ loop' \in {"read", "dial"} /\ run = "done" /\ run' = "idle"
        /\ link' \in BOOLEAN /\ inbox' \in {inbox, <<>>}
        /\ UNCHANGED <<canceled, processVars, pipeVars, directory, open, draining, final, parseErr,
                       result, said, leftBehind, clock, died, asked>>
    BY <1>5 DEF Reply, LoopTypes
  <2>2. Flags' /\ Values'
    BY <2>1 DEF processVars, pipeVars, Flags, Values
  <2>3. inbox' \in Seq(Frame)
    BY <2>1, EmptySeq DEF LoopTypes
  <2>4. LoopTypes'
    BY <2>1, <2>3 DEF LoopTypes
  <2>5. StreamInv' /\ LeftInv'
    BY <2>1 DEF processVars, pipeVars, StreamInv, ReadEnded, WholeAnswers, LeftInv
  <2>. QED BY <2>2, <2>4, <2>5
<1>6. CASE ServiceEnds
  <2>1. /\ died' = TRUE /\ loop' = "ended" /\ link' = FALSE /\ inbox' = <<>>
        /\ run' = "idle" /\ open' = FALSE /\ draining' = FALSE
        /\ codex' = "none" /\ worker' = FALSE
        /\ UNCHANGED <<canceled, wrapped, script, noise, pipeVars, directory, final, parseErr, result,
                       said, leftBehind, clock, asked>>
    BY <1>6 DEF ServiceEnds
  <2>2. Flags' /\ Values'
    BY <2>1 DEF pipeVars, Flags, Values
  <2>3. inbox' \in Seq(Frame)
    BY <2>1, EmptySeq DEF LoopTypes
  <2>4. LoopTypes'
    BY <2>1, <2>3 DEF LoopTypes
  <2>5. StreamInv' /\ LeftInv'
    BY <2>1 DEF pipeVars, StreamInv, ReadEnded, WholeAnswers, LeftInv
  <2>. QED BY <2>2, <2>4, <2>5
<1>7. CASE UNCHANGED vars
  <2>1. UNCHANGED readVars /\ UNCHANGED loopVars
    BY <1>7 DEF vars
  <2>. QED BY <2>1 DEF readVars, processVars, pipeVars, runVars, loopVars, Flags, Values, LoopTypes,
              StreamInv, ReadEnded, WholeAnswers, LeftInv
<1>. QED BY <1>1, <1>2, <1>3, <1>4, <1>5, <1>6, <1>7, NextCases

LEMMA ProviderCorrect == Spec => []ProviderInv
  BY ProviderInit, ProviderStays, PTL DEF Spec

\* Every variable of a provider and of its reads keeps its type.
THEOREM TypeInvariant == Spec => []TypeOK
<1>1. ProviderInv => TypeOK
  BY ReadTypes, Zenon DEF ProviderInv, LoopTypes, TypeOK
<1>. QED BY <1>1, ProviderCorrect, PTL

\* The provider passes on the last message of a read that succeeded, whatever
\* part of a stream it has seen when Codex dies or is killed.
THEOREM AnswersAreWhole == Spec => []WholeAnswers
<1>1. ProviderInv => WholeAnswers
  BY DEF ProviderInv, StreamInv
<1>. QED BY <1>1, ProviderCorrect, PTL

\* Only a read that could not decode its stream leaves a process running, and
\* only such a process, or the end of the service, leaves a directory.
THEOREM LittleIsLeft == Spec => []NothingLeftBehind
<1>1. ProviderInv => NothingLeftBehind
  BY DEF ProviderInv, LeftInv, NothingLeftBehind
<1>. QED BY <1>1, ProviderCorrect, PTL
=============================================================================

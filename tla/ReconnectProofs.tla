--------------------------- MODULE ReconnectProofs ---------------------------
(***************************************************************************)
(* Proofs about Reconnect: the lists of endpoints keep their shape and the *)
(* addresses of the invitation, whoever overwrites them; and what a call   *)
(* that reports the host as offline has tried.  What is said here holds    *)
(* for any number of calls, of addresses and of moves.                     *)
(***************************************************************************)
EXTENDS Reconnect, SequenceTheorems, TLAPS

-----------------------------------------------------------------------------
(* Lists of endpoints.                                                     *)

LEMMA PlaceOfType ==
  ASSUME NEW e, NEW list \in Seq(Address)
  PROVE  /\ PlaceOf(e, list) \in 1..(Len(list) + 1)
         /\ e \in AddressesOf(list) => PlaceOf(e, list) \in 1..Len(list) /\ list[PlaceOf(e, list)] = e
         /\ e \notin AddressesOf(list) => PlaceOf(e, list) = Len(list) + 1
<1>1. CASE e \in AddressesOf(list)
  <2>1. \E i \in DOMAIN list : list[i] = e
    BY <1>1 DEF AddressesOf
  <2>2. PlaceOf(e, list) \in DOMAIN list /\ list[PlaceOf(e, list)] = e
    BY <2>1, <1>1 DEF PlaceOf
  <2> QED BY <1>1, <2>2
<1>2. CASE e \notin AddressesOf(list)
  BY <1>2 DEF PlaceOf
<1> QED BY <1>1, <1>2

\* e first, then the entries before its place, then those after it.
LEMMA PrioritizedEntries ==
  ASSUME NEW e \in Address, NEW list \in Seq(Address)
  PROVE  LET p == PlaceOf(e, list)
             s == Prioritized(e, list)
             n == IF p = Len(list) + 1 THEN Len(list) + 1 ELSE Len(list)
         IN  /\ s \in Seq(Address) /\ Len(s) = n
             /\ s[1] = e
             /\ \A i \in 2..n : s[i] = IF i <= p THEN list[i - 1] ELSE list[i]
<1> DEFINE p == PlaceOf(e, list)
           before == SubSeq(list, 1, p - 1)
           after == SubSeq(list, p + 1, Len(list))
           n == IF p = Len(list) + 1 THEN Len(list) + 1 ELSE Len(list)
<1>1. p \in 1..(Len(list) + 1)
  BY PlaceOfType
<1> HIDE DEF p
<1>2. /\ before \in Seq(Address) /\ Len(before) = p - 1
      /\ \A i \in 1..(p - 1) : before[i] = list[i]
  BY <1>1
<1>3. /\ after \in Seq(Address)
      /\ Len(after) = n - p
      /\ \A i \in 1..(n - p) : after[i] = list[p + i]
  BY <1>1
<1> HIDE DEF before, after
<1> DEFINE head == <<e>> \o before
           s == head \o after
<1>4. /\ head \in Seq(Address)
      /\ Len(head) = p
      /\ head[1] = e
      /\ \A i \in 2..p : head[i] = list[i - 1]
  BY <1>1, <1>2
<1>5. n \in Nat /\ p <= n
  BY <1>1
<1> HIDE DEF n, head
<1>6. /\ s \in Seq(Address) /\ Len(s) = n
      /\ \A i \in 1..p : s[i] = head[i]
      /\ \A i \in (p + 1)..n : s[i] = after[i - p]
  <2>1. s \in Seq(Address) /\ Len(s) = p + (n - p) /\ Len(head) + Len(after) = n
    BY <1>1, <1>3, <1>4, <1>5
  <2>2. \A i \in 1..(Len(head) + Len(after)) :
          s[i] = IF i <= Len(head) THEN head[i] ELSE after[i - Len(head)]
    BY <1>3, <1>4, ConcatProperties
  <2> QED BY <2>1, <2>2, <1>1, <1>3, <1>4, <1>5
<1>7. s[1] = e
  BY <1>1, <1>4, <1>6
<1>8. ASSUME NEW i \in 2..n PROVE s[i] = IF i <= p THEN list[i - 1] ELSE list[i]
  <2>1. CASE i <= p
    BY <2>1, <1>1, <1>4, <1>6
  <2>2. CASE ~(i <= p)
    <3>1. i \in (p + 1)..n /\ i - p \in 1..(n - p) /\ p + (i - p) = i
      BY <2>2, <1>1, <1>5
    <3> QED BY <2>2, <3>1, <1>3, <1>6
  <2> QED BY <2>1, <2>2
<1>9. s = Prioritized(e, list)
  BY DEF Prioritized, p, before, after, head
<1> QED BY <1>6, <1>7, <1>8, <1>9 DEF n, p

LEMMA PrioritizedIsList ==
  ASSUME NEW e \in Address, NEW list \in EndpointList
  PROVE  /\ Prioritized(e, list) \in EndpointList \ {<<>>}
         /\ AddressesOf(list) \subseteq AddressesOf(Prioritized(e, list))
<1> DEFINE p == PlaceOf(e, list)
           s == Prioritized(e, list)
           n == IF p = Len(list) + 1 THEN Len(list) + 1 ELSE Len(list)
<1>0. list \in Seq(Address) /\ Distinct(list) /\ Len(list) \in Nat /\ DOMAIN list = 1..Len(list)
  BY DEF EndpointList
<1>1. /\ s \in Seq(Address) /\ Len(s) = n
      /\ s[1] = e
      /\ \A i \in 2..n : s[i] = IF i <= p THEN list[i - 1] ELSE list[i]
  BY <1>0, PrioritizedEntries
<1>2. /\ p \in 1..(Len(list) + 1)
      /\ p # Len(list) + 1 => list[p] = e
      /\ p = Len(list) + 1 => e \notin AddressesOf(list)
  BY <1>0, PlaceOfType
<1> HIDE DEF p, s
<1>3. n \in Nat /\ n >= 1 /\ DOMAIN s = 1..n
  BY <1>0, <1>1, <1>2
\* No other entry of the list is e.
<1>4. \A j \in 1..Len(list) : j # p => list[j] # e
  BY <1>0, <1>2 DEF Distinct, AddressesOf
<1>5. Distinct(s)
  <2> SUFFICES ASSUME NEW i \in 1..n, NEW j \in 1..n, s[i] = s[j], i < j PROVE FALSE
    BY <1>3 DEF Distinct
  <2> DEFINE f(k) == IF k <= p THEN k - 1 ELSE k
  <2>1. j \in 2..n /\ f(j) \in 1..Len(list) /\ f(j) # p /\ s[j] = list[f(j)]
    BY <1>0, <1>1, <1>2
  <2>2. CASE i = 1
    BY <2>1, <2>2, <1>1, <1>4
  <2>3. CASE i # 1
    <3>1. i \in 2..n /\ f(i) \in 1..Len(list) /\ s[i] = list[f(i)] /\ f(i) # f(j)
      BY <2>3, <1>0, <1>1, <1>2
    <3> QED BY <3>1, <2>1, <1>0 DEF Distinct
  <2> QED BY <2>2, <2>3
<1>6. ASSUME NEW k \in 1..Len(list) PROVE \E i \in 1..n : s[i] = list[k]
  <2>1. CASE k < p
    <3>1. k + 1 \in 2..n /\ k + 1 <= p /\ (k + 1) - 1 = k
      BY <2>1, <1>0, <1>2
    <3>2. s[k + 1] = list[k]
      BY <3>1, <1>1
    <3> QED BY <3>1, <3>2
  <2>2. CASE k = p
    BY <2>2, <1>0, <1>1, <1>2, <1>3
  <2>3. CASE k > p
    BY <2>3, <1>0, <1>1, <1>2
  <2> QED BY <2>1, <2>2, <2>3, <1>2, <1>0
<1>7. AddressesOf(list) \subseteq AddressesOf(s)
  BY <1>0, <1>3, <1>6 DEF AddressesOf
<1> QED BY <1>1, <1>3, <1>5, <1>7 DEF s, EndpointList

LEMMA TailIsList ==
  ASSUME NEW list \in EndpointList, list # <<>>
  PROVE  Tail(list) \in EndpointList /\ Head(list) \in Address
<1>1. /\ list \in Seq(Address) /\ Distinct(list)
      /\ Tail(list) \in Seq(Address) /\ Len(Tail(list)) = Len(list) - 1
      /\ \A i \in 1..Len(Tail(list)) : Tail(list)[i] = list[i + 1]
      /\ Head(list) \in Address
  BY DEF EndpointList
<1>2. Distinct(Tail(list))
  BY <1>1 DEF Distinct
<1> QED BY <1>1, <1>2 DEF EndpointList

LEMMA AppendIsList ==
  ASSUME NEW list \in EndpointList, NEW e \in Address, e \notin AddressesOf(list)
  PROVE  Append(list, e) \in EndpointList
<1>1. /\ list \in Seq(Address) /\ Distinct(list)
      /\ Append(list, e) \in Seq(Address) /\ Len(Append(list, e)) = Len(list) + 1
      /\ \A i \in 1..Len(list) : Append(list, e)[i] = list[i] /\ list[i] # e
      /\ Append(list, e)[Len(list) + 1] = e
  BY DEF EndpointList, AddressesOf
<1>2. Distinct(Append(list, e))
  BY <1>1 DEF Distinct
<1> QED BY <1>1, <1>2 DEF EndpointList

LEMMA ShortLists ==
  /\ <<>> \in EndpointList
  /\ \A e \in Address : <<e>> \in EndpointList /\ <<e>> # <<>>
  BY DEF EndpointList, Distinct

-----------------------------------------------------------------------------
(* Types, and the addresses that are kept.                                 *)

\* Who is about to save an address has one, and a list to save with it ...
Savers ==
    /\ loop \in {"announce", "remember"} => conn \in Address
    /\ \A c \in Call : at[c] = "remember" => rest[c] # <<>>

\* ... which holds the addresses of the invitation, as what it was read from did.
SnapshotsKeep ==
    /\ loop \in {"dial", "announce", "remember", "serve", "wait"} =>
          AddressesOf(Invited) \subseteq AddressesOf(profile)
    /\ \A c \in Call : at[c] \notin {"idle", "done"} =>
          AddressesOf(Invited) \subseteq AddressesOf(known[c])

\* The inductive invariant.
ListsInv == TypeOK /\ Savers /\ SnapshotsKeep /\ InvitedAreKept

LEMMA ListsInit == Init => ListsInv
<1> SUFFICES ASSUME Init PROVE ListsInv
  OBVIOUS
<1>1. Invited \in EndpointList \ {<<>>} /\ Invited[1] \in Address
  BY ReconnectAssumption DEF ReconnectAssumption, EndpointList
<1>2. <<>> \in EndpointList /\ MaxMoves \in Nat /\ MaxDrops \in Nat
  BY ShortLists, ReconnectAssumption DEF ReconnectAssumption
<1>3. host \in Address \cup {None} /\ mdns \in BOOLEAN /\ saved \in EndpointList \ {<<>>}
  BY <1>1 DEF Init
<1>4. known \in [Call -> EndpointList] /\ rest \in [Call -> EndpointList]
  BY <1>2 DEF Init
<1>5. profile \in EndpointList /\ left \in EndpointList /\ moves \in 0..MaxMoves /\ drops \in 0..MaxDrops
  BY <1>2 DEF Init
<1>6. TypeOK
  BY <1>3, <1>4, <1>5 DEF Init, TypeOK
<1> QED BY <1>6 DEF Init, ListsInv, Savers, SnapshotsKeep, InvitedAreKept

\* A list that is saved holds the addresses of the one that it is made of.
LEMMA RememberKeeps ==
  ASSUME ListsInv, NEW e \in Address, NEW list \in EndpointList,
         AddressesOf(Invited) \subseteq AddressesOf(list),
         Remember(e, list)
  PROVE  /\ saved' \in EndpointList \ {<<>>}
         /\ AddressesOf(Invited) \subseteq AddressesOf(saved')
  BY PrioritizedIsList DEF Remember, ListsInv, TypeOK, InvitedAreKept

LEMMA WorldListsStep ==
  ASSUME ListsInv, HostMoves \/ ConnectionDrops
  PROVE  ListsInv'
<1> USE DEF ListsInv, TypeOK, Savers, SnapshotsKeep, InvitedAreKept
<1>1. CASE HostMoves
  BY <1>1, ReconnectAssumption DEF ReconnectAssumption, HostMoves, loopVars
<1>2. CASE ConnectionDrops
  BY <1>2, ReconnectAssumption DEF ReconnectAssumption, ConnectionDrops, LoopGoes, HangUp, callVars
<1> QED BY <1>1, <1>2

LEMMA LoopListsStep ==
  ASSUME ListsInv, StopProvider \/ LoopStep
  PROVE  ListsInv'
<1> USE DEF ListsInv, TypeOK, Savers, SnapshotsKeep, InvitedAreKept, LoopGoes, HangUp,
            worldVars, callVars
<1>1. CASE StopProvider
  BY <1>1 DEF StopProvider
<1>2. CASE LoadProfile
  BY <1>2 DEF LoadProfile
<1>3. CASE Dial
  <2>1. left' \in EndpointList /\ Head(left) \in Address
    BY <1>3, TailIsList DEF Dial
  <2> QED BY <1>3, <2>1 DEF Dial
<1>4. CASE Announce
  BY <1>4 DEF Announce
<1>5. CASE RememberDialed
  <2>1. saved' \in EndpointList \ {<<>>} /\ AddressesOf(Invited) \subseteq AddressesOf(saved')
    BY <1>5, RememberKeeps DEF RememberDialed
  <2> QED BY <1>5, <2>1 DEF RememberDialed
<1>6. CASE NoneLeft
  BY <1>6 DEF NoneLeft
<1>7. CASE BackOff
  BY <1>7 DEF BackOff
<1>8. CASE NoticeStop
  BY <1>8 DEF NoticeStop
<1>9. CASE Exit
  BY <1>9 DEF Exit
<1>10. CASE SessionEnds
  BY <1>10 DEF SessionEnds
<1> QED BY <1>1, <1>2, <1>3, <1>4, <1>5, <1>6, <1>7, <1>8, <1>9, <1>10 DEF LoopStep

LEMMA CallListsStep ==
  ASSUME ListsInv, NEW c \in Call, Begin(c) \/ TakeEntry(c) \/ Expire(c) \/ CallStep(c)
  PROVE  ListsInv'
<1> USE DEF ListsInv, TypeOK, Savers, SnapshotsKeep, InvitedAreKept, CallGoes,
            worldVars, loopVars
<1>1. CASE Begin(c)
  BY <1>1 DEF Begin
<1>2. CASE TakeEntry(c)
  <2>1. Append(rest[c], host) \in EndpointList
    BY <1>2, AppendIsList DEF TakeEntry
  <2> QED BY <1>2, <2>1 DEF TakeEntry
<1>3. CASE Expire(c)
  BY <1>3, ShortLists DEF Expire, CallEnds
<1>4. CASE Post(c)
  <2>1. Tail(rest[c]) \in EndpointList
    BY <1>4, TailIsList DEF Post
  <2> QED BY <1>4, <2>1 DEF Post
<1>5. CASE Refused(c)
  BY <1>5, ShortLists DEF Refused, CallEnds
<1>6. CASE Discover(c)
  BY <1>6 DEF Discover
<1>7. CASE QueryEnds(c)
  BY <1>7 DEF QueryEnds
<1>8. CASE Validate(c)
  <2>1. host \in AddressesOf(rest[c]) => host \in Address
    BY DEF AddressesOf, EndpointList
  <2>2. (IF host \in AddressesOf(rest[c]) THEN <<host>> ELSE <<>>) \in EndpointList
    BY <2>1, ShortLists
  <2> QED BY <1>8, <2>2 DEF Validate
<1>9. CASE GiveUp(c)
  BY <1>9, ShortLists DEF GiveUp, CallEnds
<1>10. CASE RememberAnswered(c)
  <2>1. Head(rest[c]) \in Address
    BY <1>10, TailIsList DEF RememberAnswered
  <2>2. saved' \in EndpointList \ {<<>>} /\ AddressesOf(Invited) \subseteq AddressesOf(saved')
    BY <1>10, <2>1, RememberKeeps DEF RememberAnswered
  <2> QED BY <1>10, <2>2, ShortLists DEF RememberAnswered, CallEnds
<1> QED BY <1>1, <1>2, <1>3, <1>4, <1>5, <1>6, <1>7, <1>8, <1>9, <1>10 DEF CallStep

LEMMA ListsStep == ListsInv /\ [Next]_vars => ListsInv'
<1> SUFFICES ASSUME ListsInv, [Next]_vars PROVE ListsInv'
  OBVIOUS
<1>1. CASE Next
  BY <1>1, WorldListsStep, LoopListsStep, CallListsStep DEF Next
<1>2. CASE UNCHANGED vars
  BY <1>2 DEF ListsInv, TypeOK, Savers, SnapshotsKeep, InvitedAreKept, vars, worldVars,
              loopVars, callVars
<1> QED BY <1>1, <1>2

\* Every reachable state is well typed; in particular no list of endpoints in
\* state.json or in a client is empty where it may not be, or names one twice.
THEOREM TypeInvariant == Spec => []TypeOK
<1>1. ListsInv => TypeOK
  BY DEF ListsInv
<1> QED BY <1>1, ListsInit, ListsStep, PTL DEF Spec

\* state.json keeps every address of the invitation (Manager.UpdateEndpoints),
\* whatever clients with different snapshots write over each other's lists.
THEOREM InvitationIsKept == Spec => []InvitedAreKept
<1>1. ListsInv => InvitedAreKept
  BY DEF ListsInv
<1> QED BY <1>1, ListsInit, ListsStep, PTL DEF Spec

-----------------------------------------------------------------------------
(* Calls that report the host as offline.                                  *)

\* The functions of the calls, without what the lists of endpoints hold.
CallShape ==
    /\ at \in [Call -> {"idle", "post", "query", "validate", "again", "remember", "done"}]
    /\ outcome \in [Call -> {"none", "ok", "failed", "offline"}]
    /\ DOMAIN rest = Call

\* A call that has not begun has no outcome and counts for none of the history.
FreshCalls ==
    \A c \in Call : at[c] = "idle" => outcome[c] = "none" /\ c \notin steady

\* The calls in steady still find the host where they began ...
SteadyHasHost == steady # {} => host # None

\* ... so that what discovery gave them is where the host is, if its answer was
\* taken in time.
FoundIsHost ==
    \A c \in Call : c \in steady \ missed =>
        /\ at[c] = "validate" => host \in AddressesOf(rest[c])
        /\ at[c] = "again" => rest[c] = <<host>>

\* The inductive invariant.
OfflineInv == CallShape /\ FreshCalls /\ SteadyHasHost /\ FoundIsHost /\ OfflineIsReal

LEMMA OfflineInit == Init => OfflineInv
  BY DEF Init, OfflineInv, CallShape, FreshCalls, SteadyHasHost, FoundIsHost, OfflineIsReal

\* What the network and the provider do to the calls: nothing, except that a move
\* of the host ends what steady says.
LEMMA OthersChange ==
  ASSUME HostMoves \/ ConnectionDrops \/ StopProvider \/ LoopStep
  PROVE  /\ UNCHANGED <<at, rest, outcome, missed>>
         /\ steady' = {} \/ UNCHANGED <<steady, host>>
  BY DEF HostMoves, ConnectionDrops, StopProvider, LoopStep, LoadProfile, Dial, Announce,
         RememberDialed, NoneLeft, BackOff, NoticeStop, Exit, SessionEnds, worldVars, callVars

LEMMA CallOfflineStep ==
  ASSUME OfflineInv, NEW c \in Call, Begin(c) \/ TakeEntry(c) \/ Expire(c) \/ CallStep(c)
  PROVE  OfflineInv'
<1> USE DEF OfflineInv, CallShape, FreshCalls, SteadyHasHost, FoundIsHost, OfflineIsReal,
            worldVars, loopVars, CallGoes
<1>1. CASE Begin(c)
  BY <1>1 DEF Begin
<1>2. CASE Post(c)
  <2>1. rest[c] # <<>> /\ UNCHANGED <<host, steady, missed>>
    BY <1>2 DEF Post
  <2>2. CASE host = Head(rest[c])
    BY <1>2, <2>1, <2>2 DEF Post
  <2>3. CASE host # Head(rest[c])
    \* In the second round this is no call that discovery found the host for.
    <3>1. ~(at[c] = "again" /\ c \in steady \ missed)
      <4>1. Head(<<host>>) = host
        OBVIOUS
      <4> QED BY <4>1, <2>3
    <3> QED BY <1>2, <2>1, <2>3, <3>1 DEF Post
  <2> QED BY <2>2, <2>3
<1>3. CASE TakeEntry(c)
  BY <1>3 DEF TakeEntry
<1>4. CASE Expire(c) \/ Refused(c) \/ RememberAnswered(c)
  BY <1>4 DEF Expire, Refused, RememberAnswered, CallEnds
<1>5. CASE Discover(c)
  BY <1>5 DEF Discover
<1>6. CASE QueryEnds(c)
  BY <1>6 DEF QueryEnds
<1>7. CASE Validate(c)
  BY <1>7 DEF Validate
<1>8. CASE GiveUp(c)
  <2>1. c \notin steady \/ c \in missed
    <3>1. <<host>> # <<>>
      OBVIOUS
    <3> QED BY <1>8, <3>1 DEF GiveUp
  <2> QED BY <1>8, <2>1 DEF GiveUp, CallEnds
<1> QED BY <1>1, <1>2, <1>3, <1>4, <1>5, <1>6, <1>7, <1>8 DEF CallStep

LEMMA OfflineStep == OfflineInv /\ [Next]_vars => OfflineInv'
<1> SUFFICES ASSUME OfflineInv, [Next]_vars PROVE OfflineInv'
  OBVIOUS
<1>1. CASE HostMoves \/ ConnectionDrops \/ StopProvider \/ LoopStep
  <2>1. /\ UNCHANGED <<at, rest, outcome, missed>>
        /\ steady' = {} \/ UNCHANGED <<steady, host>>
    BY <1>1, OthersChange
  <2> QED BY <2>1 DEF OfflineInv, CallShape, FreshCalls, SteadyHasHost, FoundIsHost,
                      OfflineIsReal
<1>2. CASE \E c \in Call : Begin(c) \/ TakeEntry(c) \/ Expire(c) \/ CallStep(c)
  BY <1>2, CallOfflineStep
<1>3. CASE UNCHANGED vars
  BY <1>3 DEF OfflineInv, CallShape, FreshCalls, SteadyHasHost, FoundIsHost, OfflineIsReal,
              vars, worldVars, callVars
<1> QED BY <1>1, <1>2, <1>3 DEF Next

\* A call reports the host as offline (Client.RPC) only when the host moved or was
\* down since the call began, or when discovery did not take its answer in time.
THEOREM OfflineIsTold == Spec => []OfflineIsReal
<1>1. OfflineInv => OfflineIsReal
  BY DEF OfflineInv
<1> QED BY <1>1, OfflineInit, OfflineStep, PTL DEF Spec
=============================================================================

--------------------------- MODULE ResolverProofs ---------------------------
(***************************************************************************)
(* A shared lookup is counted, kept and ended rightly, for every number of *)
(* calls of Resolve, every set of sources and addresses: by induction on   *)
(* ResolverInv, which adds where lookups come from and what the one in the *)
(* map of resolutions is like.                                             *)
(***************************************************************************)
EXTENDS Resolver, FiniteSetTheorems, TLAPS

USE ResolverAssumption

\* The goroutines that the waiters of lookup k are counted for.
Users(k) == Waiting(k) \cup Leaving(k)

\* The lookups whose goroutine has started and not ended.
Alive == {k \in Lookups : lookup[k].pc \notin {"none", "done"}}

\* The calls that have not yet asked for the shared lookup.
Outside == {a \in Asks : ask[a].pc = "new" \/ remote[a].pc = "enter"}

\* A call starts one lookup at most.
Room ==
  /\ made + Cardinality(Outside) <= MaxAsks
  /\ \A a \in Asks : ask[a].pc = "new" => remote[a].pc = "off"

\* A goroutine waits for a lookup that was made.
OfMade ==
  \A a \in Asks : /\ remote[a].of <= made
                  /\ remote[a].pc \in {"wait", "leave"} => remote[a].of # 0

\* A lookup is as new until it is made, and started then.
Made == \A k \in Lookups : IF k <= made THEN lookup[k].pc # "none" ELSE lookup[k] = NewLookup

\* What a new call would join is running, and nobody has cancelled it.
CurrentRuns ==
  current # 0 => /\ current <= made /\ ~closed
                 /\ Running(current) /\ ~lookup[current].cancelled

ResolverInv == SharedRight /\ Room /\ OfMade /\ Made /\ CurrentRuns

-----------------------------------------------------------------------------
(* What the bounds and the types say.                                      *)

\* There are finitely many calls and lookups.
LEMMA Finiteness ==
  /\ IsFiniteSet(Asks) /\ Cardinality(Asks) = MaxAsks
  /\ IsFiniteSet(Lookups) /\ Cardinality(Lookups) = MaxAsks
BY FS_Interval DEF Asks, Lookups

\* Sets of calls or lookups are finite and no larger than the bound.
LEMMA Sizes ==
  /\ \A S \in SUBSET Asks : IsFiniteSet(S) /\ Cardinality(S) \in 0 .. MaxAsks
  /\ \A S \in SUBSET Lookups : IsFiniteSet(S) /\ Cardinality(S) \in 0 .. MaxAsks
<1>1. ASSUME NEW S \in SUBSET Asks
      PROVE  IsFiniteSet(S) /\ Cardinality(S) \in 0 .. MaxAsks
  <2>1. IsFiniteSet(S) /\ Cardinality(S) <= MaxAsks
    BY Finiteness, FS_Subset
  <2>2. Cardinality(S) \in Nat
    BY <2>1, FS_CardinalityType
  <2> QED BY <2>1, <2>2
<1> QED BY <1>1 DEF Asks, Lookups

\* The invariant in its parts, with the counts under names.
LEMMA Parts ==
  ASSUME ResolverInv
  PROVE  /\ TypeOK /\ CountsExact /\ WantedRuns /\ Room /\ OfMade /\ Made /\ CurrentRuns
         /\ current # 0 => lookup[current].waiters = Cardinality(Users(current))
         /\ active = Cardinality(Alive)
BY DEF ResolverInv, SharedRight, CountsExact, Users, Alive

\* The first state.
LEMMA InitInv == Init => ResolverInv
<1> SUFFICES ASSUME Init PROVE ResolverInv
  OBVIOUS
<1>1. /\ NewAsk \in AskRec /\ NewAsk.pc = "new"
      /\ NoRemote \in RemoteRec /\ NoRemote.pc = "off" /\ NoRemote.of = 0
      /\ NewLookup \in LookupRec /\ NewLookup.pc = "none"
  BY DEF NewAsk, AskRec, NoRemote, RemoteRec, NewLookup, LookupRec, IPOrNone
<1>2. TypeOK
  <2>1. 0 \in 0 .. MaxAsks /\ NoIP \in IPOrNone
    BY DEF IPOrNone
  <2>2. /\ ask \in [Asks -> AskRec] /\ remote \in [Asks -> RemoteRec]
        /\ lookup \in [Lookups -> LookupRec]
    BY <1>1 DEF Init
  <2> QED BY <2>1, <2>2 DEF Init, TypeOK
<1>3. Alive = {}
  BY <1>1 DEF Init, Alive
<1>4. CountsExact
  BY <1>2, <1>3, FS_EmptySet DEF Init, CountsExact, Alive
<1>5. WantedRuns
  BY <1>1 DEF Init, WantedRuns, Running
<1>6. Room
  <2>1. Outside \in SUBSET Asks
    BY DEF Outside
  <2>2. Cardinality(Outside) \in 0 .. MaxAsks
    BY <2>1, Sizes
  <2> QED BY <1>1, <2>2 DEF Init, Room
<1>7. OfMade /\ Made /\ CurrentRuns
  BY <1>1 DEF Init, OfMade, Made, CurrentRuns, Lookups
<1> QED BY <1>4, <1>5, <1>6, <1>7 DEF ResolverInv, SharedRight

-----------------------------------------------------------------------------
(* Resolve, which touches neither the lookups nor who waits for them.      *)

\* A step of call a of Resolve: its goroutine starts, or its result is dropped.
AskEffect(a) ==
  /\ ask' \in [Asks -> AskRec] /\ ask'[a].pc # "new"
  /\ remote' \in [Asks -> RemoteRec]
  /\ \A b \in Asks \ {a} : ask'[b] = ask[b] /\ remote'[b] = remote[b]
  /\ \/ remote'[a] = remote[a]
     \/ ask[a].pc = "new" /\ remote'[a] = [remote[a] EXCEPT !.pc = "enter"]
     \/ remote[a].pc = "told" /\ remote'[a] = NoRemote
  /\ cache' \in IPOrNone
  /\ UNCHANGED <<lookup, current, made, active, closed, useTCP>>

\* Returning is such a step.
LEMMA ReturnsEffect ==
  ASSUME TypeOK, NEW a \in Asks, Returns(a), cache' \in IPOrNone,
         UNCHANGED <<lookup, current, made, active, closed, useTCP>>
  PROVE  AskEffect(a)
<1>1. [NewAsk EXCEPT !.pc = "done"] \in AskRec /\ [NewAsk EXCEPT !.pc = "done"].pc = "done"
  BY DEF NewAsk, AskRec, IPOrNone
<1>2. NoRemote \in RemoteRec
  BY DEF NoRemote, RemoteRec, IPOrNone
<1> QED BY <1>1, <1>2 DEF Returns, AskEffect, TypeOK

\* So is every step of Resolve.
LEMMA AskSteps ==
  ASSUME TypeOK, NEW a \in Asks,
         Start(a) \/ AskStep(a) \/ WindowEnds(a) \/ Cancelled(a)
  PROVE  AskEffect(a)
<1>0. /\ ask \in [Asks -> AskRec] /\ ask[a] \in AskRec /\ ask[a].first \in IPOrNone
      /\ remote \in [Asks -> RemoteRec] /\ remote[a] \in RemoteRec
      /\ cache \in IPOrNone /\ IPs \subseteq IPOrNone /\ NoIP \in IPOrNone
  BY DEF TypeOK, AskRec, IPOrNone
<1>1. CASE Start(a)
  <2>1. CASE Returns(a) /\ cache' \in IPOrNone
    BY <1>1, <2>1, ReturnsEffect DEF Start
  <2>2. ASSUME NEW ip \in History \ Preferred,
               ask' = [ask EXCEPT ![a].pc = "wait", ![a].first = ip],
               remote' = [remote EXCEPT ![a].pc = "enter"], cache' = cache
        PROVE  AskEffect(a)
    <3>1. ip \in IPOrNone
      BY <2>2 DEF IPOrNone
    <3>2. /\ ask' \in [Asks -> AskRec] /\ ask'[a].pc = "wait"
          /\ \A b \in Asks \ {a} : ask'[b] = ask[b]
      BY <1>0, <2>2, <3>1 DEF AskRec
    <3>3. /\ remote' \in [Asks -> RemoteRec]
          /\ remote'[a] = [remote[a] EXCEPT !.pc = "enter"]
          /\ \A b \in Asks \ {a} : remote'[b] = remote[b]
      BY <1>0, <2>2 DEF RemoteRec
    <3> QED BY <1>0, <1>1, <2>2, <3>2, <3>3 DEF AskEffect, Start
  <2> QED BY <1>0, <1>1, <2>1, <2>2 DEF Start
<1>2. ASSUME NEW s \in Sources, NEW ip \in IPOrNone, Hear(a, s, ip),
             s = "remote" => remote[a].pc = "told"
      PROVE  AskEffect(a)
  <2> DEFINE first == IF ask[a].first = NoIP THEN ip ELSE ask[a].first
             heard == ask[a].heard \cup {s}
  <2>1. first \in IPOrNone /\ heard \in SUBSET Sources
    BY <1>0, <1>2 DEF AskRec
  <2> HIDE DEF first, heard
  <2>2. CASE Returns(a) /\ cache' \in IPOrNone
    BY <1>2, <2>2, ReturnsEffect DEF Hear
  <2>3. CASE /\ ask' = [ask EXCEPT ![a].first = first, ![a].heard = heard]
             /\ remote' = IF s = "remote" THEN [remote EXCEPT ![a] = NoRemote] ELSE remote
             /\ cache' = cache
    <3>1. /\ ask' \in [Asks -> AskRec] /\ ask'[a].pc = ask[a].pc
          /\ \A b \in Asks \ {a} : ask'[b] = ask[b]
      BY <1>0, <2>1, <2>3 DEF AskRec
    <3>2. ask[a].pc = "wait"
      BY <1>2 DEF Hear
    <3>3. NoRemote \in RemoteRec
      BY DEF NoRemote, RemoteRec, IPOrNone
    <3>4. UNCHANGED <<lookup, current, made, active, closed, useTCP>>
      BY <1>2 DEF Hear
    <3> QED BY <1>0, <1>2, <2>3, <3>1, <3>2, <3>3, <3>4 DEF AskEffect
  <2> QED BY <1>0, <1>2, <2>1, <2>2, <2>3 DEF Hear, first, heard, IPOrNone
<1>3. CASE AskStep(a)
  <2>1. ASSUME NEW s \in Others, NEW ip \in IPOrNone, Hear(a, s, ip)
        PROVE  AskEffect(a)
    <3>1. s \in Sources /\ s # "remote"
      BY DEF Sources
    <3> QED BY <1>2, <2>1, <3>1
  <2>2. CASE HearRemote(a)
    <3>1. "remote" \in Sources /\ remote[a].ip \in IPOrNone
      BY <1>0 DEF Sources, RemoteRec
    <3> QED BY <1>2, <2>2, <3>1 DEF HearRemote
  <2> QED BY <1>3, <2>1, <2>2 DEF AskStep
<1>4. CASE WindowEnds(a)
  <2>1. CASE ask[a].first # NoIP
    BY <1>0, <1>4, <2>1, ReturnsEffect DEF WindowEnds
  <2>2. CASE ask[a].first = NoIP
    <3>1. /\ ask' = [ask EXCEPT ![a].window = FALSE] /\ ask[a].pc = "wait"
          /\ UNCHANGED <<cache, remote, lookup, current, made, active, closed, useTCP>>
      BY <1>4, <2>2 DEF WindowEnds
    <3>2. /\ ask' \in [Asks -> AskRec] /\ ask'[a].pc = ask[a].pc
          /\ \A b \in Asks \ {a} : ask'[b] = ask[b]
      BY <1>0, <3>1 DEF AskRec
    <3> QED BY <1>0, <3>1, <3>2 DEF AskEffect
  <2> QED BY <2>1, <2>2
<1>5. CASE Cancelled(a)
  BY <1>0, <1>5, ReturnsEffect DEF Cancelled
<1> QED BY <1>1, <1>3, <1>4, <1>5

\* And it keeps the invariant.
LEMMA AskKeeps ==
  ASSUME ResolverInv, NEW a \in Asks, AskEffect(a)
  PROVE  ResolverInv'
<1>0. TypeOK /\ CountsExact /\ WantedRuns /\ Room /\ OfMade /\ Made /\ CurrentRuns
  BY Parts
<1>1. TypeOK'
  BY <1>0 DEF TypeOK, AskEffect
<1>2. \A b \in Asks : /\ remote'[b].pc \in {"wait", "leave"} <=> remote[b].pc \in {"wait", "leave"}
                      /\ remote[b].pc \in {"wait", "leave"} => remote'[b] = remote[b]
                      /\ remote'[b].of \in {remote[b].of, 0}
  <2>1. /\ remote'[a].pc \in {"wait", "leave"} <=> remote[a].pc \in {"wait", "leave"}
        /\ remote[a].pc \in {"wait", "leave"} => remote'[a] = remote[a]
        /\ remote'[a].of \in {remote[a].of, 0}
    <3>1. remote[a] \in RemoteRec /\ (ask[a].pc = "new" => remote[a].pc = "off")
      BY <1>0 DEF TypeOK, Room
    <3> QED BY <3>1 DEF AskEffect, NoRemote, RemoteRec
  <2> QED BY <2>1 DEF AskEffect
<1>3. \A k \in Lookups : /\ Waiting(k)' = Waiting(k) /\ Leaving(k)' = Leaving(k)
                         /\ Running(k)' = Running(k)
  BY <1>2 DEF Waiting, Leaving, Running, AskEffect
<1>4. CountsExact'
  <2>1. current' # 0 => current' \in Lookups
    BY <1>1 DEF TypeOK
  <2> QED BY <1>0, <1>1, <1>3, <2>1 DEF CountsExact, AskEffect
<1>5. WantedRuns'
  BY <1>0, <1>3 DEF WantedRuns, AskEffect
<1>6. Room'
  <2>1. Outside' \subseteq Outside /\ Outside \subseteq Asks
    BY <1>0 DEF Outside, AskEffect, NoRemote, RemoteRec, TypeOK
  <2>2. Cardinality(Outside') <= Cardinality(Outside)
    BY <2>1, Sizes, FS_Subset
  <2>3. Cardinality(Outside') \in Nat /\ Cardinality(Outside) \in Nat /\ made \in Nat
    BY <1>0, <2>1, Sizes DEF TypeOK
  <2>4. made' + Cardinality(Outside') <= MaxAsks
    BY <1>0, <2>2, <2>3 DEF Room, AskEffect
  <2> QED BY <1>0, <2>4 DEF Room, AskEffect
<1>7. OfMade'
  BY <1>0, <1>2 DEF OfMade, AskEffect, TypeOK
<1>8. Made' /\ CurrentRuns'
  BY <1>0 DEF Made, CurrentRuns, Running, AskEffect
<1> QED BY <1>4, <1>5, <1>6, <1>7, <1>8 DEF ResolverInv, SharedRight

-----------------------------------------------------------------------------
(* The goroutines that wait for a shared lookup.                           *)

\* What Tell leaves behind is no waiter.
LEMMA TellEffect ==
  ASSUME TypeOK, NEW a \in Asks, NEW ip \in IPOrNone, Tell(a, ip)
  PROVE  /\ remote' \in [Asks -> RemoteRec]
         /\ \A b \in Asks \ {a} : remote'[b] = remote[b]
         /\ remote'[a].pc \in {"off", "told"} /\ remote'[a].of = 0
<1>1. NoRemote \in RemoteRec /\ [pc |-> "told", of |-> 0, ip |-> ip] \in RemoteRec
  BY DEF NoRemote, RemoteRec, IPOrNone
<1> QED BY <1>1 DEF Tell, TypeOK, NoRemote

\* Goroutine a stops being about to ask or waiting for lookup k; the lookups stay.
LEMMA LeaveOutside ==
  ASSUME ResolverInv, NEW a \in Asks, ask' = ask,
         remote' \in [Asks -> RemoteRec],
         \A b \in Asks \ {a} : remote'[b] = remote[b],
         remote[a].pc # "off", remote'[a].pc \notin {"enter"}
  PROVE  /\ Outside' = Outside \ {a}
         /\ Cardinality(Outside') <= Cardinality(Outside)
         /\ remote[a].pc = "enter" => Cardinality(Outside') = Cardinality(Outside) - 1
         /\ Cardinality(Outside) \in Nat /\ Cardinality(Outside') \in Nat
         /\ \A b \in Asks : ask'[b].pc = "new" => remote'[b].pc = "off"
<1>1. TypeOK /\ Room
  BY Parts
<1>2. Outside \in SUBSET Asks /\ Outside' = Outside \ {a}
  BY <1>1 DEF Outside, Room
<1>3. remote[a].pc = "enter" => a \in Outside
  BY DEF Outside
<1>4. IsFiniteSet(Outside) /\ Cardinality(Outside) \in Nat
  BY <1>2, Sizes
<1>5. Cardinality(Outside \ {a})
        = IF a \in Outside THEN Cardinality(Outside) - 1 ELSE Cardinality(Outside)
  BY <1>4, FS_RemoveElement
<1>6. Cardinality(Outside \ {a}) \in Nat
  BY <1>4, FS_RemoveElement, FS_CardinalityType
<1>7. \A b \in Asks : ask'[b].pc = "new" => remote'[b].pc = "off"
  BY <1>1 DEF Room
<1> QED BY <1>2, <1>3, <1>4, <1>5, <1>6, <1>7

\* The shared lookup has answered.
LEMMA AnsweredKeeps ==
  ASSUME ResolverInv, NEW a \in Asks, Answered(a)
  PROVE  ResolverInv'
<1>0. TypeOK /\ CountsExact /\ WantedRuns /\ Room /\ OfMade /\ Made /\ CurrentRuns
  BY Parts
<1> DEFINE k == remote[a].of
<1>1. k \in Lookups /\ lookup[k] \in LookupRec /\ lookup[k].pc = "done" /\ lookup[k].ip \in IPOrNone
  BY <1>0 DEF Answered, OfMade, TypeOK, RemoteRec, LookupRec
<1>2. /\ remote' \in [Asks -> RemoteRec]
      /\ \A b \in Asks \ {a} : remote'[b] = remote[b]
      /\ remote'[a].pc \in {"off", "told"} /\ remote'[a].of = 0
  BY <1>0, <1>1, TellEffect DEF Answered
<1>3. /\ remote[a].pc = "wait" /\ ask' = ask
      /\ UNCHANGED <<cache, lookup, current, made, active, closed, useTCP>>
  BY DEF Answered
<1>4. TypeOK'
  BY <1>0, <1>2, <1>3 DEF TypeOK
<1>5. current # k
  BY <1>0, <1>1 DEF CurrentRuns, Running, Lookups
<1>6. \A j \in Lookups : /\ Running(j)' = Running(j) /\ Waiting(j)' \subseteq Waiting(j)
                         /\ j # k => Waiting(j)' = Waiting(j)
                         /\ Leaving(j)' = Leaving(j)
  BY <1>2, <1>3 DEF Running, Waiting, Leaving
<1>7. CountsExact'
  <2>1. current' # 0 => current' \in Lookups
    BY <1>4 DEF TypeOK
  <2> QED BY <1>0, <1>3, <1>4, <1>5, <1>6, <2>1 DEF CountsExact
<1>8. WantedRuns'
  BY <1>0, <1>3, <1>6 DEF WantedRuns
<1>9. Room'
  <2>1. /\ Cardinality(Outside') <= Cardinality(Outside)
        /\ Cardinality(Outside) \in Nat /\ Cardinality(Outside') \in Nat
        /\ \A b \in Asks : ask'[b].pc = "new" => remote'[b].pc = "off"
    BY <1>2, <1>3, LeaveOutside
  <2>2. made \in Nat
    BY <1>0 DEF TypeOK
  <2> QED BY <1>0, <1>3, <2>1, <2>2 DEF Room
<1>10. OfMade' /\ Made' /\ CurrentRuns'
  <2>1. made \in Nat
    BY <1>0 DEF TypeOK
  <2> QED BY <1>0, <1>2, <1>3, <2>1 DEF OfMade, Made, CurrentRuns, Running
<1> QED BY <1>7, <1>8, <1>9, <1>10 DEF ResolverInv, SharedRight

\* A goroutine gives up; it is still counted.
LEMMA GiveUpKeeps ==
  ASSUME ResolverInv, NEW a \in Asks, GiveUp(a)
  PROVE  ResolverInv'
<1>0. TypeOK /\ CountsExact /\ WantedRuns /\ Room /\ OfMade /\ Made /\ CurrentRuns
  BY Parts
<1>1. /\ remote[a].pc = "wait" /\ remote' = [remote EXCEPT ![a].pc = "leave"]
      /\ UNCHANGED <<cache, ask, lookup, current, made, active, closed, useTCP>>
  BY DEF GiveUp
<1>2. /\ remote' \in [Asks -> RemoteRec]
      /\ \A b \in Asks \ {a} : remote'[b] = remote[b]
      /\ remote'[a].pc = "leave" /\ remote'[a].of = remote[a].of
  BY <1>0, <1>1 DEF TypeOK, RemoteRec
<1>3. TypeOK'
  BY <1>0, <1>1, <1>2 DEF TypeOK
<1>4. \A j \in Lookups : /\ Running(j)' = Running(j) /\ Waiting(j)' \subseteq Waiting(j)
                         /\ Waiting(j)' \cup Leaving(j)' = Waiting(j) \cup Leaving(j)
  BY <1>1, <1>2 DEF Running, Waiting, Leaving
<1>5. CountsExact'
  <2>1. current' # 0 => current' \in Lookups
    BY <1>3 DEF TypeOK
  <2> QED BY <1>0, <1>1, <1>3, <1>4, <2>1 DEF CountsExact
<1>6. WantedRuns'
  BY <1>0, <1>1, <1>4 DEF WantedRuns
<1>7. Room'
  <2>1. /\ Cardinality(Outside') <= Cardinality(Outside)
        /\ Cardinality(Outside) \in Nat /\ Cardinality(Outside') \in Nat
        /\ \A b \in Asks : ask'[b].pc = "new" => remote'[b].pc = "off"
    BY <1>1, <1>2, LeaveOutside
  <2>2. made \in Nat
    BY <1>0 DEF TypeOK
  <2> QED BY <1>0, <1>1, <2>1, <2>2 DEF Room
<1>8. OfMade' /\ Made' /\ CurrentRuns'
  BY <1>0, <1>1, <1>2 DEF OfMade, Made, CurrentRuns, Running
<1> QED BY <1>5, <1>6, <1>7, <1>8 DEF ResolverInv, SharedRight

\* The last waiter is the only one who is counted.
LEMMA LastUser ==
  ASSUME TypeOK, NEW k \in Lookups, NEW a \in Users(k)
  PROVE  /\ Cardinality(Users(k)) \in 1 .. MaxAsks
         /\ Cardinality(Users(k) \ {a}) = Cardinality(Users(k)) - 1
         /\ Cardinality(Users(k)) = 1 => Users(k) = {a}
<1>1. Users(k) \in SUBSET Asks
  BY DEF Users, Waiting, Leaving
<1>2. IsFiniteSet(Users(k)) /\ Cardinality(Users(k)) \in 0 .. MaxAsks
  BY <1>1, Sizes
<1>3. Cardinality(Users(k) \ {a}) = Cardinality(Users(k)) - 1
  BY <1>2, FS_RemoveElement
<1>4. Cardinality(Users(k)) # 0
  BY <1>2, FS_EmptySet
<1>5. Cardinality(Users(k)) = 1 => Users(k) = {a}
  BY <1>2, FS_Singleton
<1> QED BY <1>2, <1>3, <1>4, <1>5

\* A goroutine leaves: the last one cancels the lookup and takes it from the map.
LEMMA ReleaseKeeps ==
  ASSUME ResolverInv, NEW a \in Asks, Release(a)
  PROVE  ResolverInv'
<1>0. /\ TypeOK /\ CountsExact /\ WantedRuns /\ Room /\ OfMade /\ Made /\ CurrentRuns
      /\ current # 0 => lookup[current].waiters = Cardinality(Users(current))
  BY Parts
<1>k. PICK k \in Lookups : k = remote[a].of
  BY <1>0 DEF Release, OfMade, TypeOK, RemoteRec
<1>n. PICK n : n = lookup[k].waiters
  OBVIOUS
<1>1. /\ remote[a].pc = "leave" /\ Tell(a, NoIP)
      /\ UNCHANGED <<cache, ask, made, active, closed, useTCP>>
      /\ lookup[k] \in LookupRec /\ a \in Users(k)
  BY <1>0, <1>k DEF Release, OfMade, TypeOK, RemoteRec, Users, Leaving
<1>2. /\ remote' \in [Asks -> RemoteRec]
      /\ \A b \in Asks \ {a} : remote'[b] = remote[b]
      /\ remote'[a].pc \in {"off", "told"} /\ remote'[a].of = 0
  BY <1>0, <1>1, TellEffect DEF IPOrNone
<1>3. /\ \A j \in Lookups : Users(j)' = Users(j) \ {a}
      /\ \A j \in Lookups : Waiting(j)' = Waiting(j)
  BY <1>1, <1>2 DEF Users, Waiting, Leaving
<1>4. Room'
  <2>1. /\ Cardinality(Outside') <= Cardinality(Outside)
        /\ Cardinality(Outside) \in Nat /\ Cardinality(Outside') \in Nat
        /\ \A b \in Asks : ask'[b].pc = "new" => remote'[b].pc = "off"
    BY <1>1, <1>2, LeaveOutside
  <2>2. made \in Nat
    BY <1>0 DEF TypeOK
  <2> QED BY <1>0, <1>1, <2>1, <2>2 DEF Room
<1>5. OfMade'
  BY <1>0, <1>1, <1>2 DEF OfMade, TypeOK
<1>6. CASE current = k
  <2>1. /\ n = Cardinality(Users(k)) /\ n \in 1 .. MaxAsks
        /\ Cardinality(Users(k)') = n - 1
        /\ n = 1 => Users(k) = {a}
    BY <1>0, <1>1, <1>3, <1>6, <1>n, LastUser DEF Lookups
  <2>2. /\ lookup' = [lookup EXCEPT ![k].waiters = n - 1,
                                    ![k].cancelled = lookup[k].cancelled \/ n = 1]
        /\ current' = IF n = 1 THEN 0 ELSE current
    BY <1>0, <1>1, <1>6, <1>k, <1>n DEF Release, TypeOK
  <2>3. /\ lookup' \in [Lookups -> LookupRec]
        /\ \A j \in Lookups \ {k} : lookup'[j] = lookup[j]
        /\ lookup'[k].waiters = n - 1 /\ lookup'[k].pc = lookup[k].pc
        /\ n # 1 => lookup'[k].cancelled = lookup[k].cancelled
    <3>1. n - 1 \in 0 .. MaxAsks
      BY <2>1
    <3>2. lookup \in [Lookups -> LookupRec] /\ lookup[k].cancelled \in BOOLEAN
      BY <1>0, <1>1 DEF TypeOK, LookupRec
    <3> QED BY <1>1, <2>2, <3>1, <3>2 DEF LookupRec
  <2>4. TypeOK'
    BY <1>0, <1>1, <1>2, <2>2, <2>3 DEF TypeOK
  <2>5. \A j \in Lookups : lookup'[j].pc = lookup[j].pc /\ Running(j)' = Running(j)
    BY <2>3 DEF Running
  <2>6. Alive' = Alive
    BY <2>5 DEF Alive
  <2>7. CountsExact'
    <3>1. current' # 0 => lookup'[current'].waiters = Cardinality(Users(current)')
      BY <1>6, <2>1, <2>2, <2>3
    <3>2. active' = Cardinality(Alive')
      BY <1>0, <1>1, <2>6 DEF CountsExact, Alive
    <3> QED BY <2>4, <3>1, <3>2 DEF CountsExact, Users, Alive
  <2>8. WantedRuns'
    <3>1. ASSUME NEW j \in Lookups, Running(j)', Waiting(j)' # {}, ~closed'
          PROVE  current' = j /\ ~lookup'[j].cancelled
      <4>1. current = j /\ ~lookup[j].cancelled
        BY <1>0, <1>1, <1>3, <2>5, <3>1 DEF WantedRuns
      <4>2. n # 1
        <5>1. Waiting(k)' \subseteq Users(k)'
          BY DEF Users
        <5> QED BY <1>3, <1>6, <2>1, <3>1, <4>1, <5>1
      <4> QED BY <1>6, <2>2, <2>3, <4>1, <4>2
    <3> QED BY <3>1 DEF WantedRuns
  <2>9. Made'
    <3>1. k <= made /\ made' = made
      BY <1>0, <1>1, <1>k DEF OfMade
    <3> QED BY <1>0, <2>3, <2>5, <3>1 DEF Made
  <2>10. CurrentRuns'
    BY <1>0, <1>1, <1>6, <2>2, <2>3, <2>5 DEF CurrentRuns, Running
  <2> QED BY <1>4, <1>5, <2>7, <2>8, <2>9, <2>10 DEF ResolverInv, SharedRight
<1>7. CASE current # k
  <2>1. UNCHANGED <<lookup, current>>
    BY <1>7, <1>k DEF Release
  <2>2. TypeOK'
    BY <1>0, <1>1, <1>2, <2>1 DEF TypeOK
  <2>3. current # 0 => Users(current)' = Users(current)
    <3>1. \A j \in Lookups : j # k => a \notin Users(j)
      BY <1>k DEF Users, Waiting, Leaving
    <3>2. current # 0 => current \in Lookups /\ Users(current)' = Users(current) \ {a}
      BY <1>0, <1>3, <2>1 DEF TypeOK
    <3> QED BY <1>7, <3>1, <3>2
  <2>4. CountsExact'
    BY <1>0, <1>1, <2>1, <2>2, <2>3 DEF CountsExact, Users
  <2>5. WantedRuns' /\ Made' /\ CurrentRuns'
    BY <1>0, <1>1, <1>3, <2>1 DEF WantedRuns, Made, CurrentRuns, Running
  <2> QED BY <1>4, <1>5, <2>4, <2>5 DEF ResolverInv, SharedRight
<1> QED BY <1>6, <1>7

\* A goroutine joins the lookup under way.
LEMMA JoinsOld ==
  ASSUME ResolverInv, NEW a \in Asks, Join(a), current # 0
  PROVE  ResolverInv'
<1>0. /\ TypeOK /\ CountsExact /\ WantedRuns /\ Room /\ OfMade /\ Made /\ CurrentRuns
      /\ lookup[current].waiters = Cardinality(Users(current))
  BY Parts
<1>k. PICK k \in Lookups : k = current
  BY <1>0 DEF TypeOK
<1>1. /\ remote[a].pc = "enter" /\ ~closed
      /\ remote' = [remote EXCEPT ![a].pc = "wait", ![a].of = k]
      /\ lookup' = [lookup EXCEPT ![k].waiters = @ + 1]
      /\ UNCHANGED <<current, made, active, cache, ask, closed, useTCP>>
      /\ lookup[k] \in LookupRec /\ k <= made
  BY <1>0, <1>k DEF Join, CurrentRuns, TypeOK
<1>2. /\ remote' \in [Asks -> RemoteRec]
      /\ \A b \in Asks \ {a} : remote'[b] = remote[b]
      /\ remote'[a].pc = "wait" /\ remote'[a].of = k
  BY <1>0, <1>1 DEF TypeOK, RemoteRec
<1>3. Users(k)' = Users(k) \cup {a} /\ a \notin Users(k)
  BY <1>1, <1>2 DEF Users, Waiting, Leaving
<1>4. /\ Users(k) \in SUBSET Asks /\ Users(k)' \in SUBSET Asks
  BY DEF Users, Waiting, Leaving
<1>5. /\ Cardinality(Users(k)') = lookup[k].waiters + 1
      /\ Cardinality(Users(k)') \in 0 .. MaxAsks
  <2>1. IsFiniteSet(Users(k))
    BY <1>4, Sizes
  <2>2. Cardinality(Users(k) \cup {a}) = Cardinality(Users(k)) + 1
    BY <1>3, <2>1, FS_AddElement
  <2> QED BY <1>0, <1>k, <1>3, <1>4, <2>2, Sizes
<1>6. /\ lookup' \in [Lookups -> LookupRec]
      /\ \A j \in Lookups \ {k} : lookup'[j] = lookup[j]
      /\ lookup'[k].waiters = lookup[k].waiters + 1 /\ lookup'[k].pc = lookup[k].pc
      /\ lookup'[k].cancelled = lookup[k].cancelled
  BY <1>0, <1>1, <1>5 DEF TypeOK, LookupRec
<1>7. TypeOK'
  BY <1>0, <1>1, <1>2, <1>6 DEF TypeOK
<1>8. \A j \in Lookups : lookup'[j].pc = lookup[j].pc /\ Running(j)' = Running(j)
  BY <1>6 DEF Running
<1>9. CountsExact'
  <2>1. Alive' = Alive
    BY <1>8 DEF Alive
  <2>2. active' = Cardinality(Alive')
    BY <1>0, <1>1, <2>1 DEF CountsExact, Alive
  <2>3. lookup'[current'].waiters = Cardinality(Users(current)')
    BY <1>k, <1>1, <1>5, <1>6
  <2> QED BY <1>k, <1>1, <1>7, <2>2, <2>3 DEF CountsExact, Users, Alive
<1>10. WantedRuns'
  <2>1. \A j \in Lookups \ {k} : Waiting(j)' = Waiting(j)
    BY <1>1, <1>2 DEF Waiting
  <2> QED BY <1>k, <1>0, <1>1, <1>6, <1>8, <2>1 DEF WantedRuns, CurrentRuns
<1>11. Room'
  <2>1. /\ Cardinality(Outside') <= Cardinality(Outside)
        /\ Cardinality(Outside) \in Nat /\ Cardinality(Outside') \in Nat
        /\ \A b \in Asks : ask'[b].pc = "new" => remote'[b].pc = "off"
    BY <1>1, <1>2, LeaveOutside
  <2>2. made \in Nat /\ made + Cardinality(Outside) <= MaxAsks /\ made' = made
    BY <1>0, <1>1 DEF TypeOK, Room
  <2> QED BY <2>1, <2>2 DEF Room
<1>12. OfMade'
  <2>1. made' = made /\ k <= made /\ k # 0
    BY <1>0, <1>1 DEF Lookups
  <2>2. ASSUME NEW b \in Asks
        PROVE  /\ remote'[b].of <= made'
               /\ remote'[b].pc \in {"wait", "leave"} => remote'[b].of # 0
    <3>1. CASE b = a
      BY <1>2, <2>1, <3>1
    <3>2. CASE b # a
      <4>1. remote'[b] = remote[b]
        BY <1>2, <3>2
      <4>2. /\ remote[b].of <= made
            /\ remote[b].pc \in {"wait", "leave"} => remote[b].of # 0
        BY <1>0 DEF OfMade
      <4>3. made' = made
        BY <1>1
      <4> QED BY <4>1, <4>2, <4>3
    <3> QED BY <3>1, <3>2
  <2> QED BY <2>2 DEF OfMade
<1>13. Made' /\ CurrentRuns'
  BY <1>k, <1>0, <1>1, <1>6, <1>8 DEF Made, CurrentRuns, Running
<1> QED BY <1>9, <1>10, <1>11, <1>12, <1>13 DEF ResolverInv, SharedRight

\* A goroutine starts a lookup.
LEMMA JoinsNew ==
  ASSUME ResolverInv, NEW a \in Asks, Join(a), current = 0, ~closed
  PROVE  ResolverInv'
<1>0. /\ TypeOK /\ CountsExact /\ WantedRuns /\ Room /\ OfMade /\ Made /\ CurrentRuns
      /\ active = Cardinality(Alive)
  BY Parts
<1>k. PICK k : k = made + 1
  OBVIOUS
<1>1. /\ remote[a].pc = "enter"
      /\ remote' = [remote EXCEPT ![a].pc = "wait", ![a].of = k]
      /\ lookup' = [lookup EXCEPT ![k].waiters = 1, ![k].pc = "start"]
      /\ current' = k /\ made' = k /\ active' = active + 1
      /\ UNCHANGED <<cache, ask, closed, useTCP>>
  BY <1>k DEF Join
<1>2. /\ remote[a].pc # "off" /\ made \in Nat
      /\ \A b \in Asks \ {a} : remote'[b] = remote[b]
      /\ remote'[a].pc = "wait" /\ remote'[a].of = k
  BY <1>0, <1>1 DEF TypeOK, RemoteRec
<1>3. k \in Lookups /\ \A b \in Asks : ask[b].pc = "new" => remote[b].pc = "off"
  <2>1. Outside \in SUBSET Asks /\ a \in Outside
    BY <1>1 DEF Outside
  <2>2. Cardinality(Outside) \in Nat /\ Cardinality(Outside) # 0
    BY <2>1, Sizes, FS_EmptySet
  <2> QED BY <1>k, <1>0, <1>2, <2>2 DEF Room, Lookups
<1>4. /\ remote' \in [Asks -> RemoteRec]
  <2>1. remote' = [remote EXCEPT ![a] = [remote[a] EXCEPT !.pc = "wait", !.of = k]]
    BY <1>1
  <2>2. remote \in [Asks -> RemoteRec]
    BY <1>0 DEF TypeOK
  <2>3. [remote[a] EXCEPT !.pc = "wait", !.of = k] \in RemoteRec
    BY <1>3, <2>2 DEF RemoteRec
  <2> QED BY <2>1, <2>2, <2>3
<1>5. /\ lookup[k] = NewLookup /\ NewLookup.pc = "none" /\ ~NewLookup.cancelled
  <2>1. ~(k <= made)
    BY <1>k, <1>2
  <2>2. lookup[k] = NewLookup
    BY <1>0, <1>3, <2>1 DEF Made
  <2> QED BY <2>2 DEF NewLookup
<1>6. /\ lookup' \in [Lookups -> LookupRec]
      /\ \A j \in Lookups \ {k} : lookup'[j] = lookup[j]
      /\ lookup'[k].waiters = 1 /\ lookup'[k].pc = "start" /\ ~lookup'[k].cancelled
  BY <1>0, <1>1, <1>3, <1>5 DEF TypeOK, LookupRec
<1>7. active' = Cardinality(Alive') /\ active' \in 0 .. MaxAsks
  <2>1. Alive' = Alive \cup {k} /\ k \notin Alive
    BY <1>3, <1>5, <1>6 DEF Alive
  <2>2. Alive \in SUBSET Lookups /\ Alive' \in SUBSET Lookups
    BY DEF Alive
  <2>3. IsFiniteSet(Alive)
    BY <2>2, Sizes
  <2>4. Cardinality(Alive') = Cardinality(Alive) + 1
    BY <2>1, <2>3, FS_AddElement
  <2> QED BY <1>0, <1>1, <2>2, <2>4, Sizes
<1>8. TypeOK'
  <2>1. k \in 0 .. MaxAsks
    BY <1>k, <1>2, <1>3 DEF Lookups
  <2> QED BY <1>0, <1>1, <1>3, <1>4, <1>6, <1>7, <2>1 DEF TypeOK
<1>9. Users(k)' = {a}
  <2>1. \A b \in Asks : remote[b].of \in Nat /\ remote[b].of # k
    BY <1>k, <1>0, <1>2, <1>3 DEF OfMade, TypeOK, RemoteRec, Lookups
  <2> QED BY <1>2, <2>1 DEF Users, Waiting, Leaving
<1>10. CountsExact'
  <2>1. lookup'[current'].waiters = Cardinality(Users(current)')
    <3>1. current' = k /\ Cardinality({a}) = 1 /\ lookup'[k].waiters = 1
      BY <1>1, <1>6, FS_Singleton
    <3> QED BY <1>9, <3>1
  <2> QED BY <1>1, <1>7, <1>8, <2>1 DEF CountsExact, Users, Alive
<1>11. WantedRuns'
  <2>1. ASSUME NEW j \in Lookups, j # k, Running(j)', Waiting(j)' # {}
        PROVE  FALSE
    <3>1. Running(j) /\ Waiting(j) # {}
      BY <1>k, <1>2, <1>6, <2>1 DEF Running, Waiting
    <3> QED BY <1>0, <3>1 DEF WantedRuns, Lookups
  <2> QED BY <1>1, <1>6, <2>1 DEF WantedRuns
<1>12. Room'
  <2>1. /\ Cardinality(Outside') = Cardinality(Outside) - 1
        /\ Cardinality(Outside) \in Nat /\ Cardinality(Outside') \in Nat
        /\ \A b \in Asks : ask'[b].pc = "new" => remote'[b].pc = "off"
    BY <1>1, <1>2, <1>4, LeaveOutside
  <2>2. made + Cardinality(Outside) <= MaxAsks /\ made' = made + 1
    BY <1>k, <1>0, <1>1 DEF Room
  <2> QED BY <1>2, <2>1, <2>2 DEF Room
<1>13. OfMade'
  <2>1. \A b \in Asks : remote[b].of \in Nat
    BY <1>0 DEF TypeOK, RemoteRec, Lookups
  <2>2. /\ k <= made' /\ k # 0
        /\ \A b \in Asks : remote[b].pc \in {"wait", "leave"} => remote[b].of # 0
    BY <1>k, <1>0, <1>1, <1>2 DEF OfMade
  <2>3. ASSUME NEW b \in Asks PROVE remote[b].of <= made'
    <3>1. remote[b].of <= made /\ remote[b].of \in Nat /\ made' = made + 1
      BY <1>0, <1>1, <1>k, <2>1 DEF OfMade
    <3> QED BY <1>2, <3>1
  <2> QED BY <1>2, <2>2, <2>3 DEF OfMade
<1>14. Made'
  BY <1>k, <1>0, <1>1, <1>2, <1>6 DEF Made, Lookups
<1>15. CurrentRuns'
  BY <1>k, <1>1, <1>2, <1>6 DEF CurrentRuns, Running
<1> QED BY <1>10, <1>11, <1>12, <1>13, <1>14, <1>15 DEF ResolverInv, SharedRight

\* A goroutine finds the resolver closed.
LEMMA JoinsClosed ==
  ASSUME ResolverInv, NEW a \in Asks, Join(a), closed
  PROVE  ResolverInv'
<1>0. TypeOK /\ CountsExact /\ WantedRuns /\ Room /\ OfMade /\ Made /\ CurrentRuns
  BY Parts
<1>1. /\ remote[a].pc = "enter" /\ Tell(a, NoIP)
      /\ UNCHANGED <<cache, ask, lookup, current, made, active, closed, useTCP>>
  BY DEF Join
<1>2. /\ remote' \in [Asks -> RemoteRec]
      /\ \A b \in Asks \ {a} : remote'[b] = remote[b]
      /\ remote'[a].pc \in {"off", "told"} /\ remote'[a].of = 0
  BY <1>0, <1>1, TellEffect DEF IPOrNone
<1>3. TypeOK'
  BY <1>0, <1>1, <1>2 DEF TypeOK
<1>4. CountsExact'
  BY <1>0, <1>1, <1>3 DEF CountsExact, CurrentRuns
<1>5. WantedRuns' /\ Made' /\ CurrentRuns'
  BY <1>0, <1>1 DEF WantedRuns, Made, CurrentRuns, Running
<1>6. Room'
  <2>1. /\ Cardinality(Outside') <= Cardinality(Outside)
        /\ Cardinality(Outside) \in Nat /\ Cardinality(Outside') \in Nat
        /\ \A b \in Asks : ask'[b].pc = "new" => remote'[b].pc = "off"
    BY <1>1, <1>2, LeaveOutside
  <2>2. made \in Nat
    BY <1>0 DEF TypeOK
  <2> QED BY <1>0, <1>1, <2>1, <2>2 DEF Room
<1>7. OfMade'
  BY <1>0, <1>1, <1>2 DEF OfMade, TypeOK
<1> QED BY <1>4, <1>5, <1>6, <1>7 DEF ResolverInv, SharedRight

\* What the goroutine of a call does keeps the invariant.
LEMMA RemoteKeeps ==
  ASSUME ResolverInv, NEW a \in Asks, RemoteStep(a)
  PROVE  ResolverInv'
BY AnsweredKeeps, GiveUpKeeps, ReleaseKeeps, JoinsOld, JoinsNew, JoinsClosed DEF RemoteStep

-----------------------------------------------------------------------------
(* The shared lookup itself.                                               *)

\* A lookup that runs goes on: it is counted as before and still in the map.
LookupEffect(k) ==
  /\ lookup' \in [Lookups -> LookupRec]
  /\ \A j \in Lookups \ {k} : lookup'[j] = lookup[j]
  /\ lookup[k].pc \in {"start", "run"} /\ lookup'[k].pc \in {"run", "found"}
  /\ lookup'[k].waiters = lookup[k].waiters /\ lookup'[k].cancelled = lookup[k].cancelled
  /\ cache' \in IPOrNone /\ useTCP' \in BOOLEAN
  /\ UNCHANGED <<ask, remote, current, made, active, closed>>

\* Whatever its transports bring.
LEMMA LookupSteps ==
  ASSUME TypeOK, NEW k \in Lookups,
         LookupStarts(k) \/ StartTCP(k) \/ LookupAnswers(k) \/ LookupCancelled(k)
  PROVE  LookupEffect(k)
<1>0. /\ lookup \in [Lookups -> LookupRec] /\ lookup[k] \in LookupRec
      /\ cache \in IPOrNone /\ useTCP \in BOOLEAN /\ IPs \subseteq IPOrNone
  BY DEF TypeOK, IPOrNone
<1>1. CASE LookupStarts(k)
  BY <1>0, <1>1 DEF LookupStarts, LookupEffect, LookupRec
<1>2. CASE StartTCP(k)
  BY <1>0, <1>2 DEF StartTCP, LookupEffect, LookupRec
<1>3. ASSUME NEW ip \in IPs, Found(k, ip) PROVE LookupEffect(k)
  BY <1>0, <1>3 DEF Found, LookupEffect, LookupRec
<1>4. CASE UDPFails(k)
  BY <1>0, <1>4 DEF UDPFails, LookupEffect, LookupRec
<1>5. CASE TCPFails(k)
  BY <1>0, <1>5 DEF TCPFails, LookupEffect, LookupRec
<1>6. CASE LookupCancelled(k)
  BY <1>0, <1>6 DEF LookupCancelled, LookupEffect, LookupRec
<1> QED BY <1>1, <1>2, <1>3, <1>4, <1>5, <1>6 DEF LookupAnswers

\* It keeps the invariant.
LEMMA LookupKeeps ==
  ASSUME ResolverInv, NEW k \in Lookups, LookupEffect(k)
  PROVE  ResolverInv'
<1>0. TypeOK /\ CountsExact /\ WantedRuns /\ Room /\ OfMade /\ Made /\ CurrentRuns
  BY Parts
<1>1. TypeOK'
  BY <1>0 DEF TypeOK, LookupEffect
<1>2. \A j \in Lookups : /\ Waiting(j)' = Waiting(j) /\ Leaving(j)' = Leaving(j)
                         /\ Running(j)' = Running(j)
                         /\ lookup'[j].waiters = lookup[j].waiters
                         /\ lookup'[j].cancelled = lookup[j].cancelled
                         /\ lookup'[j].pc \in {"none", "done"} <=> lookup[j].pc \in {"none", "done"}
                         /\ lookup'[j].pc = "none" <=> lookup[j].pc = "none"
  BY DEF LookupEffect, Waiting, Leaving, Running
<1>3. current # 0 => current \in Lookups
  BY <1>0 DEF TypeOK
<1>4. Alive' = Alive
  BY <1>2 DEF Alive
<1>5. CountsExact'
  <2>1. current' # 0 => lookup'[current'].waiters = Cardinality(Users(current)')
    BY <1>0, <1>2, <1>3 DEF CountsExact, Users, LookupEffect
  <2>2. active' = Cardinality(Alive')
    BY <1>0, <1>4 DEF CountsExact, Alive, LookupEffect
  <2> QED BY <1>1, <2>1, <2>2 DEF CountsExact, Users, Alive
<1>6. WantedRuns'
  BY <1>0, <1>2 DEF WantedRuns, LookupEffect
<1>7. Room' /\ OfMade'
  BY <1>0 DEF Room, OfMade, Outside, LookupEffect
<1>8. Made'
  <2>1. k <= made /\ made' = made
    BY <1>0 DEF Made, LookupEffect, NewLookup
  <2> QED BY <1>0, <1>2, <2>1 DEF Made, LookupEffect
<1>9. CurrentRuns'
  BY <1>0, <1>2, <1>3 DEF CurrentRuns, LookupEffect
<1> QED BY <1>5, <1>6, <1>7, <1>8, <1>9 DEF ResolverInv, SharedRight

\* A lookup that has found its answer leaves the map: nobody new joins it, and
\* those who wait for it need it no longer.
LEMMA UnlistKeeps ==
  ASSUME ResolverInv, NEW k \in Lookups, Unlist(k)
  PROVE  ResolverInv'
<1>0. TypeOK /\ CountsExact /\ WantedRuns /\ Room /\ OfMade /\ Made /\ CurrentRuns
  BY Parts
<1>1. /\ lookup[k].pc = "found" /\ current' = (IF current = k THEN 0 ELSE current)
      /\ UNCHANGED <<cache, ask, remote, made, active, closed, useTCP>>
  BY DEF Unlist
<1>2. /\ lookup' \in [Lookups -> LookupRec]
      /\ \A j \in Lookups \ {k} : lookup'[j] = lookup[j]
      /\ lookup'[k].pc = "unlisted"
  BY <1>0 DEF Unlist, TypeOK, LookupRec
<1>3. TypeOK'
  BY <1>0, <1>1, <1>2 DEF TypeOK
<1>4. \A j \in Lookups : Waiting(j)' = Waiting(j) /\ Leaving(j)' = Leaving(j)
  BY <1>1 DEF Waiting, Leaving
<1>5. CountsExact'
  <2>1. Alive' = Alive
    BY <1>1, <1>2 DEF Alive
  <2>2. active' = Cardinality(Alive')
    BY <1>0, <1>1, <2>1 DEF CountsExact, Alive
  <2>3. current' # 0 => /\ current' = current /\ current \in Lookups \ {k}
                        /\ lookup'[current'].waiters = Cardinality(Users(current)')
    BY <1>0, <1>1, <1>2, <1>4 DEF CountsExact, Users, TypeOK
  <2> QED BY <1>3, <2>2, <2>3 DEF CountsExact, Users, Alive
<1>6. WantedRuns'
  <2>1. ~Running(k)' /\ \A j \in Lookups \ {k} : Running(j)' = Running(j)
    BY <1>2 DEF Running
  <2>2. 0 \notin Lookups
    BY DEF Lookups
  <2> QED BY <1>0, <1>1, <1>2, <1>4, <2>1, <2>2 DEF WantedRuns
<1>7. Room' /\ OfMade'
  BY <1>0, <1>1 DEF Room, OfMade, Outside
<1>8. Made'
  <2>1. k <= made
    BY <1>0, <1>1 DEF Made, NewLookup
  <2> QED BY <1>0, <1>1, <1>2, <2>1 DEF Made
<1>9. CurrentRuns'
  <2>1. current' # 0 => current' = current /\ current \in Lookups \ {k}
    BY <1>0, <1>1 DEF TypeOK
  <2> QED BY <1>0, <1>1, <1>2, <2>1 DEF CurrentRuns, Running
<1> QED BY <1>5, <1>6, <1>7, <1>8, <1>9 DEF ResolverInv, SharedRight

\* The goroutine of a lookup ends.
LEMMA PublishKeeps ==
  ASSUME ResolverInv, NEW k \in Lookups, PublishResult(k)
  PROVE  ResolverInv'
<1>0. TypeOK /\ CountsExact /\ WantedRuns /\ Room /\ OfMade /\ Made /\ CurrentRuns
  BY Parts
<1>1. /\ lookup[k].pc = "unlisted" /\ active' = active - 1
      /\ UNCHANGED <<cache, ask, remote, current, made, closed, useTCP>>
  BY DEF PublishResult
<1>2. /\ lookup' \in [Lookups -> LookupRec]
      /\ \A j \in Lookups \ {k} : lookup'[j] = lookup[j]
      /\ lookup'[k].pc = "done"
  <2>1. lookup' = [lookup EXCEPT ![k] = [lookup[k] EXCEPT !.pc = "done", !.cancelled = TRUE,
                                                          !.udp = "off", !.tcp = "off"]]
    BY DEF PublishResult
  <2>2. lookup \in [Lookups -> LookupRec] /\ lookup[k] \in LookupRec
    BY <1>0 DEF TypeOK
  <2>3. [lookup[k] EXCEPT !.pc = "done", !.cancelled = TRUE, !.udp = "off", !.tcp = "off"]
          \in {r \in LookupRec : r.pc = "done"}
    BY <2>2 DEF LookupRec
  <2> QED BY <2>1, <2>2, <2>3
<1>3. active' = Cardinality(Alive') /\ active' \in 0 .. MaxAsks
  <2>1. Alive' = Alive \ {k} /\ k \in Alive
    BY <1>1, <1>2 DEF Alive
  <2>2. Alive \in SUBSET Lookups /\ Alive' \in SUBSET Lookups
    BY DEF Alive
  <2>3. IsFiniteSet(Alive) /\ active = Cardinality(Alive)
    BY <2>2, Sizes, Parts
  <2>4. Cardinality(Alive') = Cardinality(Alive) - 1
    BY <2>1, <2>3, FS_RemoveElement
  <2> QED BY <1>1, <2>2, <2>3, <2>4, Sizes
<1>4. TypeOK'
  BY <1>0, <1>1, <1>2, <1>3 DEF TypeOK
<1>5. current # k /\ (current # 0 => current \in Lookups)
  BY <1>0, <1>1 DEF CurrentRuns, Running, TypeOK, Lookups
<1>6. \A j \in Lookups : /\ Waiting(j)' = Waiting(j) /\ Leaving(j)' = Leaving(j)
                         /\ Running(j)' = Running(j)
  BY <1>1, <1>2 DEF Waiting, Leaving, Running
<1>7. CountsExact'
  <2>1. current' # 0 => lookup'[current'].waiters = Cardinality(Users(current)')
    BY <1>0, <1>1, <1>2, <1>5, <1>6 DEF CountsExact, Users
  <2> QED BY <1>3, <1>4, <2>1 DEF CountsExact, Users, Alive
<1>8. WantedRuns'
  <2>1. ~Running(k)
    BY <1>1 DEF Running
  <2> QED BY <1>0, <1>1, <1>2, <1>6, <2>1 DEF WantedRuns
<1>9. Room' /\ OfMade'
  BY <1>0, <1>1 DEF Room, OfMade, Outside
<1>10. Made'
  <2>1. k <= made
    BY <1>0, <1>1 DEF Made, NewLookup
  <2> QED BY <1>0, <1>1, <1>2, <2>1 DEF Made
<1>11. CurrentRuns'
  BY <1>0, <1>1, <1>2, <1>5, <1>6 DEF CurrentRuns
<1> QED BY <1>7, <1>8, <1>9, <1>10, <1>11 DEF ResolverInv, SharedRight

\* What a shared lookup does keeps the invariant.
LEMMA LookupStepKeeps ==
  ASSUME ResolverInv, NEW k \in Lookups, LookupStep(k)
  PROVE  ResolverInv'
<1>1. TypeOK
  BY Parts
<1> QED BY <1>1, LookupSteps, LookupKeeps, UnlistKeeps, PublishKeeps DEF LookupStep

-----------------------------------------------------------------------------
(* Time, Close, and the theorem.                                           *)

\* Close cancels the lookup in the map and forgets it.
LEMMA CloseKeeps ==
  ASSUME ResolverInv, Close
  PROVE  ResolverInv'
<1>0. TypeOK /\ CountsExact /\ WantedRuns /\ Room /\ OfMade /\ Made /\ CurrentRuns
  BY Parts
<1>1. closed' /\ current' = 0 /\ UNCHANGED <<cache, ask, remote, made, active, useTCP>>
  BY <1>0 DEF Close, TypeOK
<1>2. /\ lookup' \in [Lookups -> LookupRec]
      /\ \A j \in Lookups : lookup'[j].pc = lookup[j].pc /\ (j # current => lookup'[j] = lookup[j])
  <2>1. lookup \in [Lookups -> LookupRec] /\ (current # 0 => current \in Lookups)
    BY <1>0 DEF TypeOK
  <2>2. CASE current = 0
    BY <2>1, <2>2 DEF Close
  <2>3. CASE current # 0
    <3>1. lookup' = [lookup EXCEPT ![current] = [lookup[current] EXCEPT !.cancelled = TRUE]]
      BY <2>3 DEF Close
    <3>2. lookup[current] \in LookupRec
      BY <2>1, <2>3
    <3>3. /\ [lookup[current] EXCEPT !.cancelled = TRUE] \in LookupRec
          /\ [lookup[current] EXCEPT !.cancelled = TRUE].pc = lookup[current].pc
      BY <3>2 DEF LookupRec
    <3> QED BY <2>1, <2>3, <3>1, <3>3
  <2> QED BY <2>2, <2>3
<1>3. TypeOK'
  BY <1>0, <1>1, <1>2 DEF TypeOK, Close
<1>4. Alive' = Alive
  BY <1>2 DEF Alive
<1>5. CountsExact'
  BY <1>0, <1>1, <1>3, <1>4 DEF CountsExact, Alive
<1>6. WantedRuns' /\ CurrentRuns'
  BY <1>1 DEF WantedRuns, CurrentRuns
<1>7. Room' /\ OfMade'
  BY <1>0, <1>1 DEF Room, OfMade, Outside
<1>8. Made'
  <2>1. ASSUME NEW j \in Lookups
        PROVE  IF j <= made' THEN lookup'[j].pc # "none" ELSE lookup'[j] = NewLookup
    <3>1. ~(j <= made) => j # current
      BY <1>0, <2>1 DEF CurrentRuns, Lookups
    <3> QED BY <1>0, <1>1, <1>2, <3>1 DEF Made
  <2> QED BY <2>1 DEF Made
<1> QED BY <1>5, <1>6, <1>7, <1>8 DEF ResolverInv, SharedRight

\* A step that changes the cached answer or the preferred transport at most.
LEMMA OthersKeep ==
  ASSUME ResolverInv, cache' \in IPOrNone, useTCP' \in BOOLEAN,
         UNCHANGED <<ask, remote, lookup, current, made, active, closed>>
  PROVE  ResolverInv'
<1>0. TypeOK /\ CountsExact /\ WantedRuns /\ Room /\ OfMade /\ Made /\ CurrentRuns
  BY Parts
<1>1. TypeOK'
  BY <1>0 DEF TypeOK
<1>2. CountsExact'
  BY <1>0, <1>1 DEF CountsExact, Waiting, Leaving
<1>3. WantedRuns'
  BY <1>0 DEF WantedRuns, Running, Waiting
<1>4. Room' /\ OfMade' /\ Made' /\ CurrentRuns'
  BY <1>0 DEF Room, Outside, OfMade, Made, CurrentRuns, Running
<1> QED BY <1>2, <1>3, <1>4 DEF ResolverInv, SharedRight

\* ResolverInv is inductive.
LEMMA ResolverStep == ResolverInv /\ [Next]_vars => ResolverInv'
<1> SUFFICES ASSUME ResolverInv, [Next]_vars PROVE ResolverInv'
  OBVIOUS
<1>0. TypeOK
  BY Parts
<1>1. ASSUME NEW a \in Asks,
             Start(a) \/ AskStep(a) \/ WindowEnds(a) \/ Cancelled(a)
      PROVE  ResolverInv'
  BY <1>0, <1>1, AskSteps, AskKeeps
<1>2. ASSUME NEW a \in Asks, RemoteStep(a) PROVE ResolverInv'
  BY <1>2, RemoteKeeps
<1>3. ASSUME NEW k \in Lookups, LookupStep(k) PROVE ResolverInv'
  BY <1>3, LookupStepKeeps
<1>4. CASE Expire
  <2>1. cache' \in IPOrNone /\ useTCP' \in BOOLEAN
    BY <1>0, <1>4 DEF Expire, TypeOK, IPOrNone
  <2> QED BY <1>4, <2>1, OthersKeep DEF Expire
<1>5. CASE TimerFires
  <2>1. cache' \in IPOrNone /\ useTCP' \in BOOLEAN
    BY <1>0, <1>5 DEF TimerFires, TypeOK
  <2> QED BY <1>5, <2>1, OthersKeep DEF TimerFires
<1>6. CASE Close
  BY <1>6, CloseKeeps
<1>7. CASE UNCHANGED vars
  <2>1. cache' \in IPOrNone /\ useTCP' \in BOOLEAN
    BY <1>0, <1>7 DEF vars, TypeOK
  <2> QED BY <1>7, <2>1, OthersKeep DEF vars
<1> QED BY <1>1, <1>2, <1>3, <1>4, <1>5, <1>6, <1>7 DEF Next

\* A lookup is counted with exactly those who wait for it, runs as long as one of
\* them does, and is the one that new calls join (resolver.go:419); the counters and
\* maps keep their types.
THEOREM SharedRightCorrect == Spec => []SharedRight
<1>1. ResolverInv => SharedRight
  BY DEF ResolverInv
<1> QED BY <1>1, InitInv, ResolverStep, PTL DEF Spec

=============================================================================

--------------------------- MODULE L3TunnelProofs ---------------------------
(***************************************************************************)
(* One attempt at a time and no connection without an owner, for every     *)
(* number of nodes, callers, connections and dialling goroutines.          *)
(*                                                                         *)
(* SingleFlight and NoLeak are inductive together with the types (Typed)   *)
(* and one fact about the dialling goroutines (NoneYet).  The lemmas take  *)
(* the actions by what they change: one lemma per group.  TypeOK needs one *)
(* more, about the connections callers hold (Given).                       *)
(***************************************************************************)
EXTENDS L3Tunnel, TLAPS

USE L3TunnelAssumption

-----------------------------------------------------------------------------
(* The invariant.                                                          *)

DialerPC == {"none", "wait", "dial", "connect", "finish"}
CallerPC == {"idle", "get", "await", "write", "evict", "check", "reconnect"}

DialerRec == [pc : DialerPC, conn : Conns \cup {0}, addr : Nodes]
CallerRec == [pc : CallerPC, conn : Conns \cup {0}, call : Dialers \cup {0},
              again : BOOLEAN]

\* The part of the types that the argument needs.
Typed ==
  /\ conns \in Conns \cup {0}
  /\ connecting \in Dialers \cup {0}
  /\ dialer \in [Dialers -> DialerRec]
  /\ caller \in [Callers -> CallerRec]
  /\ made \in 0 .. MaxConn
  /\ open \subseteq Conns /\ doomed \subseteq Conns \cup {0}
  /\ best \in Nodes

\* The three conjuncts of SingleFlight: the goroutine connecting, what it
\* excludes, and who waits for it.
OneDials == \A d \in Dialers : dialer[d].pc # "none" <=> connecting = d
NoneInUse == connecting # 0 => conns = 0
Awaited ==
  \A x \in Callers :
    caller[x].pc = "await" => connecting # 0 /\ caller[x].call = connecting

\* The two conjuncts of NoLeak.
Owned == \A c \in open : c = conns \/ c \in doomed \/ \E d \in Dialers : dialer[d].conn = c
NoneAfter == closing = "done" => conns = 0

\* A goroutine has no connection before its attempt has ended.
NoneYet == \A d \in Dialers : dialer[d].pc # "finish" => dialer[d].conn = 0

IInv == Typed /\ OneDials /\ NoneInUse /\ Awaited /\ Owned /\ NoneAfter /\ NoneYet

LEMMA Split ==
  ASSUME IInv
  PROVE  SingleFlight /\ NoLeak
BY DEF IInv, OneDials, NoneInUse, Awaited, Owned, NoneAfter, SingleFlight, NoLeak, At

LEMMA InitIInv == Init => IInv
<1> SUFFICES ASSUME Init PROVE IInv
  OBVIOUS
<1>1. NoDialer \in DialerRec /\ NoDialer.pc = "none" /\ NoDialer.conn = 0
  BY DEF NoDialer, DialerRec, DialerPC
<1>2. Resting \in CallerRec /\ Resting.pc = "idle"
  BY DEF Resting, CallerRec, CallerPC
<1>3. Typed
  BY <1>1, <1>2 DEF Init, Typed
<1>4. OneDials /\ NoneYet
  BY <1>1 DEF Init, OneDials, NoneYet, Dialers
<1>5. NoneInUse /\ NoneAfter /\ Owned
  BY DEF Init, NoneInUse, NoneAfter, Owned
<1>6. Awaited
  BY <1>2 DEF Init, Awaited
<1> QED BY <1>3, <1>4, <1>5, <1>6 DEF IInv

-----------------------------------------------------------------------------
(* Steps, by what they change.                                             *)

\* Nothing the invariant speaks of, except the best node.
LEMMA StepAside ==
  ASSUME IInv, best' \in Nodes,
         UNCHANGED <<conns, connecting, dialer, made, open, doomed, caller, closing>>
  PROVE  IInv'
BY DEF IInv, Typed, OneDials, NoneInUse, Awaited, Owned, NoneAfter, NoneYet, Closed

\* A caller moves on by itself.
LEMMA StepCaller ==
  ASSUME IInv, caller' \in [Callers -> CallerRec], Awaited',
         UNCHANGED <<conns, connecting, dialer, made, open, doomed, best, closing>>
  PROVE  IInv'
BY DEF IInv, Typed, OneDials, NoneInUse, Owned, NoneAfter, NoneYet

\* A connection is taken out of use; it gets an owner that will close it.
LEMMA StepEvict ==
  ASSUME IInv, NEW c \in Conns \cup {0}, Evict(c),
         caller' \in [Callers -> CallerRec], Awaited',
         closing' = "done" => (closing = "done" \/ conns = c),
         UNCHANGED <<connecting, dialer, made, open, best>>
  PROVE  IInv'
<1>1. Typed'
  BY DEF IInv, Typed, Evict
<1>2. OneDials' /\ NoneYet'
  BY DEF IInv, OneDials, NoneYet
<1>3. NoneInUse' /\ NoneAfter'
  BY DEF IInv, NoneInUse, NoneAfter, Evict
<1>4. Owned'
  BY DEF IInv, Owned, Evict
<1> QED BY <1>1, <1>2, <1>3, <1>4 DEF IInv

\* A goroutine begins to connect, or not.
LEMMA StepDial ==
  ASSUME IInv, NEW pc \in {"dial", "wait"},
         \/ conns = 0 /\ connecting = 0 /\ StartDial(pc)
         \/ UNCHANGED <<connecting, dialer>>,
         caller' \in [Callers -> CallerRec], Awaited',
         UNCHANGED <<conns, made, open, doomed, best, closing>>
  PROVE  IInv'
<1>1. CASE UNCHANGED <<connecting, dialer>>
  BY <1>1, StepCaller
<1>2. CASE conns = 0 /\ connecting = 0 /\ StartDial(pc)
  <2>1. PICK d \in Dialers : /\ Free(d)
                             /\ connecting' = d
                             /\ dialer' = [dialer EXCEPT ![d].pc = pc]
    BY <1>2 DEF StartDial
  <2>2. d # 0 /\ pc \in DialerPC /\ pc # "none" /\ pc # "finish"
    BY DEF Dialers, DialerPC
  <2>3. dialer \in [Dialers -> DialerRec]
    BY DEF IInv, Typed
  <2>4. dialer' \in [Dialers -> DialerRec]
    BY <2>1, <2>2, <2>3 DEF DialerRec
  <2>5. \A e \in Dialers : /\ dialer'[e].conn = dialer[e].conn
                           /\ e # d => dialer'[e].pc = dialer[e].pc
    BY <2>1, <2>3 DEF DialerRec
  <2>6. dialer'[d].pc = pc
    BY <2>1, <2>3 DEF DialerRec
  <2>7. Typed'
    BY <2>1, <2>4 DEF IInv, Typed
  <2>8. OneDials'
    BY <1>2, <2>1, <2>2, <2>5, <2>6 DEF IInv, OneDials, Dialers
  <2>9. NoneYet'
    BY <2>1, <2>2, <2>5, <2>6 DEF IInv, NoneYet, Free
  <2>10. NoneInUse' /\ NoneAfter'
    BY <1>2 DEF IInv, NoneInUse, NoneAfter
  <2>11. Owned'
    <3>1. SUFFICES ASSUME NEW c \in open
                   PROVE  c = conns \/ c \in doomed \/ \E e \in Dialers : dialer'[e].conn = c
      BY DEF Owned
    <3>2. c = conns \/ c \in doomed \/ \E e \in Dialers : dialer[e].conn = c
      BY DEF IInv, Owned
    <3> QED BY <2>5, <3>2, Zenon
  <2> QED BY <2>7, <2>8, <2>9, <2>10, <2>11 DEF IInv
<1> QED BY <1>1, <1>2

\* A goroutine that connects moves on, without a result.
LEMMA StepDialer ==
  ASSUME IInv, dialer' \in [Dialers -> DialerRec], NEW d \in Dialers,
         dialer[d].pc # "none", dialer[d].pc # "finish", dialer'[d].pc # "none",
         \A e \in Dialers : /\ dialer'[e].conn = dialer[e].conn
                            /\ e # d => dialer'[e].pc = dialer[e].pc,
         UNCHANGED <<conns, connecting, caller, made, open, doomed, best, closing>>
  PROVE  IInv'
<1>1. Typed'
  BY DEF IInv, Typed
<1>2. NoneInUse' /\ NoneAfter' /\ Awaited'
  BY DEF IInv, NoneInUse, NoneAfter, Awaited
<1>3. OneDials'
  BY Zenon DEF IInv, OneDials
<1>4. NoneYet'
  <2>1. ASSUME NEW e \in Dialers, dialer'[e].pc # "finish" PROVE dialer'[e].conn = 0
    <3>1. dialer[e].pc # "finish"
      BY <2>1, Zenon
    <3> QED BY <3>1, Zenon DEF IInv, NoneYet
  <2> QED BY <2>1, Zenon DEF NoneYet
<1>5. Owned'
  <2>1. SUFFICES ASSUME NEW c \in open
                 PROVE  c = conns \/ c \in doomed \/ \E e \in Dialers : dialer'[e].conn = c
    BY DEF Owned
  <2>2. c = conns \/ c \in doomed \/ \E e \in Dialers : dialer[e].conn = c
    BY DEF IInv, Owned
  <2> QED BY <2>2, Zenon
<1> QED BY <1>1, <1>2, <1>3, <1>4, <1>5 DEF IInv

\* A caller's record after its fields are assigned, and who waits afterwards.
LEMMA CallerMoves ==
  ASSUME IInv, NEW x \in Callers, NEW p \in CallerPC, p # "await", connecting' = connecting,
         \/ caller' = [caller EXCEPT ![x].pc = p]
         \/ caller' = [caller EXCEPT ![x].pc = p, ![x].call = 0]
         \/ caller' = [caller EXCEPT ![x].pc = p, ![x].conn = conns]
         \/ caller' = [caller EXCEPT ![x].pc = p, ![x].again = TRUE]
         \/ caller' = [caller EXCEPT ![x] = Resting]
  PROVE  caller' \in [Callers -> CallerRec] /\ Awaited'
<1>1. conns \in Conns \cup {0} /\ caller \in [Callers -> CallerRec]
  BY DEF IInv, Typed
<1>2. Awaited
  BY DEF IInv
<1>3. CASE caller' = [caller EXCEPT ![x].pc = p]
  BY <1>1, <1>2, <1>3 DEF Awaited, CallerRec
<1>4. CASE caller' = [caller EXCEPT ![x].pc = p, ![x].call = 0]
  <2> DEFINE s == [caller[x] EXCEPT !.pc = p]
             t == [s EXCEPT !.call = 0]
  <2>1. s \in CallerRec /\ s.pc = p
    BY <1>1 DEF CallerRec
  <2>2. caller' = [caller EXCEPT ![x] = t]
    BY <1>1, <1>4
  <2> HIDE DEF s
  <2>3. t \in CallerRec /\ t.pc = p
    BY <1>1, <2>1 DEF CallerRec
  <2> HIDE DEF t
  <2> QED BY <1>1, <1>2, <2>2, <2>3 DEF Awaited
<1>5. CASE caller' = [caller EXCEPT ![x].pc = p, ![x].conn = conns]
  <2> DEFINE s == [caller[x] EXCEPT !.pc = p]
             t == [s EXCEPT !.conn = conns]
  <2>1. s \in CallerRec /\ s.pc = p
    BY <1>1 DEF CallerRec
  <2>2. caller' = [caller EXCEPT ![x] = t]
    BY <1>1, <1>5
  <2> HIDE DEF s
  <2>3. t \in CallerRec /\ t.pc = p
    BY <1>1, <2>1 DEF CallerRec
  <2> HIDE DEF t
  <2> QED BY <1>1, <1>2, <2>2, <2>3 DEF Awaited
<1>6. CASE caller' = [caller EXCEPT ![x].pc = p, ![x].again = TRUE]
  <2> DEFINE s == [caller[x] EXCEPT !.pc = p]
             t == [s EXCEPT !.again = TRUE]
  <2>1. s \in CallerRec /\ s.pc = p
    BY <1>1 DEF CallerRec
  <2>2. caller' = [caller EXCEPT ![x] = t]
    BY <1>1, <1>6
  <2> HIDE DEF s
  <2>3. t \in CallerRec /\ t.pc = p
    BY <1>1, <2>1 DEF CallerRec
  <2> HIDE DEF t
  <2> QED BY <1>1, <1>2, <2>2, <2>3 DEF Awaited
<1>7. CASE caller' = [caller EXCEPT ![x] = Resting]
  <2>1. Resting \in CallerRec /\ Resting.pc # "await"
    BY DEF Resting, CallerRec, CallerPC
  <2> QED BY <1>1, <1>2, <1>7, <2>1 DEF Awaited
<1> QED BY <1>3, <1>4, <1>5, <1>6, <1>7

\* A connection loses its place: it is closed.
LEMMA StepClosed ==
  ASSUME IInv, open' \subseteq open,
         doomed' \subseteq doomed, \A c \in open' : c \in doomed => c \in doomed',
         UNCHANGED <<conns, connecting, dialer, caller, made, best, closing>>
  PROVE  IInv'
<1>1. Typed'
  BY DEF IInv, Typed
<1>2. OneDials' /\ NoneInUse' /\ Awaited' /\ NoneAfter' /\ NoneYet'
  BY DEF IInv, OneDials, NoneInUse, Awaited, NoneAfter, NoneYet
<1>3. Owned'
  BY DEF IInv, Owned
<1> QED BY <1>1, <1>2, <1>3 DEF IInv

\* A caller waits for the attempt under way.
LEMMA CallerWaits ==
  ASSUME IInv, NEW x \in Callers, connecting' \in Dialers,
         connecting' = connecting \/ \A y \in Callers : caller[y].pc # "await",
         caller' = [caller EXCEPT ![x].pc = "await", ![x].call = connecting']
  PROVE  caller' \in [Callers -> CallerRec] /\ Awaited'
<1>1. caller \in [Callers -> CallerRec] /\ Awaited
  BY DEF IInv, Typed
<1>2. caller' \in [Callers -> CallerRec]
  BY <1>1 DEF CallerRec, CallerPC
<1>3. caller'[x].call = connecting'
  BY <1>1 DEF CallerRec
<1>4. \A y \in Callers : y # x => caller'[y] = caller[y]
  BY <1>1
<1>5. connecting' # 0
  BY DEF Dialers
<1> QED BY <1>1, <1>2, <1>3, <1>4, <1>5 DEF Awaited

\* When nobody connects nobody waits.
LEMMA NobodyWaits ==
  ASSUME IInv, connecting = 0
  PROVE  \A x \in Callers : caller[x].pc # "await"
BY DEF IInv, Awaited

LEMMA StepSucceeds ==
  ASSUME IInv, NEW d \in Dialers, DialSucceeds(d)
  PROVE  IInv'
<1>1. /\ made' \in Conns /\ made' # 0
      /\ dialer \in [Dialers -> DialerRec]
  BY DEF DialSucceeds, IInv, Typed, Conns
<1> DEFINE r == [dialer[d] EXCEPT !.pc = "finish", !.conn = made']
<1>2. dialer' = [dialer EXCEPT ![d] = r]
  BY <1>1 DEF DialSucceeds, DialerRec
<1>3. r \in DialerRec /\ r.pc = "finish" /\ r.conn = made'
  BY <1>1 DEF DialerRec, DialerPC
<1>4. dialer[d].pc = "connect" /\ dialer[d].conn = 0
  BY DEF DialSucceeds, IInv, NoneYet
<1> HIDE DEF r
<1>5. /\ dialer' \in [Dialers -> DialerRec]
      /\ dialer'[d].pc = "finish" /\ dialer'[d].conn = made'
      /\ \A e \in Dialers : e # d => dialer'[e] = dialer[e]
  BY <1>1, <1>2, <1>3
<1>6. Typed'
  BY <1>1, <1>5 DEF DialSucceeds, IInv, Typed, Conns
<1>7. OneDials' /\ NoneInUse' /\ Awaited' /\ NoneAfter'
  BY <1>4, <1>5 DEF DialSucceeds, IInv, OneDials, NoneInUse, Awaited, NoneAfter
<1>8. NoneYet'
  BY <1>5 DEF IInv, NoneYet
<1>9. Owned'
  <2>1. SUFFICES ASSUME NEW c \in open'
                 PROVE  c = conns' \/ c \in doomed' \/ \E e \in Dialers : dialer'[e].conn = c
    BY DEF Owned
  <2>2. CASE c = made'
    BY <2>2, <1>5
  <2>3. CASE c \in open
    <3>1. c # 0
      BY <2>3 DEF IInv, Typed, Conns
    <3>2. c = conns \/ c \in doomed \/ \E e \in Dialers : dialer[e].conn = c
      BY <2>3 DEF IInv, Owned
    <3>3. ASSUME NEW e \in Dialers, dialer[e].conn = c PROVE dialer'[e].conn = c
      BY <1>4, <1>5, <3>1, <3>3
    <3> QED BY <3>2, <3>3 DEF DialSucceeds
  <2> QED BY <2>2, <2>3 DEF DialSucceeds
<1> QED BY <1>6, <1>7, <1>8, <1>9 DEF IInv

\* finishConnect takes the attempt from connecting and deals with its result.
LEMMA StepFinish ==
  ASSUME IInv, NEW d \in Dialers, FinishConnect(d)
  PROVE  IInv'
<1> DEFINE c == dialer[d].conn
           ok == c # 0 /\ connecting = d /\ ~Closed
<1>1. /\ dialer \in [Dialers -> DialerRec] /\ caller \in [Callers -> CallerRec]
      /\ d # 0 /\ dialer[d].pc = "finish" /\ connecting = d /\ conns = 0
  <2>1. dialer \in [Dialers -> DialerRec] /\ caller \in [Callers -> CallerRec]
    BY DEF IInv, Typed
  <2>2. dialer[d].pc = "finish"
    BY Zenon DEF FinishConnect
  <2>3. connecting = d
    BY <2>2 DEF IInv, OneDials
  <2>4. d # 0
    BY DEF Dialers
  <2> QED BY <2>1, <2>2, <2>3, <2>4 DEF IInv, NoneInUse
<1>2. c \in Conns \cup {0}
  BY <1>1 DEF DialerRec
<1>3. NoDialer \in DialerRec /\ NoDialer.pc = "none" /\ NoDialer.conn = 0
  BY DEF NoDialer, DialerRec, DialerPC
<1>4. /\ dialer' \in [Dialers -> DialerRec]
      /\ dialer'[d].pc = "none" /\ dialer'[d].conn = 0
      /\ \A e \in Dialers : e # d => dialer'[e] = dialer[e]
  BY <1>1, <1>3 DEF FinishConnect
<1>5. /\ connecting' = 0
      /\ conns' = IF ok THEN c ELSE 0
      /\ doomed' = IF c # 0 /\ ~ok THEN doomed \cup {c} ELSE doomed
      /\ UNCHANGED <<made, open, best, closing>>
  BY <1>1 DEF FinishConnect
<1>6. ASSUME NEW x \in Callers PROVE caller'[x] \in CallerRec /\ caller'[x].pc # "await"
  <2> DEFINE r == caller[x]
  <2>1. r \in CallerRec
    BY <1>1
  <2>2. caller'[x] = IF r.call # d THEN r
                     ELSE IF ok THEN [r EXCEPT !.pc = "write", !.conn = c, !.call = 0]
                     ELSE IF r.again THEN [r EXCEPT !.pc = "evict", !.call = 0]
                     ELSE Resting
    BY <1>1 DEF FinishConnect
  <2>3. Resting \in CallerRec /\ Resting.pc # "await"
    BY DEF Resting, CallerRec, CallerPC
  <2>4. /\ [r EXCEPT !.pc = "write", !.conn = c, !.call = 0] \in CallerRec
        /\ [r EXCEPT !.pc = "write", !.conn = c, !.call = 0].pc # "await"
    BY <1>2, <2>1 DEF CallerRec, CallerPC
  <2>5. /\ [r EXCEPT !.pc = "evict", !.call = 0] \in CallerRec
        /\ [r EXCEPT !.pc = "evict", !.call = 0].pc # "await"
    BY <2>1 DEF CallerRec, CallerPC
  <2>6. r.call # d => r.pc # "await"
    BY <1>1 DEF IInv, Awaited
  <2> HIDE DEF r, ok, c
  <2>7. CASE r.call # d
    BY <2>1, <2>2, <2>6, <2>7
  <2>8. CASE r.call = d /\ ok
    BY <2>2, <2>4, <2>8
  <2>9. CASE r.call = d /\ ~ok /\ r.again
    BY <2>2, <2>5, <2>9
  <2>10. CASE r.call = d /\ ~ok /\ ~r.again
    BY <2>2, <2>3, <2>10
  <2> QED BY <2>7, <2>8, <2>9, <2>10
<1>7. caller' \in [Callers -> CallerRec] /\ Awaited'
  <2>1. caller' = [x \in Callers |-> caller'[x]]
    BY DEF FinishConnect
  <2> QED BY <1>6, <2>1, Zenon DEF Awaited
<1>8. Typed'
  BY <1>2, <1>4, <1>5, <1>7 DEF IInv, Typed
<1>9. OneDials'
  BY <1>1, <1>4, <1>5 DEF IInv, OneDials, Dialers
<1>10. NoneInUse' /\ NoneAfter'
  BY <1>1, <1>5 DEF NoneInUse, NoneAfter, Closed
<1>11. NoneYet'
  BY <1>4 DEF IInv, NoneYet
<1>12. Owned'
  <2>1. SUFFICES ASSUME NEW b \in open
                 PROVE  b = conns' \/ b \in doomed' \/ \E e \in Dialers : dialer'[e].conn = b
    BY <1>5 DEF Owned
  <2>2. b # 0
    BY DEF IInv, Typed, Conns
  <2>3. b \in doomed \/ \E e \in Dialers : dialer[e].conn = b
    BY <1>1, <2>2 DEF IInv, Owned
  <2>4. CASE b \in doomed
    BY <1>5, <2>4
  <2>5. CASE b = c
    BY <1>5, <2>2, <2>5
  <2>6. ASSUME NEW e \in Dialers, dialer[e].conn = b, e # d PROVE dialer'[e].conn = b
    BY <1>4, <2>6
  <2> QED BY <2>3, <2>4, <2>5, <2>6
<1> QED BY <1>7, <1>8, <1>9, <1>10, <1>11, <1>12 DEF IInv

-----------------------------------------------------------------------------
(* Every step.                                                             *)

LEMMA StepIInv == IInv /\ [Next]_vars => IInv'
<1> SUFFICES ASSUME IInv, [Next]_vars PROVE IInv'
  OBVIOUS
<1>1. /\ caller \in [Callers -> CallerRec] /\ dialer \in [Dialers -> DialerRec]
      /\ conns \in Conns \cup {0} /\ best \in Nodes /\ connecting \in Dialers \cup {0}
  BY DEF IInv, Typed
<1>2. connecting' = connecting /\ caller' = caller
      => caller' \in [Callers -> CallerRec] /\ Awaited'
  BY <1>1 DEF IInv, Awaited
<1>3. ASSUME NEW x \in Callers, Begin(x) PROVE IInv'
  <2>1. "get" \in CallerPC
    BY DEF CallerPC
  <2> QED BY <1>3, <2>1, CallerMoves, StepCaller DEF Begin, Goto
<1>4. ASSUME NEW x \in Callers, GetConn(x) PROVE IInv'
  <2>1. "write" \in CallerPC
    BY DEF CallerPC
  <2>2. CASE conns # 0 /\ UNCHANGED <<connecting, dialer>>
             /\ caller' = [caller EXCEPT ![x].pc = "write", ![x].conn = conns]
    BY <1>4, <2>1, <2>2, CallerMoves, StepCaller DEF GetConn
  <2>3. CASE connecting # 0 /\ UNCHANGED <<connecting, dialer>>
             /\ caller' = [caller EXCEPT ![x].pc = "await", ![x].call = connecting]
    BY <1>1, <1>4, <2>3, CallerWaits, StepCaller DEF GetConn
  <2>4. CASE conns = 0 /\ connecting = 0 /\ StartDial("dial")
             /\ caller' = [caller EXCEPT ![x].pc = "await", ![x].call = connecting']
    <3>1. connecting' \in Dialers
      BY <2>4 DEF StartDial
    <3>2. \A y \in Callers : caller[y].pc # "await"
      BY <2>4, NobodyWaits
    <3> QED BY <1>4, <2>4, <3>1, <3>2, CallerWaits, StepDial DEF GetConn
  <2> QED BY <1>4, <2>2, <2>3, <2>4 DEF GetConn
<1>5. ASSUME NEW x \in Callers, AwaitClosed(x) PROVE IInv'
  <2>1. "evict" \in CallerPC
    BY DEF CallerPC
  <2> QED BY <1>5, <2>1, CallerMoves, StepCaller DEF AwaitClosed, CallEnds
<1>6. ASSUME NEW x \in Callers, Write(x) PROVE IInv'
  <2>1. "evict" \in CallerPC
    BY DEF CallerPC
  <2> QED BY <1>6, <2>1, CallerMoves, StepCaller DEF Write, CallEnds, Goto
<1>7. ASSUME NEW x \in Callers, CallerEvict(x) PROVE IInv'
  <2>1. "check" \in CallerPC /\ caller[x].conn \in Conns \cup {0}
    BY <1>1 DEF CallerPC, CallerRec
  <2>2. caller' \in [Callers -> CallerRec] /\ Awaited'
    BY <1>7, <2>1, CallerMoves DEF CallerEvict, Goto
  <2> QED BY <1>7, <2>1, <2>2, StepEvict DEF CallerEvict
<1>8. ASSUME NEW x \in Callers, CallerCheck(x) PROVE IInv'
  <2>1. "get" \in CallerPC /\ "reconnect" \in CallerPC
    BY DEF CallerPC
  <2> QED BY <1>8, <2>1, CallerMoves, StepCaller DEF CallerCheck, AfterReconnect, CallEnds, Goto
<1>9. ASSUME NEW x \in Callers, CallerReconnect(x) PROVE IInv'
  <2>1. "get" \in CallerPC
    BY DEF CallerPC
  <2>2. CASE UNCHANGED <<connecting, dialer>>
    BY <1>9, <2>1, <2>2, CallerMoves, StepCaller
       DEF CallerReconnect, AfterReconnect, CallEnds
  <2>3. CASE conns = 0 /\ connecting = 0 /\ StartDial("wait")
    <3>1. \A y \in Callers : caller[y].pc # "await"
      BY <2>3, NobodyWaits
    <3>2. caller' \in [Callers -> CallerRec]
          /\ \A y \in Callers : caller'[y].pc # "await"
      <4>1. Resting \in CallerRec /\ Resting.pc # "await"
        BY DEF Resting, CallerRec, CallerPC
      <4> QED BY <1>1, <1>9, <2>1, <3>1, <4>1
              DEF CallerReconnect, AfterReconnect, CallEnds, CallerRec
    <3> QED BY <1>9, <2>3, <3>2, StepDial DEF CallerReconnect, Awaited
  <2> QED BY <1>9, <2>2, <2>3 DEF CallerReconnect, Reconnect
<1>10. ASSUME NEW d \in Dialers, DialTimer(d) \/ DialClosed(d) \/ DialStart(d) \/ DialFails(d)
       PROVE  IInv'
  <2>1. PICK p \in {"wait", "dial", "connect", "finish"}, n \in Nodes :
          \/ dialer' = [dialer EXCEPT ![d].pc = p]
          \/ dialer' = [dialer EXCEPT ![d].pc = p, ![d].addr = n]
    BY <1>1, <1>10 DEF DialTimer, DialClosed, DialStart, DialFails
  <2>2. dialer' \in [Dialers -> DialerRec] /\ dialer'[d].pc = p
    BY <1>1, <2>1 DEF DialerRec, DialerPC
  <2>3. \A e \in Dialers : /\ dialer'[e].conn = dialer[e].conn
                           /\ e # d => dialer'[e].pc = dialer[e].pc
    BY <1>1, <2>1 DEF DialerRec
  <2>4. /\ dialer[d].pc # "none" /\ dialer[d].pc # "finish" /\ p # "none"
        /\ UNCHANGED <<conns, connecting, caller, made, open, doomed, closing>>
        /\ best' = best
    BY <1>10 DEF DialTimer, DialClosed, DialStart, DialFails
  <2> QED BY <2>2, <2>3, <2>4, StepDialer
<1>11. ASSUME NEW c \in Conns,
              FwdRead(c) \/ FwdEOF(c) \/ FwdPush(c) \/ FwdQuit(c) \/ FwdCheck(c)
       PROVE  IInv'
  BY <1>1, <1>11, StepAside DEF FwdRead, FwdEOF, FwdPush, FwdQuit, FwdCheck
<1>12. ASSUME NEW c \in Conns, FwdEvict(c) PROVE IInv'
  BY <1>2, <1>12, StepEvict DEF FwdEvict
<1>13. ASSUME NEW c \in Conns, FwdReconnect(c) PROVE IInv'
  <2>1. CASE UNCHANGED <<connecting, dialer>>
    BY <1>2, <1>13, <2>1, StepCaller DEF FwdReconnect
  <2>2. CASE conns = 0 /\ connecting = 0 /\ StartDial("wait")
    <3>1. caller' \in [Callers -> CallerRec] /\ Awaited'
      BY <1>1, <1>13, <2>2, NobodyWaits DEF FwdReconnect, Awaited
    <3> QED BY <1>13, <2>2, <3>1, StepDial DEF FwdReconnect
  <2> QED BY <1>13, <2>1, <2>2 DEF FwdReconnect, Reconnect
<1>14. ASSUME NEW c \in Conns, CloseDoomed(c) \/ ConnFails(c) PROVE IInv'
  BY <1>14, StepClosed DEF CloseDoomed, ConnFails
<1>15. ASSUME TakePacket \/ ProbeBegins \/ \E n \in Nodes : NewBest(n) PROVE IInv'
  BY <1>1, <1>15, StepAside DEF TakePacket, ProbeBegins, NewBest
<1>16. ASSUME EvictStale PROVE IInv'
  <2>1. CASE Evict(conns)
    BY <1>1, <1>2, <1>16, <2>1, StepEvict DEF EvictStale
  <2>2. CASE UNCHANGED <<conns, doomed>>
    BY <1>1, <1>16, <2>2, StepAside DEF EvictStale
  <2> QED BY <1>16, <2>1, <2>2 DEF EvictStale
<1>17. ASSUME CloseBegin PROVE IInv'
  BY <1>17 DEF CloseBegin, IInv, Typed, OneDials, NoneInUse, Awaited, Owned, NoneAfter, NoneYet
<1>18. ASSUME CloseConns PROVE IInv'
  <2>1. Evict(conns) \/ (conns = 0 /\ conns' = 0 /\ doomed' = doomed)
    BY <1>18, Zenon DEF CloseConns
  <2>2. CASE Evict(conns)
    BY <1>1, <1>2, <1>18, <2>2, StepEvict DEF CloseConns
  <2>3. CASE conns = 0 /\ conns' = 0 /\ doomed' = doomed
    BY <1>18, <2>3
       DEF CloseConns, IInv, Typed, OneDials, NoneInUse, Awaited, Owned, NoneAfter, NoneYet
  <2> QED BY <2>1, <2>2, <2>3
<1>19. ASSUME UNCHANGED vars PROVE IInv'
  BY <1>1, <1>19, StepAside DEF vars
<1> QED
  BY <1>3, <1>4, <1>5, <1>6, <1>7, <1>8, <1>9, <1>10, <1>11, <1>12, <1>13, <1>14, <1>15,
     <1>16, <1>17, <1>18, <1>19, StepSucceeds, StepFinish
     DEF Next, CallerStep, DialStep, FwdStep
-----------------------------------------------------------------------------
(* The rest of the types.                                                  *)

FwdPC == {"none", "read", "push", "evict", "check", "reconnect", "done"}

\* A caller that has a connection to write on or to evict, and one that tries
\* for the second time, was given one: evictConn is never called for nil.
Given ==
  \A x \in Callers :
    caller[x].again \/ caller[x].pc \in {"write", "evict", "check", "reconnect"}
      => caller[x].conn # 0

\* What Typed leaves out.
Others ==
  /\ addr \in [Conns -> Nodes]
  /\ fwd \in [Conns -> FwdPC]
  /\ queue \in 0 .. QueueCap
  /\ updating \in {"rest", "probe", "evict"}
  /\ closing \in {"no", "closed", "done"}

LEMMA OthersStep == IInv /\ Others /\ [Next]_vars => Others'
<1> SUFFICES ASSUME IInv, Others, [Next]_vars PROVE Others'
  OBVIOUS
<1> USE DEF Others
<1>1. ASSUME UNCHANGED <<addr, fwd, queue, updating, closing>> PROVE Others'
  BY <1>1
<1>2. ASSUME NEW x \in Callers, Begin(x) \/ CallerStep(x) PROVE Others'
  BY <1>1, <1>2 DEF Begin, CallerStep, GetConn, AwaitClosed, Write, CallerEvict, CallerCheck,
                    CallerReconnect
<1>3. ASSUME NEW d \in Dialers, DialStep(d) PROVE Others'
  <2>1. CASE DialTimer(d) \/ DialClosed(d) \/ DialStart(d) \/ DialFails(d)
    BY <1>1, <2>1 DEF DialTimer, DialClosed, DialStart, DialFails
  <2>2. dialer[d].addr \in Nodes /\ dialer[d].conn \in Conns \cup {0}
    BY DEF IInv, Typed, DialerRec
  <2>3. CASE DialSucceeds(d)
    BY <2>2, <2>3 DEF DialSucceeds
  <2>4. CASE FinishConnect(d)
    <3>1. "read" \in FwdPC
      BY DEF FwdPC
    <3> QED BY <2>2, <2>4, <3>1 DEF FinishConnect
  <2> QED BY <1>3, <2>1, <2>3, <2>4 DEF DialStep
<1>4. ASSUME NEW c \in Conns, FwdRead(c) \/ FwdStep(c) PROVE Others'
  <2>1. {"read", "push", "evict", "check", "reconnect", "done"} \subseteq FwdPC
    BY DEF FwdPC
  <2>2. CASE FwdPush(c)
    BY <2>1, <2>2 DEF FwdPush
  <2>3. CASE FwdRead(c) \/ FwdEOF(c) \/ FwdQuit(c) \/ FwdEvict(c) \/ FwdCheck(c) \/ FwdReconnect(c)
    BY <2>1, <2>3 DEF FwdRead, FwdEOF, FwdQuit, FwdEvict, FwdCheck, FwdReconnect
  <2> QED BY <1>4, <2>2, <2>3 DEF FwdStep
<1>5. ASSUME NEW c \in Conns, CloseDoomed(c) \/ ConnFails(c) PROVE Others'
  BY <1>1, <1>5 DEF CloseDoomed, ConnFails
<1>6. ASSUME TakePacket \/ ProbeBegins \/ (\E n \in Nodes : NewBest(n)) \/ EvictStale
             \/ CloseBegin \/ CloseConns
      PROVE  Others'
  BY <1>6 DEF TakePacket, ProbeBegins, NewBest, EvictStale, CloseBegin, CloseConns
<1> QED BY <1>1, <1>2, <1>3, <1>4, <1>5, <1>6 DEF Next, vars

LEMMA GivenStep == IInv /\ Given /\ [Next]_vars => Given'
<1> SUFFICES ASSUME IInv, Given, [Next]_vars PROVE Given'
  OBVIOUS
<1>1. caller \in [Callers -> CallerRec] /\ dialer \in [Dialers -> DialerRec]
  BY DEF IInv, Typed
<1>2. ASSUME NEW x \in Callers, \A y \in Callers : y # x => caller'[y] = caller[y],
             caller'[x].again \/ caller'[x].pc \in {"write", "evict", "check", "reconnect"}
               => caller'[x].conn # 0
      PROVE  Given'
  BY <1>2 DEF Given
<1>3. ASSUME UNCHANGED caller PROVE Given'
  BY <1>3 DEF Given
<1>4. Resting.pc = "idle" /\ Resting.again = FALSE
  BY DEF Resting
<1>5. ASSUME NEW x \in Callers, Begin(x) \/ CallerStep(x) PROVE Given'
  <2> USE DEF At, Goto, CallEnds
  <2>1. /\ caller[x] \in CallerRec
        /\ caller[x].again \/ caller[x].pc \in {"write", "evict", "check", "reconnect"}
             => caller[x].conn # 0
    BY <1>1 DEF Given
  <2>2. CASE Begin(x)
    BY <1>1, <1>2, <2>1, <2>2 DEF Begin, CallerRec
  <2>3. CASE GetConn(x)
    BY <1>1, <1>2, <2>1, <2>3 DEF GetConn, CallerRec
  <2>4. CASE AwaitClosed(x)
    BY <1>1, <1>2, <1>4, <2>1, <2>4 DEF AwaitClosed, CallerRec
  <2>5. CASE Write(x)
    BY <1>1, <1>2, <1>4, <2>1, <2>5 DEF Write, CallerRec
  <2>6. CASE CallerEvict(x)
    BY <1>1, <1>2, <2>1, <2>6 DEF CallerEvict, CallerRec
  <2>7. CASE CallerCheck(x)
    BY <1>1, <1>2, <1>4, <2>1, <2>7 DEF CallerCheck, AfterReconnect, CallerRec
  <2>8. CASE CallerReconnect(x)
    BY <1>1, <1>2, <1>4, <2>1, <2>8 DEF CallerReconnect, AfterReconnect, CallerRec
  <2> QED BY <1>5, <2>2, <2>3, <2>4, <2>5, <2>6, <2>7, <2>8 DEF CallerStep
<1>6. ASSUME NEW d \in Dialers, FinishConnect(d) PROVE Given'
  <2> DEFINE c == dialer[d].conn
             ok == c # 0 /\ connecting = d /\ ~Closed
  <2>1. SUFFICES ASSUME NEW x \in Callers,
                        caller'[x].again
                          \/ caller'[x].pc \in {"write", "evict", "check", "reconnect"}
                 PROVE  caller'[x].conn # 0
    BY DEF Given
  <2>2. /\ caller[x] \in CallerRec
        /\ caller[x].again \/ caller[x].pc \in {"write", "evict", "check", "reconnect"}
             => caller[x].conn # 0
    BY <1>1 DEF Given
  <2>3. caller'[x] =
          IF caller[x].call # d \/ connecting # d THEN caller[x]
          ELSE IF ok THEN [caller[x] EXCEPT !.pc = "write", !.conn = c, !.call = 0]
          ELSE IF caller[x].again THEN [caller[x] EXCEPT !.pc = "evict", !.call = 0]
          ELSE Resting
    BY <1>6 DEF FinishConnect
  <2> QED BY <1>4, <2>1, <2>2, <2>3 DEF CallerRec
<1>7. ASSUME NEW d \in Dialers, DialStep(d) PROVE Given'
  BY <1>3, <1>6, <1>7
     DEF DialStep, DialTimer, DialClosed, DialStart, DialFails, DialSucceeds
<1>8. ASSUME NEW c \in Conns, FwdRead(c) \/ FwdStep(c) \/ CloseDoomed(c) \/ ConnFails(c)
      PROVE  Given'
  BY <1>3, <1>8 DEF FwdRead, FwdStep, FwdEOF, FwdPush, FwdQuit, FwdEvict, FwdCheck,
                    FwdReconnect, CloseDoomed, ConnFails
<1>9. ASSUME TakePacket \/ ProbeBegins \/ (\E n \in Nodes : NewBest(n)) \/ EvictStale
             \/ CloseBegin \/ CloseConns
      PROVE  Given'
  BY <1>3, <1>9 DEF TakePacket, ProbeBegins, NewBest, EvictStale, CloseBegin, CloseConns
<1> QED BY <1>3, <1>5, <1>7, <1>8, <1>9 DEF Next, vars

\* Only connections are taken out of conns to be closed.
LEMMA DoomedStep == IInv /\ Given /\ doomed \subseteq Conns /\ [Next]_vars => doomed' \subseteq Conns
<1> SUFFICES ASSUME IInv, Given, doomed \subseteq Conns, [Next]_vars PROVE doomed' \subseteq Conns
  OBVIOUS
<1>1. /\ conns \in Conns \cup {0} /\ caller \in [Callers -> CallerRec]
      /\ dialer \in [Dialers -> DialerRec]
  BY DEF IInv, Typed
<1>2. ASSUME NEW c \in Conns, Evict(c) PROVE doomed' \subseteq Conns
  BY <1>2 DEF Evict
<1>3. ASSUME NEW x \in Callers, Begin(x) \/ CallerStep(x) PROVE doomed' \subseteq Conns
  <2>1. CASE CallerEvict(x)
    <3>1. caller[x].conn \in Conns
      BY <1>1, <2>1 DEF CallerEvict, At, Given, CallerRec
    <3> QED BY <1>2, <2>1, <3>1 DEF CallerEvict
  <2> QED BY <1>3, <2>1 DEF Begin, CallerStep, GetConn, AwaitClosed, Write, CallerCheck,
                            CallerReconnect
<1>4. ASSUME NEW d \in Dialers, DialStep(d) PROVE doomed' \subseteq Conns
  <2>1. CASE FinishConnect(d)
    BY <1>1, <2>1 DEF FinishConnect, DialerRec
  <2> QED BY <1>4, <2>1 DEF DialStep, DialTimer, DialClosed, DialStart, DialFails, DialSucceeds
<1>5. ASSUME NEW c \in Conns, FwdRead(c) \/ FwdStep(c) \/ CloseDoomed(c) \/ ConnFails(c)
      PROVE  doomed' \subseteq Conns
  BY <1>2, <1>5 DEF FwdRead, FwdStep, FwdEOF, FwdPush, FwdQuit, FwdEvict, FwdCheck,
                    FwdReconnect, CloseDoomed, ConnFails
<1>6. ASSUME TakePacket \/ ProbeBegins \/ (\E n \in Nodes : NewBest(n)) \/ CloseBegin
      PROVE  doomed' \subseteq Conns
  BY <1>6 DEF TakePacket, ProbeBegins, NewBest, CloseBegin
<1>7. ASSUME EvictStale \/ CloseConns PROVE doomed' \subseteq Conns
  BY <1>1, <1>2, <1>7 DEF EvictStale, CloseConns
<1> QED BY <1>3, <1>4, <1>5, <1>6, <1>7 DEF Next, vars

-----------------------------------------------------------------------------
\* At most one goroutine connects at any time, callers wait for it and for no
\* other, and no connection is in use meanwhile (getConn, startReconnect,
\* finishConnect).
THEOREM SingleFlightCorrect == Spec => []SingleFlight
<1>1. Init => IInv
  BY InitIInv
<1>2. IInv /\ [Next]_vars => IInv'
  BY StepIInv
<1>3. IInv => SingleFlight
  BY Split
<1> QED BY <1>1, <1>2, <1>3, PTL DEF Spec

\* Every open connection is in use or has a goroutine that is about to install
\* or close it, and after Close none is in use (finishConnect, evictConn,
\* evictStaleConns, Close).
THEOREM NoLeakCorrect == Spec => []NoLeak
<1>1. Init => IInv
  BY InitIInv
<1>2. IInv /\ [Next]_vars => IInv'
  BY StepIInv
<1>3. IInv => NoLeak
  BY Split
<1> QED BY <1>1, <1>2, <1>3, PTL DEF Spec

\* The types of the tunnel's state: among them, that dataChan never holds more
\* than its capacity, and that only connections, never the zero that stands for
\* nil, are evicted and closed (l3tunnel.go).
THEOREM TunnelTypeCorrect == Spec => []TypeOK
<1> DEFINE TInv == IInv /\ Others /\ Given /\ doomed \subseteq Conns
<1>1. Init => TInv
  <2> SUFFICES ASSUME Init PROVE TInv
    OBVIOUS
  <2>1. Others
    BY DEF Init, Others, FwdPC
  <2>2. Given
    BY DEF Init, Given, Resting
  <2> QED BY <2>1, <2>2, InitIInv DEF Init
<1>2. TInv /\ [Next]_vars => TInv'
  BY StepIInv, OthersStep, GivenStep, DoomedStep
<1>3. TInv => TypeOK
  BY DEF IInv, Typed, Others, TypeOK, DialerRec, DialerPC, CallerRec, CallerPC, FwdPC
<1> QED BY <1>1, <1>2, <1>3, PTL DEF Spec

=============================================================================

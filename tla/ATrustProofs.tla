---------------------------- MODULE ATrustProofs -----------------------------
(***************************************************************************)
(* Proofs about the parts of the aTrust client that MCATrust runs on small *)
(* instances: the heartbeat, a TCP connection, the login, the session and  *)
(* its refresh, and the capture.  Each part has an inductive invariant;    *)
(* the last section brings them together.                                  *)
(***************************************************************************)
EXTENDS MCATrust, TLAPS, WellFoundedInduction, FiniteSetTheorems

(***************************************************************************)
(* The heartbeat: why misses never exceed two, for every limit.  Between   *)
(* two misses the heartbeat just written marks the connection active, and  *)
(* only a response that has been half handled can unmark it.               *)
(***************************************************************************)

USE HeartbeatAssumption

\* Where the loop stands bounds the misses: before a tick they are gone, will be
\* found written off, or readLoop is about to clear them.
Bounded ==
  /\ misses \in 0 .. 2
  /\ hasWrite \in 0 .. 1
  /\ misses = 2 => reader = "clear"
  /\ loop = "sleep" => \/ misses = 0
                       \/ hasWrite = 1
                       \/ misses = 1 /\ reader = "clear"
  /\ loop \in {"load", "add"} => misses = 0 \/ (misses = 1 /\ reader = "clear")

\* No step leaves these bounds.
LEMMA BoundedStep == Bounded /\ [Next]_vars => Bounded'
<1> SUFFICES ASSUME Bounded, [Next]_vars PROVE Bounded'
  OBVIOUS
<1>1. CASE TickSwap
  <2>1. loop = "sleep" /\ hasWrite' = 0 /\ misses' = misses /\ reader' = reader
    BY <1>1 DEF TickSwap
  <2>2. CASE hasWrite # 0
    <3>1. loop' = "reset"
      BY <1>1, <2>2 DEF TickSwap
    <3> QED BY <2>1, <3>1 DEF Bounded
  <2>3. CASE hasWrite = 0
    <3>1. loop' = "load"
      BY <1>1, <2>3 DEF TickSwap
    <3> QED BY <2>1, <2>3, <3>1 DEF Bounded
  <2> QED BY <2>2, <2>3
<1>2. CASE Reset
  BY <1>2 DEF Reset, Bounded
<1>3. CASE CheckMisses
  BY <1>3 DEF CheckMisses, Bounded
<1>4. CASE AddMiss
  BY <1>4 DEF AddMiss, Bounded
<1>5. CASE Send
  BY <1>5 DEF Send, Bounded
<1>6. CASE SendFails \/ LoopExit
  BY <1>6 DEF SendFails, LoopExit, Bounded
<1>7. CASE OtherWrite
  BY <1>7 DEF OtherWrite, Bounded
<1>8. CASE Response
  BY <1>8 DEF Response, Bounded
<1>9. CASE ClearMisses
  <2>1. misses' = 0 /\ hasWrite' = hasWrite /\ loop' = loop
    BY <1>9 DEF ClearMisses
  <2> QED BY <2>1 DEF Bounded
<1>10. CASE ReadFails \/ GoSilent
  BY <1>10 DEF ReadFails, GoSilent, Bounded
<1>11. CASE UNCHANGED vars
  BY <1>11 DEF vars, Bounded
<1> QED
  BY <1>1, <1>2, <1>3, <1>4, <1>5, <1>6, <1>7, <1>8, <1>9, <1>10, <1>11
     DEF Next, LoopStep

LEMMA BoundedPromise == Bounded => TwoMisses
BY DEF Bounded, TwoMisses

LEMMA BoundedInit == Init => Bounded
BY DEF Init, Bounded

\* The bounds hold in every reachable state.
THEOREM BoundsHold == Spec => []Bounded
BY BoundedInit, BoundedStep, PTL DEF Spec

\* Three misses never add up, whatever the limit and whatever the server does.
THEOREM TwoMissesAtMost == Spec => []TwoMisses
BY BoundedPromise, BoundsHold, PTL

\* With a limit above two, the code's limit of three among them, heartbeatLoop
\* never closes the connection for its misses.
THEOREM LimitNeverReached ==
  ASSUME MissLimit > 2
  PROVE  Spec => [][CheckMisses /\ open => open']_vars
<1>1. Bounded => [CheckMisses /\ open => open']_vars
  <2> SUFFICES ASSUME Bounded, CheckMisses, open PROVE open'
    OBVIOUS
  <2>1. misses < MissLimit
    BY DEF Bounded
  <2>2. open' = (open /\ misses < MissLimit)
    BY DEF CheckMisses
  <2> QED BY <2>1, <2>2, Zenon
<1> QED BY <1>1, BoundsHold, PTL DEF Spec

HIDE HeartbeatAssumption

(***************************************************************************)
(* The connection: sums along a sequence, which are recursive, are reasoned *)
(* about by a least counterexample.                                        *)
(***************************************************************************)

USE TCPTunnelAssumption

LEMMA LeastNumber ==
  ASSUME NEW T, T \subseteq Nat, T # {}
  PROVE  \E n \in T : \A m \in T : n <= m
<1> DEFINE R == OpToRel(<, Nat)
<1>1. IsWellFoundedOn(R, Nat)
  BY NatLessThanWellFounded
<1>2. \A x, y \in Nat : x < y => <<x, y>> \in R
  BY DEF OpToRel
<1> HIDE DEF R
<1>3. PICK n \in T : \A m \in T : ~ (<<m, n>> \in R)
  BY <1>1, WFMin
<1>4. ASSUME NEW m \in T PROVE n <= m
  <2>1. m \in Nat /\ n \in Nat
    OBVIOUS
  <2>2. ~ (m < n)
    BY <1>2, <1>3, <2>1, Zenon
  <2> QED BY <2>1, <2>2
<1> QED BY <1>4

\* f[i] is the sum of the first i elements of s.
Sums(f, s) == f = [i \in 0 .. Len(s) |-> IF i = 0 THEN 0 ELSE f[i - 1] + s[i]]

\* There is only one such f ...
LEMMA SumsUnique ==
  ASSUME NEW s \in Seq(Nat), NEW f, NEW g, Sums(f, s), Sums(g, s)
  PROVE  f[Len(s)] = g[Len(s)]
<1> DEFINE T == {i \in 0 .. Len(s) : f[i] # g[i]}
<1>1. Len(s) \in Nat /\ T \subseteq Nat
  OBVIOUS
<1>2. ASSUME NEW i \in 0 .. Len(s)
      PROVE  /\ f[i] = IF i = 0 THEN 0 ELSE f[i - 1] + s[i]
             /\ g[i] = IF i = 0 THEN 0 ELSE g[i - 1] + s[i]
  BY Zenon DEF Sums
<1>3. CASE T # {}
  <2>1. PICK i \in T : \A j \in T : i <= j
    BY <1>1, <1>3, LeastNumber
  <2>2. CASE i = 0
    BY <1>2, <2>1, <2>2
  <2>3. CASE i # 0
    <3>1. i - 1 \in 0 .. Len(s) /\ ~ (i <= i - 1)
      BY <1>1, <2>1, <2>3
    <3>2. f[i - 1] = g[i - 1]
      BY <2>1, <3>1
    <3> QED BY <1>2, <2>1, <2>3, <3>2
  <2> QED BY <2>2, <2>3
<1> QED BY <1>1, <1>3

\* ... its values are numbers ...
LEMMA SumsType ==
  ASSUME NEW s \in Seq(Nat), NEW f, Sums(f, s)
  PROVE  f \in [0 .. Len(s) -> Nat]
<1> DEFINE T == {i \in 0 .. Len(s) : f[i] \notin Nat}
<1>1. Len(s) \in Nat /\ T \subseteq Nat
  OBVIOUS
<1>2. f = [i \in 0 .. Len(s) |-> f[i]]
  BY DEF Sums
<1>3. ASSUME NEW i \in 0 .. Len(s) PROVE f[i] = IF i = 0 THEN 0 ELSE f[i - 1] + s[i]
  BY Zenon DEF Sums
<1>4. CASE T # {}
  <2>1. PICK i \in T : \A j \in T : i <= j
    BY <1>1, <1>4, LeastNumber
  <2>2. CASE i = 0
    BY <1>3, <2>1, <2>2
  <2>3. CASE i # 0
    <3>1. i - 1 \in 0 .. Len(s) /\ ~ (i <= i - 1) /\ s[i] \in Nat
      BY <1>1, <2>1, <2>3
    <3>2. f[i - 1] \in Nat
      BY <2>1, <3>1
    <3>3. f[i] = f[i - 1] + s[i]
      BY <1>3, <2>1, <2>3
    <3> QED BY <2>1, <3>1, <3>2, <3>3
  <2> QED BY <2>2, <2>3
<1> QED BY <1>2, <1>4

\* The sums of a longer sequence go on from those of a shorter one.
LEMMA SumsAppend ==
  ASSUME NEW s \in Seq(Nat), NEW n \in Nat, NEW f, Sums(f, s)
  PROVE  \E g : Sums(g, Append(s, n)) /\ g[Len(Append(s, n))] = f[Len(s)] + n
<1> DEFINE t == Append(s, n)
<1> DEFINE g == [i \in 0 .. Len(t) |-> IF i = Len(t) THEN f[Len(s)] + n ELSE f[i]]
<1>1. /\ Len(s) \in Nat /\ Len(t) = Len(s) + 1 /\ t[Len(t)] = n
      /\ \A i \in 1 .. Len(s) : t[i] = s[i]
  OBVIOUS
<1>2. \A i \in 0 .. Len(s) : f[i] = IF i = 0 THEN 0 ELSE f[i - 1] + s[i]
  BY Zenon DEF Sums
<1> HIDE DEF t
<1>3. ASSUME NEW i \in 0 .. Len(t)
      PROVE  g[i] = IF i = 0 THEN 0 ELSE g[i - 1] + t[i]
  <2>1. CASE i = Len(t)
    BY <1>1, <2>1
  <2>2. CASE i \in 0 .. Len(s)
    <3>1. g[i] = f[i]
      BY <1>1, <2>2
    <3>2. i # 0 => g[i - 1] = f[i - 1] /\ t[i] = s[i]
      BY <1>1, <2>2
    <3> QED BY <1>2, <2>2, <3>1, <3>2
  <2> QED BY <1>1, <2>1, <2>2
<1>4. g[Len(t)] = f[Len(s)] + n
  BY <1>1
<1>5. g = [i \in 0 .. Len(t) |-> g[i]]
  OBVIOUS
<1> HIDE DEF g
<1>6. Sums(g, t)
  BY <1>3, <1>5, Zenon DEF Sums
<1> QED BY <1>4, <1>6 DEF t

\* So every sequence has them ...
LEMMA SumsExist == ASSUME NEW s \in Seq(Nat) PROVE \E f : Sums(f, s)
<1> DEFINE T == {n \in Nat : \E u \in Seq(Nat) : Len(u) = n /\ ~ \E f : Sums(f, u)}
<1>1. CASE T # {}
  <2>1. PICK n \in T : \A m \in T : n <= m
    BY <1>1, LeastNumber
  <2>2. PICK u \in Seq(Nat) : Len(u) = n /\ ~ \E f : Sums(f, u)
    BY <2>1
  <2>3. CASE n = 0
    <3>1. Sums([i \in 0 .. 0 |-> 0], u)
      BY <2>2, <2>3 DEF Sums
    <3> QED BY <2>2, <3>1
  <2>4. CASE n # 0
    <3> DEFINE v == [i \in 1 .. n - 1 |-> u[i]]
    <3>1. /\ n \in Nat /\ v \in Seq(Nat) /\ Len(v) = n - 1 /\ u = Append(v, u[n]) /\ u[n] \in Nat
      BY <2>1, <2>2, <2>4
    <3>2. n - 1 \notin T
      <4>1. n - 1 \in T => n <= n - 1
        BY <2>1, Zenon
      <4>2. ~ (n <= n - 1)
        BY <3>1
      <4> QED BY <4>1, <4>2
    <3>3. \E f : Sums(f, v)
      <4>1. n - 1 \in Nat
        BY <2>4, <3>1
      <4> HIDE DEF v
      <4> QED BY <3>1, <3>2, <4>1, Zenon
    <3>4. PICK f : Sums(f, v)
      BY <3>3
    <3>5. \E g : Sums(g, Append(v, u[n]))
      BY <3>1, <3>4, SumsAppend
    <3> QED BY <2>2, <3>1, <3>5
  <2> QED BY <2>3, <2>4
<1>2. CASE T = {}
  <2>1. Len(s) \in Nat
    OBVIOUS
  <2> QED BY <1>2, <2>1
<1> QED BY <1>1, <1>2

\* ... and the total is the last of them.
LEMMA TotalIs ==
  ASSUME NEW s \in Seq(Nat), NEW f, Sums(f, s)
  PROVE  Total(s) = f[Len(s)] /\ Total(s) \in Nat
<1>1. Total(s) = (CHOOSE g : Sums(g, s))[Len(s)]
  BY DEF Total, Sums
<1>2. Sums(CHOOSE g : Sums(g, s), s)
  BY SumsExist
<1>3. Total(s) = f[Len(s)]
  BY <1>1, <1>2, SumsUnique
<1>4. Len(s) \in 0 .. Len(s)
  OBVIOUS
<1> QED BY <1>3, <1>4, SumsType

\* A frame more, ...
LEMMA TotalAppend ==
  ASSUME NEW s \in Seq(Nat), NEW n \in Nat
  PROVE  Total(Append(s, n)) = Total(s) + n /\ Total(s) \in Nat
<1>1. PICK f : Sums(f, s)
  BY SumsExist
<1>2. PICK g : Sums(g, Append(s, n)) /\ g[Len(Append(s, n))] = f[Len(s)] + n
  BY <1>1, SumsAppend
<1>3. Append(s, n) \in Seq(Nat)
  OBVIOUS
<1>4. Total(s) = f[Len(s)] /\ Total(s) \in Nat
  BY <1>1, TotalIs
<1>5. Total(Append(s, n)) = g[Len(Append(s, n))]
  BY <1>2, <1>3, TotalIs
<1> QED BY <1>2, <1>4, <1>5

\* ... a shorter first frame, ...
LEMMA TotalShorter ==
  ASSUME NEW s \in Seq(Nat), s # <<>>, NEW n \in 0 .. Head(s)
  PROVE  Total(<<Head(s) - n>> \o Tail(s)) = Total(s) - n
<1> DEFINE t == <<Head(s) - n>> \o Tail(s)
<1>1. /\ Len(s) \in Nat \ {0} /\ Len(t) = Len(s) /\ t \in Seq(Nat) /\ t[1] = s[1] - n /\ s[1] \in Nat
      /\ \A i \in 2 .. Len(s) : t[i] = s[i]
  OBVIOUS
<1> HIDE DEF t
<1>2. PICK f : Sums(f, s)
  BY SumsExist
<1>3. f \in [0 .. Len(s) -> Nat]
  BY <1>2, SumsType
<1>4. \A i \in 0 .. Len(s) : f[i] = IF i = 0 THEN 0 ELSE f[i - 1] + s[i]
  BY <1>2, Zenon DEF Sums
<1> DEFINE g == [i \in 0 .. Len(t) |-> IF i = 0 THEN 0 ELSE f[i] - n]
<1>5. ASSUME NEW i \in 0 .. Len(t)
      PROVE  g[i] = IF i = 0 THEN 0 ELSE g[i - 1] + t[i]
  <2>1. CASE i = 0
    BY <2>1
  <2>2. CASE i = 1
    <3>1. f[1] = s[1]
      BY <1>1, <1>4
    <3> QED BY <1>1, <2>2, <3>1
  <2>3. CASE i \in 2 .. Len(s)
    <3>1. f[i] = f[i - 1] + s[i] /\ f[i - 1] \in Nat /\ s[i] \in Nat
      <4>1. i \in 0 .. Len(s) /\ i - 1 \in 0 .. Len(s) /\ i # 0 /\ i \in 1 .. Len(s)
        BY <1>1, <2>3
      <4>2. f[i] = f[i - 1] + s[i]
        BY <1>4, <4>1
      <4>3. s[i] \in Nat
        BY <4>1
      <4>4. f[i - 1] \in Nat
        BY <1>3, <4>1
      <4> QED BY <4>2, <4>3, <4>4
    <3>2. i \in 0 .. Len(t) /\ i - 1 \in 0 .. Len(t) /\ i # 0 /\ i - 1 # 0
      BY <1>1, <2>3
    <3>3. g[i] = f[i] - n /\ g[i - 1] = f[i - 1] - n
      BY <3>2, Zenon
    <3>4. t[i] = s[i]
      BY <1>1, <2>3
    <3> HIDE DEF g
    <3>5. g[i] = g[i - 1] + t[i]
      BY <3>1, <3>3, <3>4
    <3> QED BY <3>2, <3>5
  <2> QED BY <1>1, <2>1, <2>2, <2>3
<1>6. g[Len(t)] = f[Len(s)] - n /\ g = [i \in 0 .. Len(t) |-> g[i]]
  BY <1>1
<1> HIDE DEF g
<1>7. Sums(g, t)
  BY <1>5, <1>6, Zenon DEF Sums
<1>8. Total(t) = g[Len(t)]
  BY <1>1, <1>7, TotalIs
<1>9. Total(s) = f[Len(s)]
  BY <1>2, TotalIs
<1> QED BY <1>6, <1>8, <1>9 DEF t

\* ... a frame taken.
LEMMA TotalTail ==
  ASSUME NEW s \in Seq(Nat), s # <<>>
  PROVE  Total(Tail(s)) = Total(s) - Head(s) /\ Total(Tail(s)) \in Nat /\ Total(s) \in Nat
<1> DEFINE t == Tail(s)
<1>1. /\ Len(s) \in Nat \ {0} /\ Len(t) = Len(s) - 1 /\ t \in Seq(Nat) /\ Head(s) = s[1] /\ s[1] \in Nat
      /\ \A i \in 1 .. Len(t) : t[i] = s[i + 1]
  OBVIOUS
<1> HIDE DEF t
<1>2. PICK f : Sums(f, s)
  BY SumsExist
<1>3. f \in [0 .. Len(s) -> Nat]
  BY <1>2, SumsType
<1>4. \A i \in 0 .. Len(s) : f[i] = IF i = 0 THEN 0 ELSE f[i - 1] + s[i]
  BY <1>2, Zenon DEF Sums
<1> DEFINE g == [i \in 0 .. Len(t) |-> f[i + 1] - s[1]]
<1>5. f[1] = s[1]
  BY <1>1, <1>4
<1>6. ASSUME NEW i \in 0 .. Len(t)
      PROVE  g[i] = IF i = 0 THEN 0 ELSE g[i - 1] + t[i]
  <2>1. CASE i = 0
    BY <1>1, <1>5, <2>1
  <2>2. CASE i \in 1 .. Len(t)
    <3>1. i + 1 \in 0 .. Len(s) /\ i \in 0 .. Len(s) /\ (i + 1) - 1 = i /\ i + 1 # 0
      BY <1>1, <2>2
    <3>2. f[i + 1] = f[i] + s[i + 1] /\ f[i] \in Nat
      BY <1>3, <1>4, <3>1
    <3>3. s[i + 1] \in Nat
      <4>1. i + 1 \in 1 .. Len(s)
        BY <1>1, <2>2
      <4> QED BY <4>1
    <3>4. g[i] = f[i + 1] - s[1] /\ g[i - 1] = f[i] - s[1] /\ t[i] = s[i + 1]
      <4>1. i \in 0 .. Len(t) /\ i - 1 \in 0 .. Len(t) /\ (i - 1) + 1 = i
        BY <1>1, <2>2
      <4>2. g[i] = f[i + 1] - s[1] /\ g[i - 1] = f[(i - 1) + 1] - s[1]
        BY <4>1, Zenon
      <4>3. t[i] = s[i + 1]
        BY <1>1, <2>2
      <4> HIDE DEF g
      <4> QED BY <4>1, <4>2, <4>3
    <3>5. s[1] \in Nat
      BY <1>1
    <3> HIDE DEF g
    <3>6. g[i] = g[i - 1] + t[i]
      BY <3>2, <3>3, <3>4, <3>5
    <3> QED BY <2>2, <3>6
  <2> QED BY <1>1, <2>1, <2>2
<1>7. g[Len(t)] = f[Len(s)] - s[1] /\ g = [i \in 0 .. Len(t) |-> g[i]]
  BY <1>1
<1> HIDE DEF g
<1>8. Sums(g, t)
  BY <1>6, <1>7, Zenon DEF Sums
<1>9. Total(t) = g[Len(t)] /\ Total(t) \in Nat
  BY <1>1, <1>8, TotalIs
<1>10. Total(s) = f[Len(s)] /\ Total(s) \in Nat
  BY <1>2, TotalIs
<1> QED BY <1>1, <1>7, <1>9, <1>10 DEF t

LEMMA TotalNone == Total(<<>>) = 0
<1>1. <<>> \in Seq(Nat) /\ Len(<<>>) = 0
  OBVIOUS
<1>2. Sums([i \in 0 .. 0 |-> 0], <<>>)
  BY DEF Sums
<1>3. Total(<<>>) = [i \in 0 .. 0 |-> 0][Len(<<>>)]
  BY <1>1, <1>2, TotalIs
<1> QED BY <1>1, <1>3

\* Where DialTCP is bounds the watch and the connection, ...
Dialled ==
  /\ watch \in {"set", "firing"} => dial \in {"reply", "unwatch"}
  /\ dial \in {"reply", "unwatch", "return"} => conn \in {"open", "closed"}
  /\ dial = "watch" => conn = "open"
  /\ watch = "set" => ctx /\ conn = "open"
  /\ watch = "off" /\ ~failure /\ dial = "return" => conn = "open"
  /\ dial \in {"reply", "unwatch"} => watch # "off"
  /\ watch \in {"firing", "fired"} => ~ctx
  /\ watch = "fired" /\ dial = "return" => failure
  /\ dial = "open" => watch = "off" /\ conn # "none"
  /\ dial = "open" /\ closing # "closed" => conn # "closed"
  /\ dial = "failed" => conn \in {"none", "closed"}
  /\ dial \in {"check", "failed"} => watch \notin {"set", "firing"}
  /\ closing = "closed" => conn = "closed"

\* ... nothing is sent or read before it is done, ...
Untouched ==
  dial # "open" => holder = "nobody" /\ closing = "no" /\ out = <<>>

\* ... the close frame of the server is its last and is read last, until a Read of a
\* framed connection is cut, ...
InOrder ==
  /\ balance = readBuf + Total(wire)
  /\ \A i \in 1 .. Len(wire) - 1 : wire[i] # 0
  /\ eof => wire = <<>> /\ readBuf = 0
Received ==
  /\ astray => zeroRTT
  /\ ~zeroRTT => readBuf = 0
  /\ ~astray => InOrder

\* ... and writeMu is held from the first frame of a Write to its last, unless TLS
\* refuses all that follows.
Sent ==
  /\ out \in Seq([by : Writers \cup {"close"}, more : BOOLEAN])
  /\ closing = "write" => holder = "close"
  /\ holder = "nobody" => \A w \in Writers : left[w] = 0
  /\ out # <<>> /\ out[Len(out)].more /\ conn \in {"none", "open"} =>
       out[Len(out)].by \in Writers /\ left[out[Len(out)].by] > 0
  /\ closing \in {"no", "write"} => \A i \in 1 .. Len(out) : out[i] # CloseFrame

TCPInv == TCPTypeOK /\ Dialled /\ Untouched /\ Received /\ Sent /\ WritesWhole /\ CloseFrameOnce

LEMMA TCPInitInv == TCPInit => TCPInv
<1> SUFFICES ASSUME TCPInit PROVE TCPInv
  OBVIOUS
<1>1. <<>> \in Seq(0 .. MaxBuffer) /\ <<>> \in Seq([by : Writers \cup {"close"}, more : BOOLEAN])
      /\ Len(<<>>) = 0
  OBVIOUS
<1>2. TCPTypeOK
  <2>1. 0 \in 0 .. MaxBuffer /\ 0 \in 0 .. MaxFrames /\ wire \in Seq(0 .. MaxBuffer)
    BY <1>1 DEF TCPInit
  <2>2. {zeroRTT, ctx, failure, reuse, astray, eof} \subseteq BOOLEAN
    BY DEF TCPInit
  <2> QED BY <2>1, <2>2 DEF TCPInit, TCPTypeOK
<1>3. Dialled /\ Untouched
  BY DEF TCPInit, Dialled, Untouched
<1>4. Received
  BY TotalNone DEF TCPInit, Received, InOrder
<1>5. out = <<>> /\ Len(out) = 0
  BY DEF TCPInit
<1>6. Sent
  BY <1>1, <1>5 DEF TCPInit, Sent
<1>7. WritesWhole
  BY <1>5 DEF WritesWhole
<1>8. CloseFrameOnce
  BY <1>5 DEF CloseFrameOnce
<1> QED BY <1>2, <1>3, <1>4, <1>6, <1>7, <1>8 DEF TCPInv

\* Steps of the dial.
LEMMA TCPDialStep == ASSUME TCPInv, DialStep \/ ContextEnds PROVE TCPInv'
<1>1. UNCHANGED <<zeroRTT, inVars, outVars>>
  BY DEF DialStep, ContextEnds, Prepare, StartWatch, WatchFires, Reply, StopWatch, Return
<1>2. TCPTypeOK' /\ Dialled' /\ Untouched'
  <2>1. CASE Prepare
    BY <2>1 DEF Prepare, DialTo, TCPInv, TCPTypeOK, Dialled, Untouched, inVars, outVars
  <2>2. CASE StartWatch
    BY <2>2 DEF StartWatch, TCPInv, TCPTypeOK, Dialled, Untouched, inVars, outVars
  <2>3. CASE WatchFires
    BY <2>3 DEF WatchFires, TCPInv, TCPTypeOK, Dialled, Untouched, inVars, outVars
  <2>4. CASE Reply
    <3>1. failure' \in BOOLEAN /\ reuse' \in BOOLEAN
      BY <2>4 DEF Reply
    <3> QED BY <2>4, <3>1 DEF Reply, TCPInv, TCPTypeOK, Dialled, Untouched, inVars, outVars
  <2>5. CASE StopWatch
    <3>1. failure' \in BOOLEAN
      BY <2>5 DEF StopWatch
    <3> QED BY <2>5, <3>1 DEF StopWatch, TCPInv, TCPTypeOK, Dialled, Untouched, inVars, outVars
  <2>6. CASE Return
    BY <2>6 DEF Return, DialTo, TCPInv, TCPTypeOK, Dialled, Untouched, inVars, outVars
  <2>7. CASE ContextEnds
    BY <2>7 DEF ContextEnds, TCPInv, TCPTypeOK, Dialled, Untouched, inVars, outVars
  <2> QED BY <2>1, <2>2, <2>3, <2>4, <2>5, <2>6, <2>7 DEF DialStep
<1>3. Received'
  BY <1>1 DEF TCPInv, Received, InOrder, inVars
<1>4. dial = "open" => UNCHANGED <<conn, reuse>>
  BY DEF DialStep, ContextEnds, Prepare, StartWatch, WatchFires, Reply, StopWatch, Return,
         TCPInv, Dialled
<1>5. Sent'
  <2>1. CASE dial = "open"
    BY <1>1, <1>4, <2>1 DEF TCPInv, Sent, outVars
  <2>2. CASE dial # "open"
    BY <1>1, <2>2 DEF TCPInv, Sent, outVars, Untouched
  <2> QED BY <2>1, <2>2
<1>6. WritesWhole'
  BY <1>1 DEF TCPInv, WritesWhole, outVars
<1>7. CloseFrameOnce'
  <2>1. CASE dial = "open"
    BY <1>1, <1>4, <2>1 DEF TCPInv, CloseFrameOnce, CloseFrame, outVars
  <2>2. CASE dial # "open"
    BY <1>1, <2>2 DEF TCPInv, CloseFrameOnce, outVars, Untouched
  <2> QED BY <2>1, <2>2
<1> QED BY <1>2, <1>3, <1>5, <1>6, <1>7 DEF TCPInv

\* What is left alone by a read stays as it was.
LEMMA TCPReads ==
  ASSUME TCPInv, UNCHANGED <<dialVars, outVars>>, Received',
         wire' \in Seq(0 .. MaxBuffer), sent' \in 0 .. MaxFrames, readBuf' \in 0 .. MaxBuffer,
         eof' \in BOOLEAN, astray' \in BOOLEAN
  PROVE  TCPInv'
<1>1. UNCHANGED <<zeroRTT, dial, ctx, watch, conn, failure, reuse, left, holder, out, closing>>
  BY DEF dialVars, outVars
<1>2. TCPTypeOK'
  <2>1. {zeroRTT, ctx, failure, reuse, astray, eof}' \subseteq BOOLEAN
    BY <1>1 DEF TCPInv, TCPTypeOK
  <2> QED BY <1>1, <2>1 DEF TCPInv, TCPTypeOK
<1>3. Dialled' /\ Untouched'
  BY <1>1 DEF TCPInv, Dialled, Untouched
<1>4. Sent' /\ WritesWhole' /\ CloseFrameOnce'
  BY <1>1 DEF TCPInv, Sent, WritesWhole, CloseFrameOnce, CloseFrame
<1> QED BY <1>2, <1>3, <1>4 DEF TCPInv

LEMMA TCPInStep ==
  ASSUME TCPInv, (\E n \in 0 .. MaxBuffer : ServerSends(n)) \/ ReadStep
  PROVE  TCPInv'
<1>1. /\ wire \in Seq(0 .. MaxBuffer) /\ wire \in Seq(Nat) /\ sent \in 0 .. MaxFrames
      /\ readBuf \in 0 .. MaxBuffer /\ eof \in BOOLEAN /\ astray \in BOOLEAN /\ Len(wire) \in Nat
  <2>1. wire \in Seq(0 .. MaxBuffer)
    BY DEF TCPInv, TCPTypeOK
  <2> QED BY <2>1 DEF TCPInv, TCPTypeOK
<1>2. Received
  BY DEF TCPInv
<1>3. wire # <<>> => /\ Head(wire) \in 0 .. MaxBuffer /\ Tail(wire) \in Seq(0 .. MaxBuffer)
                     /\ ~astray => /\ \A i \in 1 .. Len(Tail(wire)) - 1 : Tail(wire)[i] # 0
                                   /\ Head(wire) = 0 => Tail(wire) = <<>>
  <2> SUFFICES ASSUME wire # <<>>
               PROVE  /\ Head(wire) \in 0 .. MaxBuffer /\ Tail(wire) \in Seq(0 .. MaxBuffer)
                      /\ ~astray => /\ \A i \in 1 .. Len(Tail(wire)) - 1 : Tail(wire)[i] # 0
                                    /\ Head(wire) = 0 => Tail(wire) = <<>>
    OBVIOUS
  <2> DEFINE t == Tail(wire)
  <2>1. /\ Head(wire) \in 0 .. MaxBuffer /\ Head(wire) = wire[1] /\ t \in Seq(0 .. MaxBuffer)
        /\ Len(t) \in Nat /\ Len(wire) = Len(t) + 1 /\ \A i \in 1 .. Len(t) : t[i] = wire[i + 1]
    BY <1>1
  <2> HIDE DEF t
  <2>2. Len(t) = 0 => t = <<>>
    BY <2>1
  <2>3. ~astray => \A i \in 1 .. Len(wire) - 1 : wire[i] # 0
    BY <1>2 DEF Received, InOrder
  <2>4. ASSUME ~astray, NEW i \in 1 .. Len(t) - 1 PROVE t[i] # 0
    <3>1. i \in 1 .. Len(t) /\ i + 1 \in 1 .. Len(wire) - 1
      BY <2>1
    <3> QED BY <2>1, <2>3, <2>4, <3>1
  <2>5. ~astray /\ Head(wire) = 0 => Len(t) = 0
    BY <2>1, <2>3
  <2> QED BY <2>1, <2>2, <2>4, <2>5 DEF t
<1>4. ASSUME NEW n \in 0 .. MaxBuffer, ServerSends(n) PROVE TCPInv'
  <2>1. /\ wire' = Append(wire, n) /\ sent' = sent + 1 /\ balance' = balance + n /\ sent < MaxFrames
        /\ ~eof /\ \A i \in 1 .. Len(wire) : wire[i] # 0
        /\ UNCHANGED <<dialVars, readBuf, astray, eof, outVars>>
    BY <1>1, <1>4 DEF ServerSends
  <2>2. Total(wire') = Total(wire) + n /\ Total(wire) \in Nat
    BY <1>1, <2>1, TotalAppend
  <2>3. wire' \in Seq(0 .. MaxBuffer) /\ \A i \in 1 .. Len(wire') - 1 : wire'[i] # 0
    BY <1>1, <2>1
  <2>4. Received'
    BY <1>1, <1>2, <2>1, <2>2, <2>3 DEF Received, InOrder, dialVars
  <2> QED BY <1>1, <2>1, <2>3, <2>4, TCPReads
<1>5. ASSUME NEW size \in 1 .. MaxBuffer, ReadRaw(size) PROVE TCPInv'
  <2> DEFINE n == AtMost(size, Head(wire))
  <2>1. /\ ~eof /\ ~zeroRTT /\ wire # <<>> /\ n \in 0 .. Head(wire)
        /\ n = 0 => Head(wire) = 0
        /\ n = Head(wire) \/ Head(wire) - n \in 1 .. MaxBuffer
        /\ wire' = IF n = Head(wire) THEN Tail(wire) ELSE <<Head(wire) - n>> \o Tail(wire)
        /\ balance' = balance - n /\ eof' \in BOOLEAN /\ (eof' => Head(wire) = 0)
        /\ ~astray /\ UNCHANGED <<dialVars, sent, readBuf, astray, outVars>>
    BY <1>1, <1>2, <1>3, <1>5 DEF ReadRaw, ReadStart, AtMost, Received
  <2> HIDE DEF n
  <2>2. CASE n = Head(wire)
    <3>1. wire' = Tail(wire) /\ Total(wire') = Total(wire) - n /\ Total(wire) \in Nat
      BY <1>1, <2>1, <2>2, TotalTail
    <3>2. Received'
      <4>1. readBuf' = readBuf /\ zeroRTT' = zeroRTT /\ readBuf = 0
        BY <1>2, <2>1 DEF Received, dialVars
      <4>2. balance' = readBuf' + Total(wire')
        <5>1. balance = readBuf + Total(wire) /\ balance' = balance - n /\ n \in Int
          BY <1>2, <1>3, <2>1 DEF Received, InOrder
        <5>2. Total(wire') = Total(wire) - n /\ Total(wire) \in Int /\ readBuf \in Int
          BY <1>1, <3>1
        <5> QED BY <4>1, <5>1, <5>2
      <4>3. eof' => wire' = <<>>
        BY <1>3, <2>1, <3>1
      <4> QED BY <1>2, <1>3, <2>1, <3>1, <4>1, <4>2, <4>3 DEF Received, InOrder
    <3> QED BY <1>1, <1>3, <2>1, <3>1, <3>2, TCPReads
  <2>3. CASE n # Head(wire)
    <3>1. wire' = <<Head(wire) - n>> \o Tail(wire) /\ Head(wire) - n \in 1 .. MaxBuffer
      BY <2>1, <2>3
    <3>2. Total(wire') = Total(wire) - n /\ Total(wire) \in Nat
      BY <1>1, <2>1, <3>1, TotalShorter, TotalTail
    <3>3. wire' \in Seq(0 .. MaxBuffer) /\ Len(wire') = Len(Tail(wire)) + 1 /\ wire'[1] # 0
          /\ \A i \in 1 .. Len(Tail(wire)) : wire'[i + 1] = Tail(wire)[i]
      <4> DEFINE t == Tail(wire)
      <4> DEFINE h == Head(wire) - n
      <4>1. t \in Seq(0 .. MaxBuffer) /\ h \in 1 .. MaxBuffer /\ wire' = <<h>> \o t
        BY <1>3, <2>1, <3>1
      <4> HIDE DEF t, h
      <4>2. /\ wire' \in Seq(0 .. MaxBuffer) /\ Len(wire') = Len(t) + 1 /\ wire'[1] = h
            /\ \A i \in 1 .. Len(t) : wire'[i + 1] = t[i]
        BY <4>1
      <4> QED BY <4>1, <4>2 DEF t
    <3>4. \A i \in 1 .. Len(wire') - 1 : wire'[i] # 0
      <4>1. ASSUME NEW i \in 1 .. Len(wire') - 1, i # 1 PROVE wire'[i] # 0
        <5>1. Len(Tail(wire)) \in Nat /\ i - 1 \in 1 .. Len(Tail(wire)) - 1 /\ (i - 1) + 1 = i
          BY <1>1, <2>1, <3>3, <4>1
        <5>2. i - 1 \in 1 .. Len(Tail(wire))
          BY <5>1
        <5>3. wire'[i] = Tail(wire)[i - 1]
          BY <3>3, <5>1, <5>2
        <5> QED BY <1>3, <2>1, <5>1, <5>3
      <4> QED BY <3>3, <4>1
    <3>5. ~eof'
      BY <1>3, <2>1, <2>3
    <3>6. Received'
      <4>1. readBuf' = readBuf /\ zeroRTT' = zeroRTT
        BY <2>1 DEF dialVars
      <4>2. balance' = readBuf' + Total(wire')
        <5>1. balance = readBuf + Total(wire) /\ balance' = balance - n /\ n \in Int
          BY <1>2, <1>3, <2>1 DEF Received, InOrder
        <5>2. Total(wire') = Total(wire) - n /\ Total(wire) \in Int /\ readBuf \in Int
          BY <1>1, <3>2
        <5> QED BY <4>1, <5>1, <5>2
      <4> QED BY <1>2, <2>1, <3>4, <3>5, <4>1, <4>2 DEF Received, InOrder
    <3>7. eof' \in BOOLEAN
      BY <2>1
    <3> QED BY <1>1, <2>1, <3>3, <3>6, <3>7, TCPReads
  <2> QED BY <2>2, <2>3
<1>6. ASSUME NEW size \in 1 .. MaxBuffer, ReadBuffered(size) PROVE TCPInv'
  <2> DEFINE n == AtMost(size, readBuf)
  <2>1. /\ ~eof /\ n \in 0 .. readBuf /\ readBuf > 0 /\ readBuf' = readBuf - n
        /\ ~astray => balance' = balance - n
        /\ UNCHANGED <<dialVars, wire, sent, astray, eof, outVars>>
    BY <1>1, <1>6 DEF ReadBuffered, ReadStart, AtMost
  <2> HIDE DEF n
  <2>2. Total(wire) \in Nat
    BY <1>1, TotalAppend
  <2>3. Received'
    BY <1>1, <1>2, <2>1, <2>2 DEF Received, InOrder, dialVars
  <2> QED BY <1>1, <2>1, <2>3, TCPReads
<1>7. ASSUME NEW size \in 1 .. MaxBuffer, ReadFrame(size) PROVE TCPInv'
  <2> DEFINE n == AtMost(size, Head(wire))
  <2>1. /\ ~eof /\ zeroRTT /\ ~astray /\ readBuf = 0 /\ wire # <<>> /\ n \in 0 .. Head(wire)
        /\ n = 0 => Head(wire) = 0
        /\ readBuf' = Head(wire) - n /\ balance' = balance - n
        /\ eof' \in BOOLEAN /\ (eof' => Head(wire) = 0)
        /\ wire' = Tail(wire)
        /\ UNCHANGED <<dialVars, sent, astray, outVars>>
    BY <1>1, <1>3, <1>7 DEF ReadFrame, ReadHeader, ReadStart, AtMost
  <2> HIDE DEF n
  <2>2. Total(wire') = Total(wire) - Head(wire) /\ Total(wire) \in Nat
    BY <1>1, <2>1, TotalTail
  <2>3. Received'
    <3>1. zeroRTT' = zeroRTT
      BY <2>1 DEF dialVars
    <3>2. balance' = readBuf' + Total(wire')
      <4>1. /\ balance = readBuf + Total(wire) /\ balance' = balance - n
            /\ readBuf' = Head(wire) - n /\ readBuf = 0 /\ n \in Int
        BY <1>2, <1>3, <2>1 DEF Received, InOrder
      <4>2. Head(wire) \in Int
        BY <1>3, <2>1
      <4> QED BY <2>2, <4>1, <4>2
    <3>3. eof' => wire' = <<>> /\ readBuf' = 0
      BY <1>3, <2>1
    <3> QED BY <1>3, <2>1, <3>1, <3>2, <3>3 DEF Received, InOrder
  <2>4. eof' \in BOOLEAN /\ readBuf' \in 0 .. MaxBuffer
    BY <1>3, <2>1
  <2> QED BY <1>1, <1>3, <2>1, <2>3, <2>4, TCPReads
<1>8. ASSUME ReadCut PROVE TCPInv'
  <2>1. /\ wire' = <<>> /\ zeroRTT /\ astray' = TRUE
        /\ UNCHANGED <<dialVars, sent, readBuf, eof, outVars>>
    BY <1>8 DEF ReadCut, ReadHeader
  <2>2. wire' \in Seq(0 .. MaxBuffer)
    BY <2>1
  <2>3. Received'
    BY <2>1 DEF Received, dialVars
  <2> QED BY <1>1, <2>1, <2>2, <2>3, TCPReads
<1>9. ASSUME ReadAstray PROVE TCPInv'
  <2>1. /\ astray /\ zeroRTT /\ readBuf' \in 0 .. MaxBuffer /\ eof' \in BOOLEAN
        /\ UNCHANGED <<dialVars, wire, sent, balance, astray, outVars>>
    BY <1>9 DEF ReadAstray, ReadHeader
  <2>2. Received'
    BY <2>1 DEF Received, dialVars
  <2> QED BY <1>1, <2>1, <2>2, TCPReads
<1> QED BY <1>4, <1>5, <1>6, <1>7, <1>8, <1>9 DEF ReadStep

\* A frame is put behind the others by a Write that has not ended ...
LEMMA FrameSent ==
  ASSUME Sent, WritesWhole, CloseFrameOnce, UNCHANGED reuse,
         NEW f \in [by : Writers \cup {"close"}, more : BOOLEAN], out' = Append(out, f),
         out # <<>> /\ out[Len(out)].more => f.by = out[Len(out)].by
  PROVE  /\ out' \in Seq([by : Writers \cup {"close"}, more : BOOLEAN])
         /\ out' # <<>> /\ out'[Len(out')] = f
         /\ WritesWhole'
         /\ f # CloseFrame => CloseFrameOnce'
         /\ closing = "write" /\ reuse => CloseFrameOnce'
<1>1. /\ out \in Seq([by : Writers \cup {"close"}, more : BOOLEAN])
      /\ Len(out) \in Nat /\ Len(out') = Len(out) + 1 /\ out'[Len(out) + 1] = f
      /\ \A i \in 1 .. Len(out) : out'[i] = out[i]
      /\ DOMAIN out = 1 .. Len(out) /\ DOMAIN out' = 1 .. Len(out) + 1
      /\ out' \in Seq([by : Writers \cup {"close"}, more : BOOLEAN]) /\ out' # <<>>
  BY DEF Sent
<1>2. WritesWhole'
  <2> SUFFICES ASSUME NEW i \in 1 .. Len(out), out'[i].more PROVE out'[i + 1].by = out'[i].by
    BY <1>1 DEF WritesWhole
  <2>1. CASE i = Len(out)
    <3>1. out # <<>>
      BY <1>1, <2>1
    <3> QED BY <1>1, <2>1, <3>1
  <2>2. CASE i \in 1 .. Len(out) - 1
    <3>1. i + 1 \in 1 .. Len(out)
      BY <1>1, <2>2
    <3> QED BY <1>1, <2>2, <3>1 DEF WritesWhole
  <2>3. i = Len(out) \/ i \in 1 .. Len(out) - 1
    <3>1. ASSUME NEW k \in Nat, NEW j \in 1 .. k PROVE j = k \/ j \in 1 .. k - 1
      OBVIOUS
    <3>2. Len(out) \in Nat
      BY <1>1
    <3> QED BY <3>1, <3>2
  <2> QED BY <2>1, <2>2, <2>3, Zenon
<1>3. CASE f # CloseFrame
  <2>1. {i \in DOMAIN out' : out'[i] = CloseFrame} = {i \in DOMAIN out : out[i] = CloseFrame}
    BY <1>1, <1>3
  <2> QED BY <1>1, <1>2, <2>1 DEF CloseFrameOnce, CloseFrame
<1>4. CASE f = CloseFrame
  <2>1. ASSUME closing = "write", reuse PROVE CloseFrameOnce'
    <3>1. \A i \in 1 .. Len(out) : out[i] # CloseFrame
      BY <2>1 DEF Sent
    <3>2. {i \in DOMAIN out' : out'[i] = CloseFrame} = {Len(out) + 1}
      BY <1>1, <1>4, <3>1
    <3> QED BY <2>1, <3>2 DEF CloseFrameOnce, CloseFrame
  <2> QED BY <1>1, <1>2, <1>4, <2>1
<1> QED BY <1>3, <1>4

LEMMA TCPWriteStep == ASSUME TCPInv, NEW w \in Writers, WriteStep(w) PROVE TCPInv'
<1>1. UNCHANGED <<zeroRTT, dial, ctx, watch, failure, reuse, closing>> /\ UNCHANGED inVars
  BY DEF WriteStep, WriteChunk, WriteBegins, dialVars
<1>2. /\ left \in [Writers -> 0 .. MaxBuffer] /\ conn \in {"none", "open", "broken", "closed"}
      /\ w # "nobody" /\ w # "close"
      /\ left[w] > 0 => holder = w /\ dial = "open"
      /\ \A v \in Writers : v # w /\ left[w] > 0 => left[v] = 0
      /\ \A v \in Writers : left[v] > 0 => holder = v
      /\ closing = "write" => holder = "close"
  BY DEF TCPInv, TCPTypeOK, Sent, Untouched
<1>3. Received'
  BY <1>1 DEF TCPInv, Received, InOrder, inVars
<1>4. CASE \E n \in 1 .. MaxBuffer : WriteBegins(w, n)
  <2>1. PICK n \in 1 .. MaxBuffer : WriteBegins(w, n)
    BY <1>4
  <2>2. /\ dial = "open" /\ left[w] = 0 /\ holder = "nobody" /\ holder' = w
        /\ left' = [left EXCEPT ![w] = n] /\ UNCHANGED <<conn, out>>
    BY <2>1 DEF WriteBegins, dialVars
  <2>3. \A v \in Writers : left'[v] = IF v = w THEN n ELSE 0
    BY <1>2, <2>2 DEF TCPInv, Sent
  <2>4. TCPTypeOK'
    BY <1>1, <1>2, <2>2, <2>3 DEF TCPInv, TCPTypeOK, inVars
  <2>5. Dialled' /\ Untouched' /\ WritesWhole' /\ CloseFrameOnce'
    BY <1>1, <2>2 DEF TCPInv, Dialled, Untouched, WritesWhole, CloseFrameOnce, CloseFrame
  <2>6. Sent'
    BY <1>1, <1>2, <2>2, <2>3 DEF TCPInv, Sent, CloseFrame
  <2> QED BY <1>3, <2>4, <2>5, <2>6 DEF TCPInv
<1>5. CASE WriteChunk(w)
  <2> DEFINE n == AtMost(left[w], MaxFrame)
  <2>1. /\ left[w] > 0 /\ n \in 1 .. left[w]
        /\ \/ /\ conn = "open" /\ out' = Append(out, [by |-> w, more |-> left[w] > n])
              /\ left' = [left EXCEPT ![w] = @ - n] /\ UNCHANGED conn
           \/ /\ conn' = IF conn = "open" THEN "broken" ELSE conn
              /\ left' = [left EXCEPT ![w] = 0]
              /\ UNCHANGED out
        /\ holder' = IF left'[w] = 0 THEN "nobody" ELSE holder
    BY <1>2, <1>5 DEF WriteChunk, AtMost
  <2> HIDE DEF n
  <2>2. /\ left' \in [Writers -> 0 .. MaxBuffer]
        /\ \A v \in Writers : v # w => left'[v] = 0
        /\ left'[w] > 0 => holder' = w /\ holder = w
        /\ left'[w] = 0 => holder' = "nobody"
        /\ conn' \in {"none", "open", "broken", "closed"}
        /\ conn' # conn => conn = "open" /\ conn' = "broken"
    BY <1>2, <2>1
  <2>3. TCPTypeOK'
    <3>1. UNCHANGED <<wire, sent, readBuf, astray, eof>>
      BY <1>1 DEF inVars
    <3>2. {zeroRTT, ctx, failure, reuse, astray, eof}' \subseteq BOOLEAN
      BY <1>1, <3>1 DEF TCPInv, TCPTypeOK
    <3>3. holder' \in Writers \cup {"nobody", "close"} /\ \A v \in Writers : left'[v] > 0 => holder' = v
      BY <2>2
    <3> QED BY <1>1, <2>2, <3>1, <3>2, <3>3 DEF TCPInv, TCPTypeOK
  <2>4. Dialled' /\ Untouched'
    BY <1>1, <1>2, <2>1, <2>2 DEF TCPInv, Dialled, Untouched
  <2>5. closing # "write"
    BY <1>2, <2>1
  <2>6. CASE conn = "open" /\ out' = Append(out, [by |-> w, more |-> left[w] > n])
             /\ left' = [left EXCEPT ![w] = @ - n] /\ UNCHANGED conn
    <3> DEFINE f == [by |-> w, more |-> left[w] > n]
    <3>1. f \in [by : Writers \cup {"close"}, more : BOOLEAN] /\ f.by = w /\ f # CloseFrame
          /\ (f.more => left'[w] > 0) /\ out' = Append(out, f)
      <4>1. (left[w] > n) \in BOOLEAN /\ (left[w] > n => left'[w] > 0)
        BY <1>2, <2>1, <2>6
      <4>2. PICK b \in BOOLEAN : b = (left[w] > n)
        BY <4>1
      <4>3. f = [by |-> w, more |-> b]
        BY <4>2, Zenon
      <4>4. f.by = w /\ f.more = b /\ f \in [by : Writers \cup {"close"}, more : BOOLEAN]
        BY <4>3
      <4>5. f # CloseFrame
        BY <1>2, <4>4 DEF CloseFrame
      <4>6. out' = Append(out, f)
        BY <2>6, Zenon
      <4> QED BY <4>1, <4>2, <4>4, <4>5, <4>6
    <3> HIDE DEF f
    <3>2. out # <<>> /\ out[Len(out)].more => f.by = out[Len(out)].by
      BY <1>2, <2>1, <2>6, <3>1 DEF TCPInv, Sent
    <3>3. /\ out' \in Seq([by : Writers \cup {"close"}, more : BOOLEAN])
          /\ out' # <<>> /\ out'[Len(out')] = f
          /\ WritesWhole' /\ CloseFrameOnce'
      BY <1>1, <3>1, <3>2, FrameSent DEF TCPInv
    <3>4. closing \in {"no", "write"} => \A i \in 1 .. Len(out') : out'[i] # CloseFrame
      <4>1. out \in Seq([by : Writers \cup {"close"}, more : BOOLEAN])
        BY DEF TCPInv, Sent
      <4> QED BY <3>1, <4>1 DEF TCPInv, Sent
    <3>5. Sent'
      BY <1>1, <2>2, <2>5, <3>1, <3>3, <3>4 DEF Sent, CloseFrame
    <3> QED BY <1>3, <2>3, <2>4, <3>3, <3>5 DEF TCPInv
  <2>7. CASE /\ conn' = IF conn = "open" THEN "broken" ELSE conn
             /\ left' = [left EXCEPT ![w] = 0]
             /\ UNCHANGED out
    <3>1. conn' # "open" /\ (conn' = "none" => conn = "none") /\ dial = "open" /\ conn # "none"
      BY <1>2, <2>1, <2>7 DEF TCPInv, Dialled
    <3>2. WritesWhole' /\ CloseFrameOnce'
      BY <1>1, <2>7 DEF TCPInv, WritesWhole, CloseFrameOnce, CloseFrame
    <3>3. Sent'
      BY <1>1, <2>2, <2>5, <2>7, <3>1 DEF TCPInv, Sent, CloseFrame
    <3> QED BY <1>3, <2>3, <2>4, <3>2, <3>3 DEF TCPInv
  <2> QED BY <2>1, <2>6, <2>7
<1> QED BY <1>4, <1>5 DEF WriteStep

LEMMA TCPCloseStep ==
  ASSUME TCPInv, CloseWriteBegins \/ CloseWriteEnds \/ CloseConn
  PROVE  TCPInv'
<1>1. UNCHANGED <<zeroRTT, dial, ctx, watch, failure, reuse, left>> /\ UNCHANGED inVars
  BY DEF CloseWriteBegins, CloseWriteEnds, CloseConn, dialVars
<1>2. dial = "open"
  BY DEF CloseWriteBegins, CloseWriteEnds, CloseConn, TCPInv, Untouched
<1>3. Received'
  BY <1>1 DEF TCPInv, Received, InOrder, inVars
<1>4. TCPTypeOK'
  <2>1. {zeroRTT, ctx, failure, reuse, astray, eof}' \subseteq BOOLEAN
    BY <1>1 DEF TCPInv, TCPTypeOK, inVars
  <2>2. /\ conn' \in {"none", "open", "broken", "closed"}
        /\ closing' \in {"no", "write", "written", "closed"}
    BY DEF CloseWriteBegins, CloseWriteEnds, CloseConn, TCPInv, TCPTypeOK, dialVars
  <2>3. /\ holder' \in Writers \cup {"nobody", "close"}
        /\ \A w \in Writers : left'[w] > 0 => holder' = w
    BY <1>1 DEF CloseWriteBegins, CloseWriteEnds, CloseConn, TCPInv, TCPTypeOK, Sent
  <2> QED BY <1>1, <2>1, <2>2, <2>3 DEF TCPInv, TCPTypeOK, inVars
<1>5. Dialled' /\ Untouched'
  BY <1>1, <1>2 DEF CloseWriteBegins, CloseWriteEnds, CloseConn, TCPInv, Dialled, Untouched, dialVars
<1>6. CASE UNCHANGED out
  <2>1. WritesWhole' /\ CloseFrameOnce'
    BY <1>1, <1>6 DEF TCPInv, WritesWhole, CloseFrameOnce, CloseFrame
  <2>2. Sent'
    <3>1. CASE CloseWriteBegins
      BY <1>1, <1>6, <3>1 DEF CloseWriteBegins, TCPInv, Sent, CloseFrame, dialVars
    <3>2. CASE CloseWriteEnds
      <4>1. \A w \in Writers : left[w] = 0
        BY <3>2 DEF CloseWriteEnds, TCPInv, TCPTypeOK, Sent
      <4> QED BY <1>1, <1>6, <3>2, <4>1 DEF CloseWriteEnds, TCPInv, Sent, CloseFrame, dialVars
    <3>3. CASE CloseConn
      BY <1>1, <1>6, <3>3 DEF CloseConn, TCPInv, Sent, CloseFrame
    <3> QED BY <3>1, <3>2, <3>3
  <2> QED BY <1>3, <1>4, <1>5, <2>1, <2>2 DEF TCPInv
<1>7. CASE CloseWriteEnds /\ reuse /\ conn = "open" /\ out' = Append(out, CloseFrame)
  <2>1. closing = "write" /\ closing' = "written" /\ holder = "close" /\ holder' = "nobody" /\ conn' = conn
    BY <1>7 DEF CloseWriteEnds, dialVars, TCPInv, Sent
  <2>2. \A w \in Writers : left[w] = 0
    BY <2>1 DEF TCPInv, TCPTypeOK
  <2>3. CloseFrame \in [by : Writers \cup {"close"}, more : BOOLEAN] /\ ~CloseFrame.more
    BY DEF CloseFrame
  <2>4. ~ (out # <<>> /\ out[Len(out)].more)
    BY <1>7, <2>2 DEF TCPInv, Sent
  <2>5. /\ out' \in Seq([by : Writers \cup {"close"}, more : BOOLEAN])
        /\ out' # <<>> /\ out'[Len(out')] = CloseFrame
        /\ WritesWhole' /\ CloseFrameOnce'
    BY <1>1, <1>7, <2>1, <2>3, <2>4, FrameSent DEF TCPInv
  <2>6. Sent'
    BY <1>1, <2>1, <2>2, <2>3, <2>5 DEF Sent
  <2> QED BY <1>3, <1>4, <1>5, <2>5, <2>6 DEF TCPInv
<1> QED BY <1>6, <1>7 DEF CloseWriteBegins, CloseWriteEnds, CloseConn

LEMMA TCPStepInv == TCPInv /\ [TCPNext]_tcpVars => TCPInv'
<1> SUFFICES ASSUME TCPInv, [TCPNext]_tcpVars PROVE TCPInv'
  OBVIOUS
<1>1. CASE UNCHANGED tcpVars
  <2>1. UNCHANGED <<zeroRTT, dial, ctx, watch, conn, failure, reuse, wire, sent, readBuf, balance,
                    astray, eof, left, holder, out, closing>>
    BY <1>1 DEF tcpVars
  <2>2. TCPTypeOK' /\ Dialled' /\ Untouched'
    BY <2>1 DEF TCPInv, TCPTypeOK, Dialled, Untouched
  <2>3. Received' /\ Sent' /\ WritesWhole' /\ CloseFrameOnce'
    BY <2>1 DEF TCPInv, Received, InOrder, Sent, WritesWhole, CloseFrameOnce, CloseFrame
  <2> QED BY <2>2, <2>3 DEF TCPInv
<1> QED BY <1>1, TCPDialStep, TCPInStep, TCPWriteStep, TCPCloseStep DEF TCPNext

LEMMA TCPInvHolds == TCPSpec => []TCPInv
BY TCPInitInv, TCPStepInv, PTL DEF TCPSpec

LEMMA TCPPromise == TCPInv => DialOutcome /\ StreamIntact
<1>1. TCPInv => DialOutcome
  BY DEF TCPInv, Dialled, DialOutcome, ReturnsOpen, FailsClosed
<1>2. TCPInv => NothingLost
  BY TotalNone DEF TCPInv, Received, InOrder, NothingLost
<1> QED BY <1>1, <1>2 DEF TCPInv, StreamIntact

\* DialTCP hands out a connection that the end of its context neither has closed nor
\* will close, and leaves none open when it fails (tcptunnel.go:207-229, 604-621).
THEOREM DialOutcomeCorrect == TCPSpec => []DialOutcome
BY TCPPromise, TCPInvHolds, PTL

\* Whatever the frames, the buffers and the number of writers, Read returns every
\* byte once, the frames of one Write stay together, and at most one close frame is
\* sent (tcptunnel.go:291-423).
THEOREM StreamIntactCorrect == TCPSpec => []StreamIntact
BY TCPPromise, TCPInvHolds, PTL

HIDE TCPTunnelAssumption

(***************************************************************************)
(* The login: what the client does next is what the gateway waits for.     *)
(***************************************************************************)

\* A step that is understood names the service that is due, with the id the gateway
\* gave it; only of accessCheck the id can be that of another entry.
Understood(s, f, id) ==
  /\ s \in [service : {f}, id : {"", "own", "other"}, mode : {"unknown", "withID", "withoutID"}]
  /\ f # "accessCheck" => s.id = id
  /\ f = "sms" => s.mode = IF id = "" THEN "withoutID" ELSE "withID"

LEMMA ListOfOne ==
  ASSUME NEW e
  PROVE  <<e>> # <<>> /\ DOMAIN <<e>> = {1} /\ <<e>>[1] = e /\ Head(<<e>>) = e
<1>1. DOMAIN <<e>> = {1}
  OBVIOUS
<1> QED BY <1>1

LEMMA ListOfTwo ==
  ASSUME NEW o, NEW e
  PROVE  <<o, e>> # <<>> /\ DOMAIN <<o, e>> = {1, 2} /\ <<o, e>>[1] = o /\ <<o, e>>[2] = e
<1>1. DOMAIN <<o, e>> = {1, 2}
  OBVIOUS
<1> QED BY <1>1

LEMMA FirstNamed ==
  ASSUME NEW S, NEW b \in BOOLEAN, \A i : i \in S <=> i = 2 \/ (i = 1 /\ b)
  PROVE  S # {} /\ (CHOOSE i \in S : \A j \in S : i <= j) = IF b THEN 1 ELSE 2
<1> DEFINE c == CHOOSE i \in S : \A j \in S : i <= j
<1>1. S # {} /\ \E i \in S : \A j \in S : i <= j
  OBVIOUS
<1>2. c \in S /\ \A j \in S : c <= j
  BY <1>1
<1> HIDE DEF c
<1>3. c = IF b THEN 1 ELSE 2
  BY <1>2
<1> QED BY <1>1, <1>3 DEF c

\* The entry and the id of an answer that lists nothing, ...
LEMMA NothingListed ==
  ASSUME NEW d, d.list = <<>>
  PROVE  Selected(d) = Entry("", "", "") /\ GivenID(d) = ""
<1>1. DOMAIN d.list = {}
  OBVIOUS
<1>2. GivenID(d) = ""
  BY <1>1 DEF GivenID
<1> QED BY <1>2 DEF Selected

\* ... one service, ...
LEMMA OneListed ==
  ASSUME NEW d, NEW e, d.list = <<e>>
  PROVE  Selected(d) = e /\ GivenID(d) = IF e.id = "own" THEN "own" ELSE ""
<1>1. d.list # <<>> /\ DOMAIN d.list = {1} /\ d.list[1] = e /\ Head(d.list) = e
  BY ListOfOne
<1> DEFINE named == {i \in DOMAIN d.list : d.next # "" /\ d.list[i].type = d.next}
<1>2. named # {} => named = {1}
  BY <1>1
<1>3. Selected(d) = IF named # {} THEN d.list[CHOOSE i \in named : \A j \in named : i <= j]
                    ELSE Head(d.list)
  BY <1>1 DEF Selected
<1> HIDE DEF named
<1>4. named # {} => (CHOOSE i \in named : \A j \in named : i <= j) = 1
  BY <1>2
<1>5. Selected(d) = e
  BY <1>1, <1>3, <1>4
<1>6. GivenID(d) = IF e.id = "own" THEN "own" ELSE ""
  <2>1. (\E i \in DOMAIN d.list : d.list[i].id = "own") <=> e.id = "own"
    BY <1>1
  <2> QED BY <2>1, Zenon DEF GivenID
<1> QED BY <1>5, <1>6

\* ... or one that is meant behind another.
LEMMA TwoListed ==
  ASSUME NEW d, NEW o, NEW e, d.list = <<o, e>>, d.next # "", e.type = d.next, e.id = "own"
  PROVE  Selected(d) = (IF o.type = d.next THEN o ELSE e) /\ GivenID(d) = "own"
<1> DEFINE l == d.list
<1> HIDE DEF l
<1>1. l # <<>> /\ DOMAIN l = {1, 2} /\ l[1] = o /\ l[2] = e
  <2>1. l = <<o, e>>
    BY DEF l
  <2> QED BY <2>1, ListOfTwo
<1> DEFINE named == {i \in DOMAIN l : d.next # "" /\ l[i].type = d.next}
<1>2. \A i : i \in named <=> i = 2 \/ (i = 1 /\ o.type = d.next)
  BY <1>1
<1>3. Selected(d) = IF named # {} THEN l[CHOOSE i \in named : \A j \in named : i <= j]
                    ELSE Head(l)
  BY <1>1 DEF Selected, l
<1> HIDE DEF named
<1>4. PICK b \in BOOLEAN : b <=> o.type = d.next
  OBVIOUS
<1>5. \A i : i \in named <=> i = 2 \/ (i = 1 /\ b)
  BY <1>2, <1>4, Zenon
<1>6. named # {} /\ (CHOOSE i \in named : \A j \in named : i <= j) = IF b THEN 1 ELSE 2
  BY <1>5, FirstNamed
<1>7. Selected(d) = l[IF b THEN 1 ELSE 2]
  BY <1>3, <1>6, Zenon
<1>8. GivenID(d) = "own"
  BY <1>1, Zenon DEF GivenID, l
<1> QED BY <1>1, <1>4, <1>7, <1>8

\* authStepFromData once the entry is known.
LEMMA StepIs ==
  ASSUME NEW d, NEW e, Selected(d) = e, NEW f, f # "", f # "sendSms",
         \/ d.next = f /\ (f = "token" => e.type \notin {"totp", "radius", "challenge"} /\ e.sub = "")
         \/ d.next = "" /\ e.type = f
         \/ d.next = "sendSms" /\ f = "sms"
         \/ d.next = "" /\ e.type = "" /\ e.id # "" /\ f = "sms"
         \/ d.next = "token" /\ e.type = f /\ f \in {"totp", "radius", "challenge"}
         \/ d.next = "token" /\ e.type = "token" /\ e.sub = "totp" /\ f = "totp",
         e.id \in {"", "own", "other"}, NEW id, f # "accessCheck" => e.id = id
  PROVE  Understood(StepFromData(d), f, id)
<1> DEFINE service == CASE d.next = "" -> e.type
                        [] d.next = "token" /\ e.type \in {"totp", "radius", "challenge"} -> e.type
                        [] d.next = "token" /\ e.type = "token" /\ e.sub = "totp" -> "totp"
                        [] OTHER -> d.next
<1> DEFINE s == IF service = "sendSms" \/ (service = "" /\ e.id # "") THEN "sms" ELSE service
<1> DEFINE m == IF s # "sms" THEN "unknown" ELSE IF e.id = "" THEN "withoutID" ELSE "withID"
<1>1. StepFromData(d) = [service |-> s, id |-> e.id, mode |-> m]
  BY Zenon DEF StepFromData
<1>2. s = f
  OBVIOUS
<1>3. m \in {"unknown", "withID", "withoutID"}
      /\ (f = "sms" => m = IF e.id = "" THEN "withoutID" ELSE "withID")
  BY <1>2
<1> HIDE DEF s, m
<1> DEFINE r == [service |-> f, id |-> e.id, mode |-> m]
<1>4. StepFromData(d) = r
  BY <1>1, <1>2, Zenon
<1>5. /\ r \in [service : {f}, id : {"", "own", "other"}, mode : {"unknown", "withID", "withoutID"}]
      /\ r.id = e.id /\ r.mode = m
  BY <1>3
<1> HIDE DEF r
<1> QED BY <1>3, <1>4, <1>5 DEF Understood

\* Whatever shape an answer has, authStepFromData reads from it what is due.
LEMMA ShapesUnderstood ==
  ASSUME NEW f \in Factors, NEW d \in Shapes(f)
  PROVE  Understood(StepFromData(d), f, GivenID(d)) /\ GivenID(d) \in {"", "own"}
<1>1. f # "" /\ f # "sendSms"
  BY LoginAssumption
<1> DEFINE mine == Entry(f, "", "own")
<1> DEFINE other == Entry("accessCheck", "", "other")
<1>2. mine.type = f /\ mine.sub = "" /\ mine.id = "own"
      /\ other.type = "accessCheck" /\ other.sub = "" /\ other.id = "other"
  BY DEF Entry
<1>3. \/ d = [next |-> f, list |-> <<>>]
      \/ d = [next |-> f, list |-> <<mine>>]
      \/ d = [next |-> f, list |-> <<other, mine>>]
      \/ d = [next |-> "", list |-> <<mine>>]
      \/ f = "sms" /\ d = [next |-> "sendSms", list |-> <<>>]
      \/ f = "sms" /\ d = [next |-> "", list |-> <<Entry("", "", "own")>>]
      \/ f \in {"totp", "radius", "challenge"} /\ d = [next |-> "token", list |-> <<mine>>]
      \/ f = "totp" /\ d = [next |-> "token", list |-> <<Entry("token", "totp", "own")>>]
  BY Zenon DEF Shapes
<1> HIDE DEF mine, other
<1>5. CASE d = [next |-> f, list |-> <<>>] \/ (f = "sms" /\ d = [next |-> "sendSms", list |-> <<>>])
  <2> DEFINE e == Entry("", "", "")
  <2>1. d.list = <<>> /\ (d.next = f \/ (d.next = "sendSms" /\ f = "sms"))
    BY <1>5
  <2>2. e.type = "" /\ e.sub = "" /\ e.id = ""
    BY DEF Entry
  <2>3. Selected(d) = e /\ GivenID(d) = ""
    BY <2>1, NothingListed
  <2> HIDE DEF e
  <2>4. Understood(StepFromData(d), f, "")
    BY <1>1, <2>1, <2>2, <2>3, StepIs
  <2> QED BY <2>3, <2>4
<1>6. CASE \/ d = [next |-> f, list |-> <<mine>>] \/ d = [next |-> "", list |-> <<mine>>]
           \/ f \in {"totp", "radius", "challenge"} /\ d = [next |-> "token", list |-> <<mine>>]
  <2>1. d.list = <<mine>>
        /\ (d.next = f \/ d.next = "" \/ (d.next = "token" /\ f \in {"totp", "radius", "challenge"}))
    <3>1. CASE d = [next |-> f, list |-> <<mine>>]
      BY <3>1
    <3>2. CASE d = [next |-> "", list |-> <<mine>>]
      BY <3>2
    <3>3. CASE f \in {"totp", "radius", "challenge"} /\ d = [next |-> "token", list |-> <<mine>>]
      BY <3>3
    <3> QED BY <1>6, <3>1, <3>2, <3>3
  <2>2. Selected(d) = mine /\ GivenID(d) = "own"
    BY <1>2, <2>1, OneListed
  <2>3. Understood(StepFromData(d), f, "own")
    BY <1>1, <1>2, <2>1, <2>2, StepIs
  <2> QED BY <2>2, <2>3
<1>7. CASE d = [next |-> f, list |-> <<other, mine>>]
  <2>1. d.list = <<other, mine>> /\ d.next = f
    BY <1>7
  <2> DEFINE e == IF other.type = d.next THEN other ELSE mine
  <2>2. Selected(d) = e /\ GivenID(d) = "own"
    BY <1>1, <1>2, <2>1, TwoListed
  <2>3. e.type = f /\ e.sub = "" /\ e.id \in {"own", "other"} /\ (f # "accessCheck" => e.id = "own")
    BY <1>2, <2>1
  <2> HIDE DEF e
  <2>4. Understood(StepFromData(d), f, "own")
    BY <1>1, <2>1, <2>2, <2>3, StepIs
  <2> QED BY <2>2, <2>4
<1>8. CASE f = "sms" /\ d = [next |-> "", list |-> <<Entry("", "", "own")>>]
  <2> DEFINE e == Entry("", "", "own")
  <2>1. d.list = <<e>> /\ d.next = ""
    BY <1>8
  <2>2. e.type = "" /\ e.id = "own"
    BY DEF Entry
  <2> HIDE DEF e
  <2>3. Selected(d) = e /\ GivenID(d) = "own"
    BY <2>1, <2>2, OneListed
  <2>4. Understood(StepFromData(d), f, "own")
    BY <1>1, <1>8, <2>1, <2>2, <2>3, StepIs
  <2> QED BY <2>3, <2>4
<1>9. CASE f = "totp" /\ d = [next |-> "token", list |-> <<Entry("token", "totp", "own")>>]
  <2> DEFINE e == Entry("token", "totp", "own")
  <2>1. d.list = <<e>> /\ d.next = "token"
    BY <1>9
  <2>2. e.type = "token" /\ e.sub = "totp" /\ e.id = "own"
    BY DEF Entry
  <2> HIDE DEF e
  <2>3. Selected(d) = e /\ GivenID(d) = "own"
    BY <2>1, <2>2, OneListed
  <2>4. Understood(StepFromData(d), f, "own")
    BY <1>1, <1>9, <2>1, <2>2, <2>3, StepIs
  <2> QED BY <2>3, <2>4
<1>10. GivenID(d) \in {"", "own"}
  BY Zenon DEF GivenID
<1> QED BY <1>3, <1>5, <1>6, <1>7, <1>8, <1>9, <1>10

\* The rest of the factors is due after the first.
LEMMA ChainsTail ==
  ASSUME NEW due \in Chains, due # <<>>
  PROVE  Head(due) \in Factors /\ Tail(due) \in Chains
<1>1. PICK n \in 0 .. MaxFactors : due \in [1 .. n -> Factors]
  BY DEF Chains
<1>2. due \in Seq(Factors) /\ Len(due) = n /\ n \in Nat
  BY <1>1
<1>3. n - 1 \in 0 .. MaxFactors /\ Tail(due) \in [1 .. n - 1 -> Factors]
  <2> DEFINE k == n - 1
  <2> DEFINE t == Tail(due)
  <2>1. MaxFactors \in Nat
    BY LoginAssumption
  <2>2. n # 0
    BY <1>1, <1>2
  <2>3. k \in 0 .. MaxFactors /\ k \in Nat
    BY <1>2, <2>1, <2>2
  <2>4. t \in Seq(Factors) /\ Len(t) = k
    BY <1>2, <2>2
  <2> HIDE DEF k, t
  <2>5. t \in [1 .. k -> Factors]
    BY <2>3, <2>4
  <2> QED BY <2>3, <2>5 DEF k, t
<1>4. Tail(due) \in Chains
  BY <1>3 DEF Chains
<1> QED BY <1>2, <1>4

LEMMA AsksUnderstood ==
  ASSUME NEW due \in Chains, NEW d \in Asks(due)
  PROVE  /\ GivenID(d) \in {"", "own"}
         /\ due = <<>> => StepFromData(d) = [service |-> "", id |-> "", mode |-> "unknown"]
         /\ due # <<>> => Understood(StepFromData(d), Head(due), GivenID(d))
<1>1. CASE due # <<>>
  BY <1>1, ChainsTail, ShapesUnderstood DEF Asks
<1>2. CASE due = <<>>
  <2>1. d.next = "" /\ d.list = <<>>
    <3>1. d = [next |-> "", list |-> <<>>]
      BY <1>2, Zenon DEF Asks
    <3> QED BY <3>1
  <2> DEFINE e == Entry("", "", "")
  <2>2. Selected(d) = e /\ GivenID(d) = ""
    BY <2>1, NothingListed
  <2>3. e.type = "" /\ e.id = ""
    BY DEF Entry
  <2> HIDE DEF e
  <2>4. StepFromData(d) = [service |-> "", id |-> "", mode |-> "unknown"]
    BY <2>1, <2>2, <2>3 DEF StepFromData
  <2> QED BY <1>2, <2>2, <2>4
<1> QED BY <1>1, <1>2

Entering == {"config", "submit", "image", "captchaConfig", "captcha", "code", "callback", "callbackConfig"}
Texting == {"smsConfig", "smsPhone", "smsSend", "smsRefresh", "smsCode", "smsCheck"}
InChain == {"chain", "customCode"} \cup Texting

Sessions == [method : Methods, ticket : BOOLEAN, next : {"", "authCheck"} \cup Factors,
             rand : {"none", "fresh", "stale"}, code : {"none", "current", "old"}]
Gateways == [due : Chains, loggedIn : BOOLEAN, id : {"", "own"}, fresh : BOOLEAN]
Steps == [service : Services \cup Factors \cup {"", "token"}, id : {"", "own", "other"},
          mode : {"unknown", "withID", "withoutID"}]

LoginTyped ==
  /\ at \in Entering \cup InChain \cup {"report", "info", "done"}
  /\ form \in {"psw", "sendSms", "smsCode"}
  /\ tries \in 0 .. MaxAttempts /\ steps \in 0 .. MaxSteps
  /\ step \in Steps /\ sess \in Sessions /\ gw \in Gateways
  /\ result \in {"none", "ok", "failed", "no method", "not offered", "captcha", "unsupported", "too long"}

\* A service that its name alone tells, and for which the gateway gave no id.
Named(service) == Waited(service) /\ service # "sms"

\* What the client sends next is fresh: the rand wherever it is used, the code in the
\* captcha loop of its check; and it has its ticket where it needs one.
Secrets ==
  /\ at \notin {"config", "image", "captchaConfig", "done"} => sess.rand = "fresh"
  /\ form = "smsCode" /\ at \in {"submit", "image", "captchaConfig", "captcha"} => sess.code = "current"
  /\ at \in {"report", "callbackConfig"} \cup InChain => sess.ticket
  /\ at \in Entering => sess.next = ""
  /\ at \in Entering \cup {"report"} => gw.id = ""
  /\ at = "report" /\ sess.next \notin {"", "authCheck"} => Named(sess.next)

\* The step the client follows is the one the gateway waits for.
Expected ==
  /\ at = "chain" =>
       \/ step.service = "authCheck"
       \/ step.service = "" /\ gw.due = <<>>
       \/ /\ Waited(step.service)
          /\ step.service \in {"sms", "enhanced", "bindAuthDevice"} => step.id = gw.id
          /\ step.service = "sms" => step.mode # "unknown"
  /\ at \in Texting => WaitedID("sms") /\ step.mode # "unknown"
  /\ at = "smsConfig" => step.mode = "withID"
  /\ at \in {"smsPhone", "smsSend"} /\ step.mode = "withID" => gw.fresh
  /\ at = "smsRefresh" => step.mode = "withoutID"
  /\ at \in {"smsCode", "smsCheck"} => gw.fresh
  /\ at = "smsCheck" => sess.code = "current"
  /\ at = "customCode" => Waited("customSms")

Outcome ==
  /\ at # "done" => result = "none"
  /\ at = "info" => gw.loggedIn \/ (gw.due = <<>> /\ sess.ticket)
  /\ AllFactorsPassed

LoginInv == LoginTyped /\ Secrets /\ Expected /\ Outcome

LEMMA LoginInitInv == LoginInit => LoginInv
<1> SUFFICES ASSUME LoginInit PROVE LoginInv
  OBVIOUS
<1>0. 0 \in 0 .. MaxAttempts /\ 0 \in 0 .. MaxSteps
  <2>1. MaxAttempts \in Nat /\ MaxSteps \in Nat
    BY LoginAssumption
  <2> QED BY <2>1
<1>1. PICK m \in Methods :
        sess = [method |-> m, ticket |-> FALSE, next |-> "", rand |-> "none", code |-> "none"]
  BY DEF LoginInit
<1>2. PICK due \in Chains, in \in BOOLEAN : gw = [due |-> due, loggedIn |-> in, id |-> "", fresh |-> FALSE]
  BY DEF LoginInit
<1>3. sess \in Sessions /\ gw \in Gateways /\ step \in Steps /\ sess.next = "" /\ gw.id = ""
  BY <1>1, <1>2 DEF LoginInit, Sessions, Gateways, Steps, NoStep
<1>4. LoginTyped
  BY <1>0, <1>3 DEF LoginInit, LoginTyped, Entering
<1>5. Secrets /\ Expected /\ Outcome
  BY <1>3 DEF LoginInit, Secrets, Expected, Outcome, InChain, Texting, AllFactorsPassed
<1> QED BY <1>4, <1>5 DEF LoginInv

\* The login may end without success at any time.
LEMMA GivesUp ==
  ASSUME LoginInv, at' = "done",
         result' \in {"failed", "no method", "not offered", "captcha", "unsupported", "too long"},
         form' \in {"psw", "sendSms", "smsCode"}, tries' \in 0 .. MaxAttempts, steps' \in 0 .. MaxSteps,
         step' = step, sess' \in Sessions, gw' = gw
  PROVE  LoginInv'
<1>1. LoginTyped'
  BY DEF LoginInv, LoginTyped
<1>2. Secrets' /\ Expected' /\ Outcome'
  BY DEF Secrets, Expected, Outcome, InChain, Texting, Entering, AllFactorsPassed
<1> QED BY <1>1, <1>2 DEF LoginInv

\* A step before the chain, which the gateway does not notice.
LEMMA Enters ==
  ASSUME LoginInv, at \in Entering, at' \in Entering \cup {"report", "info"},
         form' \in {"psw", "sendSms", "smsCode"}, tries' \in 0 .. MaxAttempts,
         UNCHANGED <<steps, step, gw, result>>,
         sess' \in Sessions, Secrets', at' = "info" => gw.loggedIn
  PROVE  LoginInv'
<1>1. LoginTyped'
  BY DEF LoginInv, LoginTyped
<1>2. Expected' /\ Outcome'
  BY DEF LoginInv, Expected, Outcome, InChain, Texting, Entering, AllFactorsPassed
<1> QED BY <1>1, <1>2 DEF LoginInv

LEMMA LoginEnters ==
  ASSUME LoginInv, FirstConfig \/ Captcha \/ Primary
  PROVE  LoginInv'
<1> USE DEF Entering, InChain, Texting
<1>0. /\ sess \in Sessions /\ gw \in Gateways /\ tries \in 0 .. MaxAttempts /\ steps \in 0 .. MaxSteps
      /\ form \in {"psw", "sendSms", "smsCode"} /\ Secrets
  BY DEF LoginInv, LoginTyped
<1>1. CASE FirstConfig
  <2>1. sess' \in Sessions /\ sess'.rand = "fresh" /\ sess'.next = sess.next /\ sess'.code = sess.code
        /\ sess'.ticket = sess.ticket /\ sess.next = ""
    BY <1>0, <1>1 DEF FirstConfig, AuthConfig, Sessions, Secrets
  <2>2. UNCHANGED <<tries, steps, step, gw>> /\ form' \in {"psw", "sendSms"}
    BY <1>1 DEF FirstConfig
  <2>3. CASE ~gw.loggedIn /\ sess.method = "none"
    <3>1. at' = "done" /\ result' = "no method"
      BY <1>1, <2>3 DEF FirstConfig
    <3> QED BY <1>0, <2>1, <2>2, <3>1, GivesUp
  <2>4. CASE gw.loggedIn \/ sess.method # "none"
    <3>1. at = "config" /\ at' \in {"info", "submit", "callback"} /\ (at' = "info" => gw.loggedIn)
          /\ result' = result
      <4>1. sess.method \in Methods
        BY <1>0 DEF Sessions
      <4> QED BY <1>1, <2>4, <4>1 DEF FirstConfig, Methods
    <3>2. Secrets'
      BY <1>0, <2>1, <2>2, <3>1 DEF Secrets
    <3> QED BY <1>0, <2>1, <2>2, <3>1, <3>2, Enters
  <2> QED BY <2>3, <2>4
<1>2. CASE CaptchaWanted
  <2>1. PICK ok \in BOOLEAN, r \in {sess.rand, "stale"} :
          sess' = [sess EXCEPT !.rand = IF form = "psw" THEN r ELSE @,
                               !.ticket = IF ok /\ form # "sendSms" THEN FALSE ELSE @,
                               !.next = IF ok /\ form = "psw" THEN "" ELSE @]
    BY <1>2 DEF CaptchaWanted
  <2>2. at = "submit" /\ UNCHANGED <<form, steps, step, gw>>
    BY <1>2 DEF CaptchaWanted
  <2>3. sess' \in Sessions /\ sess'.next = "" /\ sess'.code = sess.code
    <3>1. sess.next = ""
      BY <1>0, <2>2 DEF Secrets
    <3>2. \E a \in {"none", "fresh", "stale"}, b \in BOOLEAN, c \in {""} :
            sess' = [sess EXCEPT !.rand = a, !.ticket = b, !.next = c]
      <4> DEFINE a == IF form = "psw" THEN r ELSE sess.rand
      <4> DEFINE b == IF ok /\ form # "sendSms" THEN FALSE ELSE sess.ticket
      <4> DEFINE c == IF ok /\ form = "psw" THEN "" ELSE sess.next
      <4>1. a \in {"none", "fresh", "stale"} /\ b \in BOOLEAN /\ c \in {""}
        BY <1>0, <3>1 DEF Sessions
      <4>2. sess' = [sess EXCEPT !.rand = a, !.ticket = b, !.next = c]
        BY <2>1, Zenon
      <4> HIDE DEF a, b, c
      <4> QED BY <4>1, <4>2, Zenon
    <3> QED BY <1>0, <3>2 DEF Sessions
  <2>4. CASE tries < MaxAttempts
    <3>1. at' = "image" /\ tries' = tries + 1 /\ result' = result
      BY <1>2, <2>4 DEF CaptchaWanted
    <3>2. tries' \in 0 .. MaxAttempts
      <4>1. MaxAttempts \in Nat
        BY LoginAssumption
      <4> QED BY <1>0, <2>4, <3>1, <4>1
    <3>3. Secrets'
      BY <1>0, <2>2, <2>3, <3>1 DEF Secrets
    <3> QED BY <1>0, <2>2, <2>3, <3>1, <3>2, <3>3, Enters
  <2>5. CASE ~ (tries < MaxAttempts)
    <3>1. at' = "done" /\ tries' = tries /\ result' = "captcha"
      BY <1>2, <2>5 DEF CaptchaWanted
    <3> QED BY <1>0, <2>2, <2>3, <3>1, GivesUp
  <2> QED BY <2>4, <2>5
<1>3. CASE GetImage \/ SolveCaptcha
  <2>1. UNCHANGED <<form, tries, steps, step, sess, gw, result>>
        /\ at \in {"image", "captcha"} /\ at' \in {"captchaConfig", "submit"} /\ (at' = "submit" => at = "captcha")
    BY <1>3 DEF GetImage, SolveCaptcha
  <2>2. Secrets'
    BY <1>0, <2>1 DEF Secrets
  <2> QED BY <1>0, <2>1, <2>2, Enters
<1>4. CASE CaptchaConfig \/ CallbackConfig
  <2>1. /\ \/ at = "captchaConfig" /\ at' = "captcha"
           \/ at = "callbackConfig" /\ at' = "report"
        /\ UNCHANGED <<form, tries, steps, step, gw, result>>
        /\ sess' = [sess EXCEPT !.rand = "fresh"]
    BY <1>4 DEF CaptchaConfig, CallbackConfig, AuthConfig
  <2>2. sess' \in Sessions /\ sess'.rand = "fresh" /\ sess'.next = sess.next /\ sess'.code = sess.code
        /\ sess'.ticket = sess.ticket
    BY <1>0, <2>1 DEF Sessions
  <2>3. Secrets'
    BY <1>0, <2>1, <2>2 DEF Secrets
  <2> QED BY <1>0, <2>1, <2>2, <2>3, Enters
<1>5. CASE SubmitPsw
  <2>1. at = "submit" /\ form = "psw" /\ SubmitRight /\ UNCHANGED <<form, tries, steps>>
    BY <1>0, <1>5 DEF SubmitPsw, SubmitRight, Secrets
  <2>2. PICK next \in PswNames :
          sess' = [sess EXCEPT !.ticket = TRUE, !.next = next, !.rand = "fresh"]
    BY <1>5, <2>1 DEF SubmitPsw, PswAccepted
  <2>3. at' = "report" /\ UNCHANGED <<step, gw, result>>
    BY <1>5, <2>1 DEF SubmitPsw, PswAccepted
  <2>a. gw.due \in Chains
    BY <1>0 DEF Gateways
  <2>b. gw.due # <<>> => Head(gw.due) \in Factors
    BY <2>a, ChainsTail
  <2>4. next \in {"", "authCheck"} \cup Factors /\ (next \notin {"", "authCheck"} => Named(next))
    BY <2>b DEF PswNames, Named, Waited
  <2>5. sess' \in Sessions /\ sess'.rand = "fresh" /\ sess'.next = next /\ sess'.ticket
    BY <1>0, <2>2, <2>4 DEF Sessions
  <2>6. Secrets'
    BY <1>0, <2>1, <2>3, <2>4, <2>5 DEF Secrets, Named, Waited
  <2> QED BY <1>0, <2>1, <2>3, <2>5, <2>6, Enters
<1>6. CASE SmsSent
  <2>1. at = "submit" /\ at' = "code" /\ UNCHANGED <<form, tries, steps, step, gw, result>>
        /\ sess' = [sess EXCEPT !.code = IF @ = "none" THEN @ ELSE "old"]
    BY <1>6 DEF SmsSent
  <2>2. sess' \in Sessions /\ sess'.rand = sess.rand /\ sess'.next = sess.next /\ sess'.ticket = sess.ticket
    BY <1>0, <2>1 DEF Sessions
  <2>3. Secrets'
    BY <1>0, <2>1, <2>2 DEF Secrets
  <2> QED BY <1>0, <2>1, <2>2, <2>3, Enters
<1>7. CASE EnterCode
  <2>1. at = "code" /\ at' = "submit" /\ form' = "smsCode" /\ tries' = 0
        /\ UNCHANGED <<steps, step, gw, result>> /\ sess' = [sess EXCEPT !.code = "current"]
    BY <1>7 DEF EnterCode
  <2>2. sess' \in Sessions /\ sess'.rand = sess.rand /\ sess'.next = sess.next /\ sess'.code = "current"
    BY <1>0, <2>1 DEF Sessions
  <2>3. Secrets'
    BY <1>0, <2>1, <2>2 DEF Secrets
  <2>4. tries' \in 0 .. MaxAttempts
    <3>1. MaxAttempts \in Nat
      BY LoginAssumption
    <3> QED BY <2>1, <3>1
  <2> QED BY <2>1, <2>2, <2>3, <2>4, Enters
<1>8. CASE SubmitSmsCode
  <2>1. at = "submit" /\ form = "smsCode" /\ SubmitRight /\ UNCHANGED <<form, tries, steps>>
    BY <1>0, <1>8 DEF SubmitSmsCode, SubmitRight, Secrets
  <2>2. sess' = [sess EXCEPT !.ticket = TRUE] /\ at' = "report" /\ UNCHANGED <<step, gw, result>>
    BY <1>8, <2>1 DEF SubmitSmsCode, SmsCodeAccepted
  <2>3. sess' \in Sessions /\ sess'.rand = sess.rand /\ sess'.next = sess.next /\ sess'.ticket
    BY <1>0, <2>2 DEF Sessions
  <2>4. Secrets'
    BY <1>0, <2>1, <2>2, <2>3 DEF Secrets
  <2> QED BY <1>0, <2>1, <2>2, <2>3, <2>4, Enters
<1>9. CASE FollowCallback
  <2>1. at = "callback" /\ at' = "callbackConfig" /\ UNCHANGED <<form, tries, steps, step, gw, result>>
        /\ sess' = [sess EXCEPT !.ticket = TRUE]
    BY <1>9 DEF FollowCallback
  <2>2. sess' \in Sessions /\ sess'.rand = sess.rand /\ sess'.next = sess.next /\ sess'.ticket
    BY <1>0, <2>1 DEF Sessions
  <2>3. Secrets'
    BY <1>0, <2>1, <2>2 DEF Secrets
  <2> QED BY <1>0, <2>1, <2>2, <2>3, Enters
<1> QED BY <1>1, <1>2, <1>3, <1>4, <1>5, <1>6, <1>7, <1>8, <1>9 DEF Captcha, Primary

LEMMA LoginReports == ASSUME LoginInv, ReportEnv PROVE LoginInv'
<1> USE DEF Entering, InChain, Texting
<1>1. at = "report" /\ sess.ticket /\ at' = "chain" /\ UNCHANGED <<form, tries, steps, sess, gw, result>>
      /\ step' = [NoStep EXCEPT !.service = IF sess.next = "" THEN "authCheck" ELSE sess.next]
  BY DEF ReportEnv, LoginInv, Secrets
<1>2. /\ sess.next \in {"", "authCheck"} \cup Factors /\ gw.id = ""
      /\ sess.next \notin {"", "authCheck"} => Named(sess.next)
  BY <1>1 DEF LoginInv, LoginTyped, Sessions, Secrets
<1>3. step' \in Steps /\ step'.id = gw.id
      /\ (step'.service = "authCheck" \/ Named(step'.service))
  BY <1>1, <1>2 DEF NoStep, Steps, Services, Named
<1>4. LoginTyped'
  BY <1>1, <1>3 DEF LoginInv, LoginTyped
<1>5. Secrets' /\ Outcome'
  BY <1>1 DEF LoginInv, Secrets, Outcome, AllFactorsPassed
<1>6. Expected'
  BY <1>1, <1>3 DEF Expected, Named, Waited
<1> QED BY <1>4, <1>5, <1>6 DEF LoginInv

\* The gateway hands out the next service, and the client reads it from the answer.
LEMMA HandsOut ==
  ASSUME LoginInv, at \in InChain, NEW dues \in SUBSET Chains, HandOut(dues),
         UNCHANGED <<form, tries>>, steps' \in 0 .. MaxSteps
  PROVE  LoginInv'
<1> USE DEF Entering, InChain, Texting
<1>1. PICK due \in dues : \E d \in Asks(due) :
        /\ step' = StepFromData(d)
        /\ gw' = [gw EXCEPT !.due = due, !.id = GivenID(d), !.fresh = FALSE]
        /\ at' = "chain"
        /\ UNCHANGED <<sess, result>>
  BY DEF HandOut
<1>2. PICK d \in Asks(due) :
        /\ step' = StepFromData(d)
        /\ gw' = [gw EXCEPT !.due = due, !.id = GivenID(d), !.fresh = FALSE]
        /\ at' = "chain"
        /\ UNCHANGED <<sess, result>>
  BY <1>1
<1>3. due \in Chains /\ GivenID(d) \in {"", "own"}
      /\ (due = <<>> => step' = [service |-> "", id |-> "", mode |-> "unknown"])
      /\ (due # <<>> => Understood(step', Head(due), GivenID(d)) /\ Head(due) \in Factors)
  BY <1>2, AsksUnderstood, ChainsTail
<1>4. gw' \in Gateways /\ gw'.due = due /\ gw'.id = GivenID(d) /\ gw'.loggedIn = gw.loggedIn
  BY <1>2, <1>3 DEF LoginInv, LoginTyped, Gateways
<1>5. step' \in Steps
  <2>1. CASE due = <<>>
    <3>1. step' = [service |-> "", id |-> "", mode |-> "unknown"]
      BY <1>3, <2>1, Zenon
    <3> QED BY <3>1 DEF Steps
  <2>2. CASE due # <<>>
    BY <1>3, <2>2 DEF Understood, Steps
  <2> QED BY <2>1, <2>2
<1>6. LoginTyped'
  BY <1>2, <1>4, <1>5 DEF LoginInv, LoginTyped
<1>7. Secrets' /\ Outcome'
  BY <1>2 DEF LoginInv, Secrets, Outcome, AllFactorsPassed
<1>8. Expected'
  <2>1. CASE due = <<>>
    <3>1. gw'.due = <<>> /\ at' = "chain" /\ step' = [service |-> "", id |-> "", mode |-> "unknown"]
      BY <1>2, <1>3, <1>4, <2>1, Zenon
    <3>2. step'.service = ""
      BY <3>1
    <3> QED BY <3>1, <3>2 DEF Expected
  <2>2. CASE due # <<>>
    <3>1. step'.service = Head(due) /\ (step'.service # "accessCheck" => step'.id = gw'.id)
          /\ (step'.service = "sms" => step'.mode # "unknown")
      BY <1>3, <1>4, <2>2 DEF Understood
    <3>2. Waited(step.service)'
      BY <1>4, <2>2, <3>1 DEF Waited
    <3> QED BY <1>2, <3>1, <3>2 DEF Expected
  <2> QED BY <2>1, <2>2
<1> QED BY <1>6, <1>7, <1>8 DEF LoginInv

\* The answer to an accepted request: there was a service to answer.
LEMMA AnswerTaken ==
  ASSUME LoginInv, at \in InChain, gw.due # <<>>, Answered,
         UNCHANGED <<form, tries>>, steps' \in 0 .. MaxSteps
  PROVE  LoginInv'
<1>1. gw.due \in Chains
  BY DEF LoginInv, LoginTyped, Gateways
<1>2. {gw.due, Tail(gw.due)} \in SUBSET Chains
  BY <1>1, ChainsTail
<1> QED BY <1>2, HandsOut DEF Answered

\* A step within completeSMS or to the end, with the step and the due services kept.
LEMMA GoesOn ==
  ASSUME LoginInv, at \in InChain, at' \in Texting \cup {"customCode", "info"},
         UNCHANGED <<form, tries, step, result>>, steps' \in 0 .. MaxSteps,
         sess' \in Sessions, sess'.ticket, sess'.rand = "fresh",
         gw' \in Gateways, gw'.due = gw.due, Expected', at' = "info" => gw.due = <<>>
  PROVE  LoginInv'
<1> USE DEF Entering, InChain, Texting
<1>1. LoginTyped'
  BY DEF LoginInv, LoginTyped
<1>2. Secrets' /\ Outcome'
  BY DEF LoginInv, Secrets, Outcome, AllFactorsPassed
<1> QED BY <1>1, <1>2 DEF LoginInv

LEMMA LoginChains == ASSUME LoginInv, Chain PROVE LoginInv'
<1> USE DEF Entering, InChain, Texting
<1>0. /\ sess \in Sessions /\ gw \in Gateways /\ tries \in 0 .. MaxAttempts /\ steps \in 0 .. MaxSteps
      /\ form \in {"psw", "sendSms", "smsCode"} /\ step \in Steps
      /\ Secrets /\ Expected
      /\ at \in InChain => sess.rand = "fresh" /\ sess.ticket
      /\ gw.due \in Chains
  BY DEF LoginInv, LoginTyped, Secrets, Gateways
<1>1. steps < MaxSteps => steps + 1 \in 0 .. MaxSteps
  <2>1. MaxSteps \in Nat
    BY LoginAssumption
  <2> QED BY <1>0, <2>1
<1>2. CASE ChainEnds
  <2>1. at = "chain" /\ step.service = "" /\ at' = "info"
        /\ UNCHANGED <<form, tries, steps, step, sess, gw, result>>
    BY <1>2 DEF ChainEnds, Follow
  <2>2. gw.due = <<>>
    <3>1. gw.due # <<>> => Head(gw.due) # ""
      BY <1>0, ChainsTail, LoginAssumption
    <3> QED BY <1>0, <2>1, <3>1 DEF Expected, Waited
  <2>3. Expected'
    BY <2>1 DEF Expected
  <2> QED BY <1>0, <2>1, <2>2, <2>3, GoesOn
<1>3. CASE ChainUnsupported \/ ChainTooLong
  <2>1. at' = "done" /\ UNCHANGED <<form, tries, steps, step, sess, gw>>
    BY <1>3 DEF ChainUnsupported, ChainTooLong, Fail
  <2>2. result' \in {"unsupported", "too long"}
    <3>1. CASE ChainTooLong
      BY <3>1 DEF ChainTooLong, Fail
    <3>2. CASE ChainUnsupported
      <4>1. at = "chain" /\ step.service \notin Services \cup {""}
            /\ result' = IF gw.due # <<>> /\ Head(gw.due) \notin Services THEN "unsupported" ELSE "refused"
        BY <3>2 DEF ChainUnsupported, Fail
      <4>2. gw.due # <<>> /\ Head(gw.due) = step.service
        BY <1>0, <4>1 DEF Expected, Waited, Services
      <4> QED BY <4>1, <4>2
    <3> QED BY <1>3, <3>1, <3>2
  <2> QED BY <1>0, <2>1, <2>2, GivesUp
<1>4. CASE AuthCheck
  <2>1. at = "chain" /\ HandOut({gw.due}) /\ UNCHANGED <<form, tries>> /\ steps' = steps + 1 /\ steps < MaxSteps
    BY <1>4 DEF AuthCheck, Follow
  <2>2. {gw.due} \in SUBSET Chains
    BY <1>0
  <2> QED BY <1>1, <2>1, <2>2, HandsOut
<1>5. CASE CompleteStep
  <2>1. PICK service \in Single : OneRequest(service)
    BY <1>5 DEF CompleteStep
  <2>2. at = "chain" /\ step.service = service /\ UNCHANGED <<form, tries>> /\ steps' = steps + 1
        /\ steps < MaxSteps
    BY <2>1 DEF OneRequest, Follow
  <2>3. Waited(service) /\ (service \in {"enhanced", "bindAuthDevice"} => step.id = gw.id)
    BY <1>0, <2>2 DEF Expected, Single
  <2>4. Right(service)
    BY <1>0, <2>2, <2>3 DEF Right, WaitedID
  <2>5. Answered /\ gw.due # <<>>
    BY <2>1, <2>3, <2>4 DEF OneRequest, Waited
  <2> QED BY <1>1, <2>2, <2>5, AnswerTaken
<1>6. CASE SendCustomSMS
  <2>1. at = "chain" /\ step.service = "customSms" /\ UNCHANGED <<form, tries, step, sess, gw>>
        /\ steps' = steps + 1 /\ steps < MaxSteps
    BY <1>6 DEF SendCustomSMS, Follow
  <2>2. Waited("customSms")
    BY <1>0, <2>1 DEF Expected
  <2>3. at' = "customCode" /\ result' = result
    BY <1>6, <2>2 DEF SendCustomSMS
  <2>4. Expected'
    BY <2>1, <2>2, <2>3 DEF Expected, Waited
  <2> QED BY <1>0, <1>1, <2>1, <2>3, <2>4, GoesOn
<1>7. CASE CheckCustomSMS
  <2>1. at = "customCode" /\ Answered /\ UNCHANGED <<form, tries, steps>>
    BY <1>7 DEF CheckCustomSMS
  <2>2. gw.due # <<>>
    BY <1>0, <2>1 DEF Expected, Waited
  <2> QED BY <1>0, <2>1, <2>2, AnswerTaken
<1> QED BY <1>2, <1>3, <1>4, <1>5, <1>6, <1>7 DEF Chain

LEMMA LoginTexts == ASSUME LoginInv, SecondSMS PROVE LoginInv'
<1> USE DEF Entering, InChain, Texting
<1>0. /\ sess \in Sessions /\ gw \in Gateways /\ tries \in 0 .. MaxAttempts /\ steps \in 0 .. MaxSteps
      /\ form \in {"psw", "sendSms", "smsCode"} /\ step.mode \in {"unknown", "withID", "withoutID"}
      /\ Secrets /\ Expected
      /\ at \in InChain => sess.rand = "fresh" /\ sess.ticket
      /\ at \in Texting => WaitedID("sms") /\ step.mode # "unknown"
  BY DEF LoginInv, LoginTyped, Secrets, Expected, Steps
<1>1. CASE BeginSMS
  <2>1. at = "chain" /\ step.service = "sms" /\ UNCHANGED <<form, tries, step, sess, gw>>
        /\ steps' = steps + 1 /\ steps < MaxSteps
    BY <1>1 DEF BeginSMS, Follow
  <2>2. WaitedID("sms") /\ step.mode \in {"withID", "withoutID"}
    BY <1>0, <2>1 DEF Expected, WaitedID
  <2>3. result' = result /\ at' = IF step.mode = "withID" THEN "smsConfig" ELSE "smsPhone"
    BY <1>1, <2>2 DEF BeginSMS
  <2>4. steps' \in 0 .. MaxSteps
    <3>1. MaxSteps \in Nat
      BY LoginAssumption
    <3> QED BY <1>0, <2>1, <3>1
  <2>5. Expected'
    BY <2>1, <2>2, <2>3 DEF Expected, WaitedID, Waited
  <2> QED BY <1>0, <2>1, <2>3, <2>4, <2>5, GoesOn
<1>2. CASE SMSConfig
  <2>1. /\ \/ at = "smsConfig" /\ at' = "smsPhone"
           \/ at = "smsRefresh" /\ at' = "smsCode"
        /\ sess' = [sess EXCEPT !.rand = "fresh"] /\ gw' = [gw EXCEPT !.fresh = TRUE]
        /\ UNCHANGED <<form, tries, steps, step, result>>
    BY <1>2 DEF SMSConfig, AuthConfig
  <2>2. /\ sess' \in Sessions /\ sess'.ticket /\ sess'.rand = "fresh"
        /\ gw' \in Gateways /\ gw'.due = gw.due /\ gw'.id = gw.id /\ gw'.fresh
    BY <1>0, <2>1 DEF Sessions, Gateways
  <2>3. WaitedID("sms")'
    BY <1>0, <2>1, <2>2 DEF WaitedID, Waited
  <2>4. Expected'
    BY <1>0, <2>1, <2>2, <2>3 DEF Expected
  <2> QED BY <1>0, <2>1, <2>2, <2>4, GoesOn
<1>3. CASE PhoneNumber
  <2>1. at = "smsPhone" /\ at' = "smsSend" /\ UNCHANGED <<form, tries, steps, step, sess, gw, result>>
    BY <1>3 DEF PhoneNumber
  <2>2. Expected'
    BY <1>0, <2>1 DEF Expected, WaitedID, Waited
  <2> QED BY <1>0, <2>1, <2>2, GoesOn
<1>4. CASE AuthSms
  <2>1. at = "smsSend" /\ SendRight /\ UNCHANGED <<form, tries, steps>>
    BY <1>0, <1>4 DEF AuthSms, SendRight, Expected
  <2>2. sess' = [sess EXCEPT !.code = IF @ = "none" THEN @ ELSE "old"]
        /\ at' = (IF step.mode = "withoutID" THEN "smsRefresh" ELSE "smsCode")
        /\ UNCHANGED <<step, gw, result>>
    BY <1>4, <2>1 DEF AuthSms, SmsAccepted
  <2>3. sess' \in Sessions /\ sess'.ticket /\ sess'.rand = "fresh"
    BY <1>0, <2>1, <2>2 DEF Sessions
  <2>4. at' = "smsCode" => gw.fresh
    BY <1>0, <2>1, <2>2 DEF SendRight
  <2>5. Expected'
    BY <1>0, <2>1, <2>2, <2>4 DEF Expected, WaitedID, Waited
  <2> QED BY <1>0, <2>1, <2>2, <2>3, <2>5, GoesOn
<1>5. CASE AskSMSCode
  <2>1. at = "smsCode" /\ at' = "smsCheck" /\ sess' = [sess EXCEPT !.code = "current"]
        /\ UNCHANGED <<form, tries, steps, step, gw, result>>
    BY <1>5 DEF AskSMSCode
  <2>2. sess' \in Sessions /\ sess'.ticket /\ sess'.rand = "fresh" /\ sess'.code = "current"
    BY <1>0, <2>1 DEF Sessions
  <2>3. Expected'
    BY <1>0, <2>1, <2>2 DEF Expected, WaitedID, Waited
  <2> QED BY <1>0, <2>1, <2>2, <2>3, GoesOn
<1>6. CASE CheckSMS
  <2>1. at = "smsCheck" /\ CheckRight /\ UNCHANGED <<form, tries, steps>>
    BY <1>0, <1>6 DEF CheckSMS, CheckRight, Expected
  <2>2. Answered /\ gw.due # <<>>
    BY <1>6, <2>1 DEF CheckSMS, CheckRight, WaitedID, Waited
  <2> QED BY <1>0, <2>1, <2>2, AnswerTaken
<1> QED BY <1>1, <1>2, <1>3, <1>4, <1>5, <1>6 DEF SecondSMS

LEMMA LoginStepInv == LoginInv /\ [LoginNext]_loginVars => LoginInv'
<1> SUFFICES ASSUME LoginInv, [LoginNext]_loginVars PROVE LoginInv'
  OBVIOUS
<1>1. CASE UNCHANGED loginVars
  <2>1. UNCHANGED <<at, form, tries, steps, step, sess, gw, result>>
    BY <1>1 DEF loginVars
  <2>2. LoginTyped' /\ Outcome'
    BY <2>1 DEF LoginInv, LoginTyped, Outcome, AllFactorsPassed
  <2>3. Secrets' /\ Expected'
    <3>1. \A s : Waited(s)' <=> Waited(s)
      BY <2>1 DEF Waited
    <3>2. \A s : WaitedID(s)' <=> WaitedID(s)
      BY <2>1, <3>1 DEF WaitedID
    <3>3. Waited(step.service)' <=> Waited(step.service)
      BY <2>1 DEF Waited
    <3>4. Secrets'
      BY <2>1, <3>1 DEF LoginInv, Secrets, Named
    <3> QED BY <2>1, <3>1, <3>2, <3>3, <3>4 DEF LoginInv, Expected
  <2> QED BY <2>2, <2>3 DEF LoginInv
<1>2. CASE NotOffered \/ Fails
  <2>1. at' = "done" /\ result' \in {"not offered", "failed"} /\ UNCHANGED <<form, tries, steps, step, sess, gw>>
    BY <1>2 DEF NotOffered, Fails, Fail
  <2> QED BY <2>1, GivesUp DEF LoginInv, LoginTyped
<1>3. CASE OnlineInfo
  <2>1. at = "info" /\ at' = "done" /\ result' = "ok" /\ UNCHANGED <<form, tries, steps, step, sess, gw>>
    BY <1>3 DEF OnlineInfo
  <2>2. LoginTyped'
    BY <2>1 DEF LoginInv, LoginTyped
  <2>3. Secrets' /\ Expected' /\ Outcome'
    BY <2>1 DEF LoginInv, Secrets, Expected, Outcome, AllFactorsPassed, InChain, Texting, Entering
  <2> QED BY <2>2, <2>3 DEF LoginInv
<1> QED BY <1>1, <1>2, <1>3, LoginEnters, LoginReports, LoginChains, LoginTexts DEF LoginNext

LEMMA LoginInvHolds == LoginSpec => []LoginInv
BY LoginInitInv, LoginStepInv, PTL DEF LoginSpec

LEMMA LoginPromise == LoginInv => FactorsAnswered
BY DEF LoginInv, LoginTyped, Outcome, FactorsAnswered, NeverRefused

\* Whatever factors a gateway asks for, as many as it likes and in whatever shape, the
\* client sends only what is waited for, with fresh secrets, and a login that succeeds
\* has passed them all (auth.go: authStepFromData, completeSMS, continueAuth).
THEOREM FactorsAnsweredCorrect == LoginSpec => []FactorsAnswered
BY LoginPromise, LoginInvHolds, PTL

(***************************************************************************)
(* The client: its SID, its file and its Close.                            *)
(***************************************************************************)

USE ClientAssumption

\* Where Setup has published a SID, and still works alone.
Published == {"resources", "ip", "tunnel", "save", "saving", "start", "ready"}
Alone == {"resources", "ip", "tunnel", "save", "saving", "start"}

\* The refresh goroutine lives beside a finished Setup, and Close waits for both.
Apart ==
  /\ refresh # "off" => setup \in {"ready", "exit"}
  /\ ~cl.started => refresh = "off"
  /\ closer # "no" => setup \in {"ready", "failed", "exit"}
  /\ closer \in {"tunnel", "closed"} => refresh \in {"off", "ended"}

\* Where the jar's SID, the published one and the saved one agree.
InStep ==
  /\ setup \in {"manifest", "session"} => file # Torn
  /\ setup \in Published \/ refresh # "off" => jar # 0
  /\ setup \in Alone => cl.sid = jar
  /\ setup = "start" => file = jar
  /\ refresh \in {"timer", "ask"} /\ ~notes.missed => cl.sid = jar /\ (~notes.unsaved => file = jar)
  /\ refresh \in {"save", "saving"} => cl.sid = jar

ClientInv == ClientTypeOK /\ Apart /\ InStep

LEMMA ClientInitInv == ClientInit => ClientInv
BY DEF ClientInit, ClientInv, ClientTypeOK, Apart, InStep, NewClient, Torn, Published, Alone

Notes == [embedded : BOOLEAN, starts : 1 .. MaxStarts, missed : BOOLEAN, unsaved : BOOLEAN]

LEMMA ClientStepInv == ClientInv /\ [ClientNext]_clientVars => ClientInv'
<1> SUFFICES ASSUME ClientInv, [ClientNext]_clientVars PROVE ClientInv'
  OBVIOUS
<1> USE DEF ClientInv, ClientTypeOK, Apart, InStep, Published, Alone, Torn, Quiet, Running, SetupFails
<1>1. CASE SetupStep
  <2>1. CASE ParseClientData
    BY <2>1 DEF ParseClientData
  <2>2. CASE Manifest
    BY <2>2 DEF Manifest
  <2>3. CASE Restore
    BY <2>3 DEF Restore
  <2>4. CASE LogIn
    BY <2>4 DEF LogIn
  <2>5. CASE FetchResource
    BY <2>5 DEF FetchResource, Rotate
  <2>6. CASE Snapshot
    BY <2>6 DEF Snapshot
  <2>7. CASE ParseResources
    BY <2>7 DEF ParseResources
  <2>8. CASE GetIP
    BY <2>8 DEF GetIP
  <2>9. CASE CreateTunnel
    BY <2>9 DEF CreateTunnel
  <2>10. CASE SaveBegins
    BY <2>10 DEF SaveBegins
  <2>11. CASE SaveEnds
    BY <2>11 DEF SaveEnds
  <2>12. CASE StartRefresh
    BY <2>12 DEF StartRefresh
  <2> QED BY <1>1, <2>1, <2>2, <2>3, <2>4, <2>5, <2>6, <2>7, <2>8, <2>9, <2>10, <2>11, <2>12
          DEF SetupStep
<1>2. CASE SetupError
  BY <1>2 DEF SetupError
<1>3. CASE TimerFires
  BY <1>3 DEF TimerFires
<1>4. CASE RefreshStep
  <2>1. CASE RefreshCancelled
    BY <2>1 DEF RefreshCancelled
  <2>2. CASE RefreshAnswered
    <3>1. ClientTypeOK'
      <4>1. PICK b \in BOOLEAN : notes' = [notes EXCEPT !.missed = b]
        BY <2>2, Zenon DEF RefreshAnswered
      <4>2. notes' \in Notes
        BY <4>1 DEF Notes
      <4>3. jar' \in 0 .. MaxSID /\ refresh' \in {"ended", "publish", "timer", "invalid"}
        BY <2>2 DEF RefreshAnswered, Rotate
      <4> QED BY <2>2, <4>2, <4>3 DEF RefreshAnswered, Notes
    <3>2. Apart'
      BY <2>2 DEF RefreshAnswered, Rotate
    <3>3. InStep'
      BY <2>2 DEF RefreshAnswered, Rotate
    <3> QED BY <3>1, <3>2, <3>3
  <2>3. CASE SessionInvalid
    BY <2>3 DEF SessionInvalid
  <2>4. CASE Expire
    <3>1. cl' \in [sid : 0 .. MaxSID, expired : BOOLEAN, tunnel : {"none", "open", "closed"},
                  cancelled : BOOLEAN, started : BOOLEAN]
          /\ cl'.expired = TRUE
      BY <2>4, 0 \in 0 .. MaxSID DEF Expire
    <3>4. ClientTypeOK'
      BY <2>4, <3>1 DEF Expire
    <3>2. Apart'
      BY <2>4 DEF Expire
    <3>3. InStep'
      BY <2>4 DEF Expire
    <3> QED BY <3>2, <3>3, <3>4
  <2>5. CASE DropTunnel
    BY <2>5 DEF DropTunnel
  <2>6. CASE Publish
    BY <2>6 DEF Publish
  <2>7. CASE RefreshSaves
    <3>1. ClientTypeOK'
      <4>1. notes' \in Notes
        BY <2>7 DEF RefreshSaves, Notes
      <4> QED BY <2>7, <4>1 DEF RefreshSaves, Notes
    <3>2. Apart'
      BY <2>7 DEF RefreshSaves
    <3>3. InStep'
      BY <2>7 DEF RefreshSaves
    <3> QED BY <3>1, <3>2, <3>3
  <2>8. CASE RefreshSaved
    <3>1. ClientTypeOK'
      <4>1. PICK ok \in BOOLEAN : /\ file' = IF ok THEN jar ELSE file
                                 /\ notes' = [notes EXCEPT !.unsaved = ~ok]
        BY <2>8, Zenon DEF RefreshSaved
      <4>2. PICK b \in BOOLEAN : notes' = [notes EXCEPT !.unsaved = b]
        BY <4>1, Zenon
      <4>3. notes' \in Notes
        BY <4>2 DEF Notes
      <4> QED BY <2>8, <4>1, <4>3 DEF RefreshSaved, Notes
    <3>2. Apart'
      BY <2>8 DEF RefreshSaved
    <3>3. InStep'
      BY <2>8 DEF RefreshSaved
    <3> QED BY <3>1, <3>2, <3>3
  <2> QED BY <1>4, <2>1, <2>2, <2>3, <2>4, <2>5, <2>6, <2>7, <2>8 DEF RefreshStep
<1>5. CASE CloseBegins
  <2>1. /\ UNCHANGED <<setup, refresh, jar, file, notes>> /\ closer' = "wait" /\ setup \in {"ready", "failed"}
        /\ cl' \in [sid : 0 .. MaxSID, expired : BOOLEAN, tunnel : {"none", "open", "closed"},
                    cancelled : BOOLEAN, started : BOOLEAN]
        /\ cl'.sid = cl.sid /\ cl'.expired = cl.expired /\ cl'.started = cl.started
    BY <1>5 DEF CloseBegins
  <2>2. ClientTypeOK'
    BY <2>1
  <2>3. Apart' /\ InStep'
    BY <2>1
  <2> QED BY <2>2, <2>3
<1>6. CASE CloseStep
  <2>1. CASE CloseWaits
    BY <2>1 DEF CloseWaits
  <2>2. CASE CloseTunnel
    BY <2>2 DEF CloseTunnel
  <2> QED BY <1>6, <2>1, <2>2 DEF CloseStep
<1>7. CASE Restart
  <2>1. ClientTypeOK'
    <3>1. notes' \in Notes
      <4>1. /\ notes.embedded \in BOOLEAN
            /\ notes.starts \in 1 .. MaxStarts /\ notes.starts < MaxStarts
        BY <1>7 DEF Restart
      <4>2. notes' = [embedded |-> notes.embedded, starts |-> notes.starts + 1,
                      missed |-> FALSE, unsaved |-> FALSE]
        BY <1>7 DEF Restart
      <4>3. notes.starts + 1 \in 1 .. MaxStarts
        BY <4>1
      <4> QED BY <4>1, <4>2, <4>3 DEF Notes
    <3>2. cl' \in [sid : 0 .. MaxSID, expired : BOOLEAN, tunnel : {"none", "open", "closed"},
                  cancelled : BOOLEAN, started : BOOLEAN]
      BY <1>7 DEF Restart, NewClient
    <3> QED BY <1>7, <3>1, <3>2 DEF Restart, Notes
  <2>2. Apart'
    BY <1>7 DEF Restart, NewClient
  <2>3. InStep'
    BY <1>7 DEF Restart, NewClient
  <2> QED BY <2>1, <2>2, <2>3
<1>8. CASE UNCHANGED clientVars
  BY <1>8 DEF clientVars
<1> QED BY <1>1, <1>2, <1>3, <1>4, <1>5, <1>6, <1>7, <1>8 DEF ClientNext

LEMMA ClientInvHolds == ClientSpec => []ClientInv
BY ClientInitInv, ClientStepInv, PTL DEF ClientSpec

LEMMA ClientPromise == ClientInv => SIDInStep
BY DEF ClientInv, InStep, SIDInStep

\* Between two refreshes that did not fail the tunnels authenticate with the
\* newest SID, and after a save that did not fail the file holds it
\* (client.go, session.go, auth/refresh.go).
THEOREM SIDInStepCorrect == ClientSpec => []SIDInStep
BY ClientPromise, ClientInvHolds, PTL

\* Once Close has returned nobody writes the client data file (client.go:117).
THEOREM NoSaveAfterCloseCorrect == ClientSpec => NoSaveAfterClose
<1>1. ClientInv /\ [ClientNext]_clientVars
      => [closer = "closed" /\ closer' = "closed" => file' = file]_clientVars
  <2> SUFFICES ASSUME ClientInv, ClientNext, closer = "closed", closer' = "closed"
               PROVE  file' = file
    BY DEF clientVars
  <2>1. setup \in {"ready", "failed", "exit"} /\ refresh \in {"off", "ended"}
    BY DEF ClientInv, Apart
  <2>2. ~SetupStep /\ ~SetupError /\ ~RefreshSaves /\ ~RefreshSaved
    BY <2>1 DEF SetupStep, SetupError, ParseClientData, Manifest, Restore, LogIn, FetchResource,
                Snapshot, ParseResources, GetIP, CreateTunnel, SaveBegins, SaveEnds, StartRefresh,
                RefreshSaves, RefreshSaved
  <2> QED BY <2>2 DEF ClientNext, TimerFires, RefreshStep, RefreshCancelled, RefreshAnswered,
                      SessionInvalid, Expire, DropTunnel, Publish, CloseBegins, CloseStep,
                      CloseWaits, CloseTunnel, Restart
<1> QED BY <1>1, ClientInvHolds, PTL DEF ClientSpec, NoSaveAfterClose

HIDE ClientAssumption

(***************************************************************************)
(* The capture: what the file is given, in order and without a gap.        *)
(***************************************************************************)

USE CaptureAssumption

Events == Directions \X (1 .. MaxCaptured)

\* What has been queued and not been dropped.
Kept == written \o events

\* A payload in hand is part of what passed, and nobody sends without one.
InHand ==
  /\ \A d \in Directions : toQueue[d] <= captured[d]
  /\ \A d \in sending : toQueue[d] > 0
  /\ capCloser \in {"no", "lock"} <=> ~capClosed

CaptureInv == CaptureTypeOK /\ InHand /\ CaptureIntact

\* The count of a direction does not look beyond its bound ...
LEMMA OfPrefix ==
  \A s, t, d, n : (\A i \in 1 .. n : t[i] = s[i]) => Of(d, t, n) = Of(d, s, n)
<1> TAKE s, t, d, n
<1> HAVE \A i \in 1 .. n : t[i] = s[i]
<1>1. {i \in 1 .. n : t[i][1] = d} = {i \in 1 .. n : s[i][1] = d}
  OBVIOUS
<1> QED BY <1>1 DEF Of

\* ... is a number, and grows with the events of the direction.
LEMMA OfNext ==
  \A s, d : \A n \in Nat :
    /\ Of(d, s, n) \in Nat
    /\ Of(d, s, 0) = 0
    /\ s[n + 1][1] = d => Of(d, s, n + 1) = Of(d, s, n) + 1
    /\ s[n + 1][1] # d => Of(d, s, n + 1) = Of(d, s, n)
<1> TAKE s, d
<1> TAKE n \in Nat
<1> DEFINE P(k) == {i \in 1 .. k : s[i][1] = d}
<1>1. IsFiniteSet(P(n))
  <2>1. IsFiniteSet(1 .. n)
    BY FS_Interval
  <2>2. P(n) \in SUBSET (1 .. n)
    OBVIOUS
  <2> QED BY <2>1, <2>2, FS_Subset
<1>2. P(0) = {}
  OBVIOUS
<1>3. P(n + 1) = IF s[n + 1][1] = d THEN P(n) \cup {n + 1} ELSE P(n)
  OBVIOUS
<1>4. n + 1 \notin P(n)
  OBVIOUS
<1>5. Of(d, s, n) = Cardinality(P(n)) /\ Of(d, s, 0) = Cardinality(P(0))
      /\ Of(d, s, n + 1) = Cardinality(P(n + 1))
  BY DEF Of
<1> HIDE DEF P
<1>6. Cardinality(P(n)) \in Nat /\ Cardinality(P(0)) = 0
  BY <1>1, <1>2, FS_EmptySet, FS_CardinalityType
<1>7. Cardinality(P(n) \cup {n + 1}) = Cardinality(P(n)) + 1
  BY <1>1, <1>4, FS_AddElement
<1> QED BY <1>3, <1>5, <1>6, <1>7

LEMMA OfNextAt ==
  ASSUME NEW s, NEW d, NEW n \in Nat
  PROVE  Of(d, s, n + 1) = IF s[n + 1][1] = d THEN Of(d, s, n) + 1 ELSE Of(d, s, n)
BY OfNext

LEMMA StartPrefix ==
  ASSUME NEW s, NEW t, Len(t) \in Nat, Len(s) \in Nat, Len(t) <= Len(s),
         \A i \in 1 .. Len(t) : t[i] = s[i], NEW d, IsStart(d, s)
  PROVE  IsStart(d, t)
<1> SUFFICES ASSUME NEW n \in 1 .. Len(t), t[n][1] = d PROVE t[n][2] = Of(d, t, n)
  BY DEF IsStart
<1>1. n \in Nat /\ \A i \in 1 .. n : t[i] = s[i]
  OBVIOUS
<1>2. Of(d, t, n) = Of(d, s, n)
  BY <1>1, OfPrefix
<1> QED BY <1>2 DEF IsStart

\* The next chunk of a direction is put behind the others.
LEMMA StartAppend ==
  ASSUME NEW s \in Seq(Events), NEW e \in Events, NEW d, IsStart(d, s),
         e[1] = d => e[2] = Of(d, s, Len(s)) + 1
  PROVE  /\ IsStart(d, Append(s, e))
         /\ Of(d, Append(s, e), Len(s) + 1)
              = IF e[1] = d THEN Of(d, s, Len(s)) + 1 ELSE Of(d, s, Len(s))
<1> DEFINE t == Append(s, e)
<1>1. /\ Len(s) \in Nat /\ Len(t) = Len(s) + 1 /\ t[Len(s) + 1] = e
      /\ \A i \in 1 .. Len(s) : t[i] = s[i]
  OBVIOUS
<1> HIDE DEF t
<1>2. Of(d, t, Len(s)) = Of(d, s, Len(s))
  BY <1>1, OfPrefix
<1>3. Of(d, t, Len(s) + 1) = IF e[1] = d THEN Of(d, s, Len(s)) + 1 ELSE Of(d, s, Len(s))
  <2>1. Of(d, t, Len(s) + 1)
          = IF t[Len(s) + 1][1] = d THEN Of(d, t, Len(s)) + 1 ELSE Of(d, t, Len(s))
    <3>1. Len(s) \in Nat
      BY <1>1
    <3> QED BY <3>1, OfNextAt
  <2> QED BY <1>1, <1>2, <2>1
<1>4. ASSUME NEW n \in 1 .. Len(t), t[n][1] = d PROVE t[n][2] = Of(d, t, n)
  <2>1. CASE n = Len(s) + 1
    BY <1>1, <1>3, <1>4, <2>1
  <2>2. CASE n \in 1 .. Len(s)
    <3>1. Of(d, t, n) = Of(d, s, n)
      <4>1. n \in Nat /\ \A i \in 1 .. n : t[i] = s[i]
        BY <1>1, <2>2
      <4> QED BY <4>1, OfPrefix
    <3> QED BY <1>1, <1>4, <2>2, <3>1 DEF IsStart
  <2> QED BY <1>1, <2>1, <2>2
<1> QED BY <1>3, <1>4 DEF IsStart, t

LEMMA CaptureInitInv == CaptureInit => CaptureInv
<1> SUFFICES ASSUME CaptureInit PROVE CaptureInv
  OBVIOUS
<1>1. CaptureTypeOK
  <2>1. <<>> \in Seq(Directions \X (1 .. MaxCaptured)) /\ Len(<<>>) <= QueueSize
    OBVIOUS
  <2>2. {FALSE} \subseteq BOOLEAN /\ 0 \in 0 .. MaxCaptured /\ 0 \in 0 .. MaxChunks
    OBVIOUS
  <2> QED BY <2>1, <2>2 DEF CaptureInit, CaptureTypeOK
<1>6. InHand
  BY DEF CaptureInit, InHand, Directions
<1>2. written \o events = <<>> /\ written = <<>> /\ Len(<<>>) = 0
  BY DEF CaptureInit
<1>3. \A d \in Directions : Of(d, <<>>, 0) = 0
  BY OfNext
<1>4. \A d : IsStart(d, <<>>)
  BY DEF IsStart
<1>5. CaptureIntact
  BY <1>2, <1>3, <1>4 DEF CaptureInit, CaptureIntact
<1> QED BY <1>1, <1>5, <1>6 DEF CaptureInv

\* Steps that leave the queue and the file alone.
LEMMA StepBeside ==
  ASSUME CaptureInv, UNCHANGED <<events, written>>, CaptureTypeOK', InHand',
         broken' \/ ~broken, capClosed => capClosed', capClosed' => sending' = {},
         ~capClosed' => \A d \in Directions : captured'[d] - toQueue'[d] = captured[d] - toQueue[d]
  PROVE  CaptureInv'
<1>1. CaptureIntact'
  BY DEF CaptureInv, CaptureIntact
<1> QED BY <1>1 DEF CaptureInv

LEMMA StepSends == ASSUME CaptureInv, NEW d \in Directions, EnqueueSends(d) PROVE CaptureInv'
<1> DEFINE e == <<d, captured[d] - toQueue[d] + 1>>
<1>1. /\ captured \in [Directions -> 0 .. MaxCaptured] /\ toQueue \in [Directions -> 0 .. MaxChunks]
      /\ toQueue[d] > 0 /\ toQueue[d] <= captured[d]
      /\ events \in Seq(Events) /\ written \in Seq(Events) /\ Len(events) <= QueueSize
      /\ d \in sending /\ Len(events) < QueueSize /\ sending \subseteq Directions
  BY DEF CaptureInv, CaptureTypeOK, InHand, EnqueueSends, Events
<1>2. e \in Events
  BY <1>1 DEF Events
<1>3. /\ events' = Append(events, e) /\ sending' = sending \ {d}
      /\ toQueue' = [toQueue EXCEPT ![d] = @ - 1]
      /\ UNCHANGED <<captured, capClosed, capCloser, capLoop, broken, written>>
  BY DEF EnqueueSends
<1> HIDE DEF e
<1>4. CaptureTypeOK'
  BY <1>1, <1>2, <1>3 DEF CaptureInv, CaptureTypeOK, Events
<1>5. InHand'
  BY <1>1, <1>3 DEF CaptureInv, InHand
<1>6. ~capClosed
  BY <1>1 DEF CaptureInv, CaptureIntact
<1>7. Kept' = Append(Kept, e) /\ Kept \in Seq(Events) /\ Len(Kept') = Len(Kept) + 1
  BY <1>1, <1>2, <1>3 DEF Kept
<1>8. ASSUME NEW c \in Directions, ~broken
      PROVE  IsStart(c, Kept') /\ Of(c, Kept', Len(Kept')) = captured'[c] - toQueue'[c]
  <2>1. IsStart(c, Kept) /\ Of(c, Kept, Len(Kept)) = captured[c] - toQueue[c]
    BY <1>6, <1>8 DEF CaptureInv, CaptureIntact, Kept
  <2>2. e[1] = d /\ e[2] = captured[d] - toQueue[d] + 1
    BY DEF e
  <2>3. e[1] = c => e[2] = Of(c, Kept, Len(Kept)) + 1
    BY <2>1, <2>2
  <2>4. /\ IsStart(c, Append(Kept, e))
        /\ Of(c, Append(Kept, e), Len(Kept) + 1)
             = IF e[1] = c THEN Of(c, Kept, Len(Kept)) + 1 ELSE Of(c, Kept, Len(Kept))
    BY <1>2, <1>7, <2>1, <2>3, StartAppend
  <2>5. captured'[c] - toQueue'[c]
          = IF d = c THEN captured[c] - toQueue[c] + 1 ELSE captured[c] - toQueue[c]
    BY <1>1, <1>3
  <2> QED BY <1>7, <2>1, <2>2, <2>4, <2>5
<1>9. CaptureIntact'
  BY <1>3, <1>6, <1>8 DEF CaptureInv, CaptureIntact, Kept
<1> QED BY <1>4, <1>5, <1>9 DEF CaptureInv

LEMMA StepTakes == ASSUME CaptureInv, WriteLoopTakes PROVE CaptureInv'
<1>1. /\ events \in Seq(Events) /\ written \in Seq(Events) /\ Len(events) <= QueueSize
      /\ events # <<>> /\ events' = Tail(events)
      /\ UNCHANGED <<captured, toQueue, sending, capClosed, capCloser, capLoop>>
  BY DEF CaptureInv, CaptureTypeOK, Events, WriteLoopTakes
<1>2. Tail(events) \in Seq(Events) /\ Len(Tail(events)) <= QueueSize /\ Head(events) \in Events
  BY <1>1
<1>3. InHand'
  BY <1>1 DEF CaptureInv, InHand
<1>4. CASE broken' = TRUE /\ UNCHANGED written
  BY <1>1, <1>2, <1>3, <1>4 DEF CaptureInv, CaptureTypeOK, CaptureIntact, Events
<1>5. CASE ~broken /\ written' = Append(written, Head(events)) /\ UNCHANGED broken
  <2>1. Kept' = Kept
    BY <1>1, <1>5 DEF Kept
  <2>2. written' \in Seq(Events)
    BY <1>1, <1>2, <1>5
  <2>3. CaptureTypeOK'
    BY <1>1, <1>2, <1>5, <2>2 DEF CaptureInv, CaptureTypeOK, Events
  <2>4. /\ Len(written') \in Nat /\ Len(Kept) \in Nat /\ Len(written') <= Len(Kept)
        /\ \A i \in 1 .. Len(written') : written'[i] = Kept[i]
    BY <1>1, <1>5 DEF Kept
  <2>5. ASSUME NEW d \in Directions PROVE IsStart(d, written')
    <3>1. IsStart(d, Kept)
      BY <1>5 DEF CaptureInv, CaptureIntact, Kept
    <3> QED BY <2>4, <3>1, StartPrefix
  <2>6. CaptureIntact'
    BY <1>1, <1>5, <2>1, <2>5 DEF CaptureInv, CaptureIntact, Kept
  <2> QED BY <1>3, <2>3, <2>6 DEF CaptureInv
<1>6. broken \in BOOLEAN
  BY DEF CaptureInv, CaptureTypeOK
<1> QED BY <1>4, <1>5, <1>6 DEF WriteLoopTakes

LEMMA CaptureStepInv == CaptureInv /\ [CaptureNext]_captureVars => CaptureInv'
<1> SUFFICES ASSUME CaptureInv, [CaptureNext]_captureVars PROVE CaptureInv'
  OBVIOUS
<1>1. ASSUME NEW d \in Directions, Payload(d) PROVE CaptureInv'
  <2>1. PICK n \in 1 .. MaxChunks : /\ captured[d] + n <= MaxCaptured
                                    /\ captured' = [captured EXCEPT ![d] = @ + n]
                                    /\ toQueue' = [toQueue EXCEPT ![d] = n]
    BY <1>1 DEF Payload
  <2>2. toQueue[d] = 0 /\ d \notin sending
        /\ UNCHANGED <<sending, events, capClosed, capCloser, capLoop, broken, written>>
    BY <1>1 DEF Payload, Idle
  <2>3. CaptureTypeOK' /\ InHand'
    BY <2>1, <2>2 DEF CaptureInv, CaptureTypeOK, InHand
  <2>4. \A c \in Directions : captured'[c] - toQueue'[c] = captured[c] - toQueue[c]
    BY <2>1, <2>2 DEF CaptureInv, CaptureTypeOK
  <2> QED BY <2>2, <2>3, <2>4, StepBeside DEF CaptureInv, CaptureIntact
<1>2. ASSUME NEW d \in Directions, EnqueueBegins(d) PROVE CaptureInv'
  <2>1. UNCHANGED <<captured, events, capClosed, capCloser, capLoop, broken, written>>
    BY <1>2 DEF EnqueueBegins
  <2>2. CASE capClosed /\ toQueue' = [toQueue EXCEPT ![d] = 0] /\ UNCHANGED sending
    <3>1. CaptureTypeOK' /\ InHand'
      BY <2>1, <2>2 DEF CaptureInv, CaptureTypeOK, InHand, CaptureIntact
    <3> QED BY <2>1, <2>2, <3>1, StepBeside DEF CaptureInv, CaptureIntact
  <2>3. CASE ~capClosed /\ sending' = sending \cup {d} /\ UNCHANGED toQueue
    <3>1. CaptureTypeOK' /\ InHand'
      BY <1>2, <2>1, <2>3 DEF CaptureInv, CaptureTypeOK, InHand, EnqueueBegins
    <3> QED BY <2>1, <2>3, <3>1, StepBeside
  <2> QED BY <1>2, <2>2, <2>3 DEF EnqueueBegins
<1>3. ASSUME NEW d \in Directions, EnqueueSends(d) PROVE CaptureInv'
  BY <1>3, StepSends
<1>4. CASE WriteLoopTakes
  BY <1>4, StepTakes
<1>5. CASE WriteLoopEnds \/ CloseAsks \/ CloseLocks \/ CloseDone
  <2>1. UNCHANGED <<captured, toQueue, sending, events, written>>
    BY <1>5 DEF WriteLoopEnds, CloseAsks, CloseLocks, CloseDone
  <2>2. /\ capClosed' \in BOOLEAN /\ broken' \in BOOLEAN
        /\ capCloser' \in {"no", "lock", "done", "returned"} /\ capLoop' \in {"run", "ended"}
    <3>1. /\ capClosed \in BOOLEAN /\ broken \in BOOLEAN
          /\ capCloser \in {"no", "lock", "done", "returned"} /\ capLoop \in {"run", "ended"}
      BY DEF CaptureInv, CaptureTypeOK
    <3>2. CASE WriteLoopEnds
      BY <3>1, <3>2 DEF WriteLoopEnds
    <3>3. CASE CloseAsks
      BY <3>1, <3>3 DEF CloseAsks
    <3>4. CASE CloseLocks
      BY <3>1, <3>4 DEF CloseLocks
    <3>5. CASE CloseDone
      BY <3>1, <3>5 DEF CloseDone
    <3> QED BY <1>5, <3>2, <3>3, <3>4, <3>5
  <2>3. CaptureTypeOK'
    BY <2>1, <2>2 DEF CaptureInv, CaptureTypeOK
  <2>4. /\ capClosed => capClosed'
        /\ capClosed' => sending' = {}
        /\ capCloser' \in {"no", "lock"} <=> ~capClosed'
    <3>1. CASE CloseLocks
      BY <3>1 DEF CloseLocks
    <3>2. CASE UNCHANGED <<capClosed, capCloser, sending>>
      BY <3>2 DEF CaptureInv, CaptureIntact, InHand
    <3>3. CASE CloseAsks
      BY <3>3 DEF CloseAsks, CaptureInv, CaptureIntact, InHand
    <3>4. CASE CloseDone
      BY <3>4 DEF CloseDone, CaptureInv, CaptureIntact, InHand
    <3> QED BY <1>5, <3>1, <3>2, <3>3, <3>4 DEF WriteLoopEnds
  <2>5. InHand'
    BY <2>1, <2>4 DEF CaptureInv, InHand
  <2>6. broken' \/ ~broken
    BY <1>5, Zenon DEF WriteLoopEnds, CloseAsks, CloseLocks, CloseDone
  <2> QED BY <2>1, <2>3, <2>4, <2>5, <2>6, StepBeside
<1>6. CASE UNCHANGED captureVars
  BY <1>6 DEF captureVars, CaptureInv, CaptureTypeOK, InHand, CaptureIntact
<1> QED BY <1>1, <1>2, <1>3, <1>4, <1>5, <1>6
        DEF CaptureNext, CaptureStep, WriteLoop, CaptureClose

LEMMA CaptureInvHolds == CaptureSpec => []CaptureInv
BY CaptureInitInv, CaptureStepInv, PTL DEF CaptureSpec

LEMMA CapturePromise == CaptureInv => CaptureIntact
BY DEF CaptureInv

\* The file is given the start of what passed in each direction, in order and
\* without a gap, and nobody sends on the closed channel (pcap.go:106, 114, 164).
THEOREM CaptureIntactCorrect == CaptureSpec => []CaptureIntact
BY CapturePromise, CaptureInvHolds, PTL

HIDE CaptureAssumption

(***************************************************************************)
(* All of them: a step of one part is a step, or none, of every part.      *)
(***************************************************************************)

ATrustInv == Bounded /\ TCPInv /\ LoginInv /\ ClientInv /\ CaptureInv

LEMMA LoginTypes == LoginInv => LoginTypeOK
<1> SUFFICES ASSUME LoginTyped PROVE LoginTypeOK
  BY DEF LoginInv
<1>1. gw.due \in Chains /\ gw.loggedIn \in BOOLEAN /\ gw.id \in {"", "own"} /\ gw.fresh \in BOOLEAN
  BY DEF LoginTyped, Gateways
<1>2. at \in {"config", "submit", "image", "captchaConfig", "captcha", "code", "callback",
              "callbackConfig", "report", "chain", "smsConfig", "smsPhone", "smsSend",
              "smsRefresh", "smsCode", "smsCheck", "customCode", "info", "done"}
  BY DEF LoginTyped, Entering, InChain, Texting
<1> QED BY <1>1, <1>2 DEF LoginTyped, LoginTypeOK, Steps, Sessions

LEMMA ATrustStep ==
  ASSUME [ATrustNext]_atrustVars
  PROVE  /\ [Next]_vars /\ [TCPNext]_tcpVars /\ [LoginNext]_loginVars
         /\ [ClientNext]_clientVars /\ [CaptureNext]_captureVars
<1>1. CASE UNCHANGED atrustVars
  BY <1>1, Zenon DEF atrustVars
<1>2. CASE OfHeartbeat(Next)
  BY <1>2, Zenon DEF OfHeartbeat
<1>3. CASE OfTCP(TCPNext)
  BY <1>3, Zenon DEF OfTCP
<1>4. CASE OfLogin(LoginNext)
  BY <1>4, Zenon DEF OfLogin
<1>5. CASE OfClient(ClientNext)
  BY <1>5, Zenon DEF OfClient
<1>6. CASE OfCapture(CaptureNext)
  BY <1>6, Zenon DEF OfCapture
<1> QED BY <1>1, <1>2, <1>3, <1>4, <1>5, <1>6, Zenon DEF ATrustNext

LEMMA ATrustInvHolds == ATrustSpec => []ATrustInv
<1>1. ATrustInit => ATrustInv
  BY BoundedInit, TCPInitInv, LoginInitInv, ClientInitInv, CaptureInitInv, Zenon DEF ATrustInit, ATrustInv
<1>2. ATrustInv /\ [ATrustNext]_atrustVars => ATrustInv'
  BY ATrustStep, BoundedStep, TCPStepInv, LoginStepInv, ClientStepInv, CaptureStepInv, Zenon DEF ATrustInv
<1> QED BY <1>1, <1>2, PTL DEF ATrustSpec

\* Every part of the client keeps its types, whichever of them runs (tcptunnel.go,
\* auth.go, client.go, pcap.go).
THEOREM ATrustTypesCorrect == ATrustSpec => []ATrustTypeOK
<1>1. ATrustInv => ATrustTypeOK
  BY LoginTypes DEF ATrustInv, TCPInv, ClientInv, CaptureInv, ATrustTypeOK
<1> QED BY <1>1, ATrustInvHolds, PTL

\* Every part keeps its promise, whichever of them runs.
THEOREM ATrustCorrect ==
  ATrustSpec => [](/\ TwoMisses /\ DialOutcome /\ StreamIntact
                   /\ FactorsAnswered /\ SIDInStep /\ CaptureIntact)
<1>1. ATrustInv => /\ TwoMisses /\ DialOutcome /\ StreamIntact
                   /\ FactorsAnswered /\ SIDInStep /\ CaptureIntact
  BY BoundedPromise, TCPPromise, LoginPromise, ClientPromise, CapturePromise DEF ATrustInv
<1> QED BY <1>1, ATrustInvHolds, PTL

=============================================================================

-------------------------- MODULE UDPForwardProofs --------------------------
(***************************************************************************)
(* What UDP port forwarding keeps for every number of sources, connections *)
(* and datagrams: the table and its list agree and keep to their limit,    *)
(* the budget counts every buffer once, a connection that has ended leaves *)
(* nothing behind, and nobody who closes waits in vain.  By induction on   *)
(* ForwardInv, and on Waits for the last.                                  *)
(***************************************************************************)
EXTENDS UDPForward, FiniteSetTheorems, TLAPS

USE UDPForwardAssumption

ConnRec == [source : Sources \cup {NoSource},
            run : {"none", "dial", "set", "loop", "write", "close", "quit", "drain", "done"},
            resp : {"none", "read", "done"}, udp : {"none", "open", "closed"},
            queue : 0 .. QueueCap, shut : {"no", "closed", "done"}]

\* What the listener has in its hands at each place.
ListenerOK ==
  /\ listener \in [pc : {"read", "get", "evict", "enqueue", "closing", "done"},
                   source : Sources \cup {NoSource}, id : IDs \cup {0}, victim : IDs \cup {0}]
  /\ listener.pc = "get" => listener.source \in Sources /\ made < MaxMade
  /\ listener.pc \in {"evict", "enqueue"} => listener.id \in 1 .. made

\* A connection that was made has a source, and is as new until it is made.
Made ==
  /\ \A c \in 1 .. made : conn[c].source \in Sources
  /\ \A c \in IDs : c > made => conn[c] = Unused
  /\ \A a \in Sources : connections[a] <= made

\* How a connection comes to its end: its socket is closed with it, its goroutine
\* drains the queue when it is out of the table and nothing is put in any more.
Ends ==
  \A c \in IDs :
    /\ conn[c].shut = "done" => conn[c].udp # "open"
    /\ conn[c].run \in {"drain", "done"}
         => conn[c].shut = "done" /\ connections[conn[c].source] # c
    /\ conn[c].run = "done" => conn[c].queue = 0

ForwardInv == TableOK /\ BudgetExact /\ ListenerOK /\ Made /\ Ends

-----------------------------------------------------------------------------
(* The list.                                                               *)

\* A list without the element at one place, with one more at its end, and without
\* its head.
LEMMA RemoveAtEffect ==
  ASSUME NEW S, NEW s \in Seq(S), IsInjective(s), NEW i \in DOMAIN s
  PROVE  /\ RemoveAt(s, i) \in Seq(S) /\ IsInjective(RemoveAt(s, i))
         /\ ToSet(RemoveAt(s, i)) = ToSet(s) \ {s[i]}
<1> DEFINE t == RemoveAt(s, i)
<1>1. i \in 1 .. Len(s) /\ Len(s) \in Nat
  OBVIOUS
<1>2. /\ t \in Seq(S) /\ Len(t) = Len(s) - 1 /\ DOMAIN t = 1 .. Len(s) - 1
      /\ \A j \in 1 .. Len(s) - 1 : t[j] = IF j < i THEN s[j] ELSE s[j + 1]
  <2> DEFINE u == SubSeq(s, 1, i - 1)
             v == SubSeq(s, i + 1, Len(s))
  <2>1. /\ u \in Seq(S) /\ Len(u) = i - 1
        /\ \A j \in 1 .. i - 1 : u[j] = s[j]
    BY <1>1
  <2>2. /\ v \in Seq(S) /\ Len(v) = Len(s) - i
        /\ \A j \in 1 .. Len(s) - i : v[j] = s[i + j]
    BY <1>1
  <2>3. t = u \o v
    BY DEF RemoveAt
  <2> HIDE DEF t, u, v
  <2>4. /\ t \in Seq(S) /\ Len(t) = Len(s) - 1 /\ DOMAIN t = 1 .. Len(s) - 1
        /\ \A j \in 1 .. Len(t) : t[j] = IF j <= Len(u) THEN u[j] ELSE v[j - Len(u)]
    <3>1. /\ t \in Seq(S) /\ Len(t) = Len(u) + Len(v) /\ DOMAIN t = 1 .. Len(t)
          /\ \A j \in 1 .. Len(t) : t[j] = IF j <= Len(u) THEN u[j] ELSE v[j - Len(u)]
      <4>1. u \in Seq(S) /\ v \in Seq(S)
        BY <2>1, <2>2
      <4> QED BY <2>3, <4>1
    <3>2. Len(t) = Len(s) - 1
      BY <1>1, <2>1, <2>2, <3>1
    <3> QED BY <3>1, <3>2
  <2>5. ASSUME NEW j \in 1 .. Len(s) - 1 PROVE t[j] = IF j < i THEN s[j] ELSE s[j + 1]
    <3>1. CASE j < i
      BY <1>1, <2>1, <2>4, <3>1
    <3>2. CASE j >= i
      <4>1. PICK n \in 1 .. Len(s) - i : n = j - (i - 1) /\ i + n = j + 1
        BY <1>1, <3>2
      <4>2. v[n] = s[j + 1]
        BY <2>2, <4>1
      <4>3. t[j] = v[n]
        <5>1. Len(u) = i - 1
          BY <2>1
        <5>2. j \in 1 .. Len(t)
          BY <2>4
        <5>3. ~(j <= i - 1) /\ j - (i - 1) = n
          BY <1>1, <3>2, <4>1
        <5> QED BY <2>4, <5>1, <5>2, <5>3
      <4> QED BY <1>1, <3>2, <4>2, <4>3
    <3> QED BY <1>1, <3>1, <3>2
  <2> QED BY <2>4, <2>5
<1> HIDE DEF t
<1>3. IsInjective(t)
  <2> SUFFICES ASSUME NEW j \in 1 .. Len(s) - 1, NEW k \in 1 .. Len(s) - 1, t[j] = t[k]
               PROVE  j = k
    BY <1>2 DEF IsInjective
  <2>1. \A m, n \in 1 .. Len(s) : s[m] = s[n] => m = n
    BY <1>1 DEF IsInjective
  <2>2. PICK m \in 1 .. Len(s) : m = (IF j < i THEN j ELSE j + 1) /\ t[j] = s[m]
    BY <1>1, <1>2
  <2>3. PICK n \in 1 .. Len(s) : n = (IF k < i THEN k ELSE k + 1) /\ t[k] = s[n]
    BY <1>1, <1>2
  <2>4. m = n
    BY <2>1, <2>2, <2>3
  <2> QED BY <1>1, <2>2, <2>3, <2>4
<1>4. ASSUME NEW x \in ToSet(s) \ {s[i]} PROVE x \in ToSet(t)
  <2>1. PICK j \in 1 .. Len(s) : x = s[j]
    BY <1>4 DEF ToSet
  <2>2. CASE j < i
    <3>1. j \in 1 .. Len(s) - 1 /\ t[j] = s[j]
      BY <1>1, <1>2, <2>2
    <3> QED BY <1>2, <2>1, <3>1 DEF ToSet
  <2>3. CASE j > i
    <3>1. j - 1 \in 1 .. Len(s) - 1 /\ t[j - 1] = s[j]
      BY <1>1, <1>2, <2>3
    <3> QED BY <1>2, <2>1, <3>1 DEF ToSet
  <2> QED BY <1>1, <1>4, <2>1, <2>2, <2>3
<1>5. ASSUME NEW j \in 1 .. Len(s) - 1 PROVE t[j] \in ToSet(s) \ {s[i]}
  <2>1. PICK k \in 1 .. Len(s) : k = (IF j < i THEN j ELSE j + 1) /\ k # i
    BY <1>1
  <2>2. t[j] = s[k]
    BY <1>2, <2>1
  <2> QED BY <1>1, <2>1, <2>2 DEF IsInjective, ToSet
<1>6. ToSet(t) = ToSet(s) \ {s[i]}
  BY <1>2, <1>4, <1>5 DEF ToSet
<1> QED BY <1>2, <1>3, <1>6 DEF t

LEMMA AppendEffect ==
  ASSUME NEW S, NEW s \in Seq(S), IsInjective(s), NEW x \in S, x \notin ToSet(s)
  PROVE  /\ Append(s, x) \in Seq(S) /\ IsInjective(Append(s, x))
         /\ ToSet(Append(s, x)) = ToSet(s) \cup {x}
<1>1. /\ Append(s, x) \in Seq(S) /\ Len(s) \in Nat /\ DOMAIN s = 1 .. Len(s)
      /\ DOMAIN Append(s, x) = 1 .. Len(s) + 1
      /\ Append(s, x)[Len(s) + 1] = x
      /\ \A j \in 1 .. Len(s) : Append(s, x)[j] = s[j]
  OBVIOUS
<1>2. IsInjective(Append(s, x))
  BY <1>1 DEF IsInjective, ToSet
<1>3. ToSet(Append(s, x)) = ToSet(s) \cup {x}
  BY <1>1 DEF ToSet
<1> QED BY <1>1, <1>2, <1>3

LEMMA TailEffect ==
  ASSUME NEW S, NEW s \in Seq(S), IsInjective(s), s # <<>>
  PROVE  /\ Tail(s) \in Seq(S) /\ IsInjective(Tail(s)) /\ Head(s) \in ToSet(s)
         /\ ToSet(Tail(s)) = ToSet(s) \ {Head(s)}
<1>1. /\ Tail(s) \in Seq(S) /\ Len(s) \in Nat \ {0} /\ DOMAIN s = 1 .. Len(s)
      /\ DOMAIN Tail(s) = 1 .. Len(s) - 1 /\ Head(s) = s[1]
      /\ \A j \in 1 .. Len(s) - 1 : Tail(s)[j] = s[j + 1]
  OBVIOUS
<1>2. IsInjective(Tail(s)) /\ Head(s) \in ToSet(s)
  BY <1>1 DEF IsInjective, ToSet
<1>3. ASSUME NEW x \in ToSet(s) \ {Head(s)} PROVE x \in ToSet(Tail(s))
  <2>1. PICK j \in 1 .. Len(s) : x = s[j]
    BY <1>1, <1>3 DEF ToSet
  <2>2. j - 1 \in 1 .. Len(s) - 1 /\ Tail(s)[j - 1] = s[j]
    BY <1>1, <1>3, <2>1
  <2> QED BY <1>1, <2>1, <2>2 DEF ToSet
<1>4. ASSUME NEW j \in 1 .. Len(s) - 1 PROVE Tail(s)[j] \in ToSet(s) \ {Head(s)}
  BY <1>1, <1>4 DEF IsInjective, ToSet
<1>5. ToSet(Tail(s)) = ToSet(s) \ {Head(s)}
  <2>1. ToSet(Tail(s)) \subseteq ToSet(s) \ {Head(s)}
    BY <1>1, <1>4 DEF ToSet
  <2> QED BY <1>3, <2>1
<1> QED BY <1>1, <1>2, <1>5

\* The list of connections.
LEMMA WithoutEffect ==
  ASSUME TableOK, NEW c \in IDs
  PROVE  /\ Without(c) \in Seq(IDs) /\ IsInjective(Without(c))
         /\ ToSet(Without(c)) = ToSet(lru) \ {c}
<1>1. lru \in Seq(IDs) /\ IsInjective(lru)
  BY DEF TableOK, TypeOK, TableAndList
<1>2. CASE c \in ToSet(lru)
  <2>1. PICK i \in DOMAIN lru : i = (CHOOSE j \in DOMAIN lru : lru[j] = c) /\ lru[i] = c
    BY <1>2 DEF ToSet
  <2>2. Without(c) = RemoveAt(lru, i)
    BY <1>2, <2>1 DEF Without
  <2> QED BY <1>1, <2>1, <2>2, RemoveAtEffect
<1>3. CASE c \notin ToSet(lru)
  BY <1>1, <1>3 DEF Without
<1> QED BY <1>2, <1>3

LEMMA TouchedEffect ==
  ASSUME TableOK, NEW c \in IDs
  PROVE  /\ Touched(c) \in Seq(IDs) /\ IsInjective(Touched(c))
         /\ ToSet(Touched(c)) = ToSet(lru) \cup {c}
BY WithoutEffect, AppendEffect DEF Touched

-----------------------------------------------------------------------------
(* What steps leave alone.                                                 *)

\* The parts of the invariant.
LEMMA Here ==
  ASSUME ForwardInv
  PROVE  /\ TypeOK /\ TableOK /\ BudgetExact /\ ListenerOK /\ Made /\ Ends
         /\ connections \in [Sources -> IDs \cup {0}] /\ conn \in [IDs -> ConnRec]
         /\ made \in Nat /\ made <= MaxMade /\ 0 \notin IDs /\ 1 .. made \subseteq IDs
         /\ queued \in Nat /\ QueueCap \in Nat
BY DEF ForwardInv, TableOK, TypeOK, ConnRec, IDs

\* The datagrams that hold a buffer are finitely many.
LEMMA HeldFinite ==
  /\ IsFiniteSet(Held) /\ Cardinality(Held) \in Nat
  /\ IsFiniteSet(Held') /\ Cardinality(Held') \in Nat
<1>1. IsFiniteSet(IDs) /\ IsFiniteSet(0 .. QueueCap)
  BY FS_Interval DEF IDs
<1>2. IsFiniteSet(IDs \X (0 .. QueueCap))
  BY <1>1, FS_Product
<1>3. Held \in SUBSET (IDs \X (0 .. QueueCap)) /\ Held' \in SUBSET (IDs \X (0 .. QueueCap))
  BY DEF Held
<1> QED BY <1>2, <1>3, FS_Subset, FS_CardinalityType

\* A connection that is in the table was made, and only its own source has it there.
LEMMA LiveMade ==
  ASSUME ForwardInv
  PROVE  /\ ToSet(lru) = Live /\ Live \subseteq 1 .. made /\ IsFiniteSet(Live)
         /\ \A c \in Live : connections[conn[c].source] = c /\ conn[c].source \in Sources
<1>1. ToSet(lru) = Live
  BY DEF ForwardInv, TableOK, TableAndList
<1>2. Live \subseteq 1 .. made
  BY Here DEF Live, Made, IDs
<1>3. Live \in SUBSET IDs /\ IsFiniteSet(IDs)
  BY FS_Interval DEF IDs, Live
<1>4. IsFiniteSet(Live)
  BY <1>3, FS_Subset
<1>5. \A c \in Live : connections[conn[c].source] = c /\ conn[c].source \in Sources
  BY Here DEF Live, TableOK, TableAndList
<1> QED BY <1>1, <1>2, <1>4, <1>5

\* The table keeps to its limit and its list while it and the sources stay as they are.
LEMMA SameTable ==
  ASSUME ForwardInv, UNCHANGED <<connections, lru>>,
         \A c \in IDs : conn'[c].source = conn[c].source
  PROVE  AtMostMax' /\ TableAndList'
<1>1. Live' = Live
  BY DEF Live
<1>2. AtMostMax'
  BY <1>1 DEF ForwardInv, TableOK, AtMostMax
<1>3. \A a \in Sources : connections[a] # 0 => conn'[connections[a]].source = a
  BY Here DEF TableOK, TableAndList
<1> QED BY <1>1, <1>2, <1>3 DEF ForwardInv, TableOK, TableAndList

\* The types, when every part has its own.
LEMMA TypeStep ==
  ASSUME connections' \in [Sources -> IDs \cup {0}], lru' \in Seq(IDs), made' \in 0 .. MaxMade,
         conn' \in [IDs -> ConnRec], doomed' \subseteq IDs, queued' <= Budget,
         BudgetExact', ListenerOK', stopping' \in {"no", "cancelled", "deaf", "swept"}
  PROVE  TypeOK'
<1>1. queued' \in Nat
  BY HeldFinite DEF BudgetExact
<1> QED BY <1>1 DEF TypeOK, ListenerOK, ConnRec

\* A step of one connection, which stays in the table as it was.
LEMMA ConnMoves ==
  ASSUME ForwardInv, NEW c \in 1 .. made, NEW r \in ConnRec,
         conn' = [conn EXCEPT ![c] = r], r.source = conn[c].source,
         UNCHANGED <<connections, lru, made>>,
         r.shut = "done" => r.udp # "open",
         r.run \in {"drain", "done"}
           => r.shut = "done" /\ connections[conn[c].source] # c,
         r.run = "done" => r.queue = 0,
         doomed' \subseteq IDs, queued' <= Budget, BudgetExact', ListenerOK',
         stopping' = stopping
  PROVE  ForwardInv'
<1>1. /\ conn' \in [IDs -> ConnRec] /\ conn'[c] = r /\ c \in IDs
      /\ \A d \in IDs \ {c} : conn'[d] = conn[d]
  BY Here
<1>2. AtMostMax' /\ TableAndList'
  BY <1>1, SameTable
<1>3. TypeOK'
  BY <1>1, Here, TypeStep DEF TypeOK
<1>4. Made'
  BY <1>1, Here DEF Made
<1>5. Ends'
  BY <1>1, Here DEF Ends
<1> QED BY <1>2, <1>3, <1>4, <1>5 DEF ForwardInv, TableOK

\* The budget, when no datagram comes or goes.
LEMMA SameHeld ==
  ASSUME ForwardInv,
         \A c \in IDs : /\ conn'[c].queue = conn[c].queue
                        /\ conn'[c].run = "write" <=> conn[c].run = "write",
         queued' = queued,
         listener'.pc \in {"get", "evict", "enqueue"} <=> listener.pc \in {"get", "evict", "enqueue"}
  PROVE  BudgetExact'
<1>1. Held' = Held
  BY DEF Held, Runs
<1> QED BY <1>1 DEF ForwardInv, BudgetExact

\* A step of one connection with no datagram in it.
LEMMA ConnMovesOnly ==
  ASSUME ForwardInv, NEW c \in 1 .. made, NEW r \in ConnRec,
         conn' = [conn EXCEPT ![c] = r], r.source = conn[c].source, r.queue = conn[c].queue,
         r.run = "write" <=> conn[c].run = "write",
         UNCHANGED <<connections, lru, made, doomed, queued, listener, stopping>>,
         r.shut = "done" => r.udp # "open",
         r.run \in {"drain", "done"}
           => r.shut = "done" /\ connections[conn[c].source] # c,
         r.run = "done" => r.queue = 0
  PROVE  ForwardInv'
<1>1. \A d \in IDs : /\ conn'[d].queue = conn[d].queue
                     /\ conn'[d].run = "write" <=> conn[d].run = "write"
  BY Here
<1>2. BudgetExact'
  BY <1>1, SameHeld
<1>3. ListenerOK' /\ queued' <= Budget /\ doomed' \subseteq IDs
  BY Here DEF ListenerOK, TypeOK
<1> QED BY <1>2, <1>3, ConnMoves

\* A step that leaves the connections and the table alone.
LEMMA OthersMove ==
  ASSUME ForwardInv, UNCHANGED <<connections, lru, made, conn>>,
         doomed' \subseteq IDs, queued' <= Budget, BudgetExact', ListenerOK',
         stopping' \in {"no", "cancelled", "deaf", "swept"}
  PROVE  ForwardInv'
<1>1. AtMostMax' /\ TableAndList'
  BY SameTable
<1>2. TypeOK'
  BY Here, TypeStep DEF TypeOK
<1>3. Made' /\ Ends'
  BY Here DEF Made, Ends
<1> QED BY <1>1, <1>2, <1>3 DEF ForwardInv, TableOK

-----------------------------------------------------------------------------
(* The goroutines of a connection and its close.                           *)

\* runConnection goes on without a datagram.
LEMMA GotoKeeps ==
  ASSUME ForwardInv, NEW c \in 1 .. made,
         NEW pc \in {"set", "loop", "close", "quit", "done"}, Goto(c, pc),
         conn[c].run # "write", pc = "done" => conn[c].run = "drain" /\ conn[c].queue = 0,
         UNCHANGED <<connections, lru, made, doomed, queued, listener, stopping>>
  PROVE  ForwardInv'
<1>1. c \in IDs /\ conn[c] \in ConnRec /\ conn \in [IDs -> ConnRec]
  BY Here
<1>2. PICK r \in ConnRec : /\ r = [conn[c] EXCEPT !.run = pc]
                           /\ r.run = pc /\ r.source = conn[c].source
                           /\ r.queue = conn[c].queue /\ r.shut = conn[c].shut
                           /\ r.udp = conn[c].udp
  <2>1. [conn[c] EXCEPT !.run = pc] \in ConnRec
    BY <1>1 DEF ConnRec
  <2> QED BY <1>1, <2>1 DEF ConnRec
<1>3. conn' = [conn EXCEPT ![c] = r]
  BY <1>1, <1>2 DEF Goto
<1>4. /\ r.shut = "done" => r.udp # "open"
      /\ r.run \in {"drain", "done"} => r.shut = "done" /\ connections[conn[c].source] # c
  BY <1>1, <1>2, Here DEF Ends
<1>5. r.run # "write" /\ (r.run = "done" => r.queue = 0)
  BY <1>2
<1> QED BY <1>2, <1>3, <1>4, <1>5, ConnMovesOnly

\* close marks the connection and closes its socket.
LEMMA MarkClosedKeeps ==
  ASSUME ForwardInv, NEW c \in 1 .. made, MarkClosed(c)
  PROVE  ForwardInv'
<1>1. c \in IDs /\ conn[c] \in ConnRec /\ conn \in [IDs -> ConnRec]
  BY Here
<1>2. PICK r \in ConnRec : /\ r = [conn[c] EXCEPT !.shut = "closed"]
                           /\ r.run = conn[c].run /\ r.source = conn[c].source
                           /\ r.queue = conn[c].queue /\ r.shut = "closed"
  <2>1. [conn[c] EXCEPT !.shut = "closed"] \in ConnRec
    BY <1>1 DEF ConnRec
  <2> QED BY <1>1, <2>1 DEF ConnRec
<1>3. conn' = [conn EXCEPT ![c] = r]
  BY <1>1, <1>2 DEF MarkClosed
<1>4. r.run \notin {"drain", "done"}
  BY <1>1, <1>2, Here DEF Ends, MarkClosed
<1>5. UNCHANGED <<connections, lru, made, doomed, queued, listener, stopping>>
  BY DEF MarkClosed
<1> QED BY <1>2, <1>3, <1>4, <1>5, ConnMovesOnly

LEMMA CloseUDPKeeps ==
  ASSUME ForwardInv, NEW c \in 1 .. made, CloseUDP(c)
  PROVE  ForwardInv'
<1>1. c \in IDs /\ conn[c] \in ConnRec /\ conn \in [IDs -> ConnRec]
  BY Here
<1>2. PICK u \in {"none", "closed"} : u = IF conn[c].udp = "open" THEN "closed" ELSE conn[c].udp
  BY <1>1 DEF ConnRec
<1>3. PICK r \in ConnRec : /\ r = [conn[c] EXCEPT !.shut = "done", !.udp = u]
                           /\ r.run = conn[c].run /\ r.source = conn[c].source
                           /\ r.queue = conn[c].queue /\ r.shut = "done" /\ r.udp = u
  <2>1. [conn[c] EXCEPT !.shut = "done", !.udp = u] \in ConnRec
    BY <1>1 DEF ConnRec
  <2>2. /\ conn[c].run = [conn[c] EXCEPT !.shut = "done", !.udp = u].run
        /\ conn[c].source = [conn[c] EXCEPT !.shut = "done", !.udp = u].source
        /\ conn[c].queue = [conn[c] EXCEPT !.shut = "done", !.udp = u].queue
        /\ "done" = [conn[c] EXCEPT !.shut = "done", !.udp = u].shut
        /\ u = [conn[c] EXCEPT !.shut = "done", !.udp = u].udp
    BY <1>1 DEF ConnRec
  <2> QED BY <2>1, <2>2
<1>4. conn' = [conn EXCEPT ![c] = r]
  BY <1>1, <1>2, <1>3 DEF CloseUDP
<1>5. /\ r.run \notin {"drain", "done"}
      /\ UNCHANGED <<connections, lru, made, doomed, queued, listener, stopping>>
  BY <1>1, <1>3, Here DEF Ends, CloseUDP
<1> QED BY <1>3, <1>4, <1>5, ConnMovesOnly

\* The socket is set only in a connection that is not closed.
LEMMA SetUDPKeeps ==
  ASSUME ForwardInv, NEW c \in 1 .. made, SetUDP(c)
  PROVE  ForwardInv'
<1>1. c \in IDs /\ conn[c] \in ConnRec /\ conn \in [IDs -> ConnRec] /\ conn[c].run = "set"
      /\ UNCHANGED <<connections, lru, made, doomed, queued, listener, stopping>>
  BY Here DEF SetUDP, Runs
<1>2. CASE Cancelled(c)
  BY <1>1, <1>2, GotoKeeps DEF SetUDP
<1>3. CASE ~Cancelled(c)
  <2>1. PICK r \in ConnRec : /\ r = [conn[c] EXCEPT !.run = "loop", !.udp = "open", !.resp = "read"]
                             /\ r.run = "loop" /\ r.source = conn[c].source
                             /\ r.queue = conn[c].queue /\ r.shut = conn[c].shut
    <3>1. [conn[c] EXCEPT !.run = "loop", !.udp = "open", !.resp = "read"] \in ConnRec
      BY <1>1 DEF ConnRec
    <3> QED BY <1>1, <3>1 DEF ConnRec
  <2>2. conn' = [conn EXCEPT ![c] = r]
    BY <1>1, <1>3, <2>1 DEF SetUDP
  <2>3. r.shut = "no"
    BY <1>3, <2>1 DEF Cancelled
  <2> QED BY <1>1, <2>1, <2>2, <2>3, ConnMovesOnly
<1> QED BY <1>2, <1>3

LEMMA ResponsesEndKeeps ==
  ASSUME ForwardInv, NEW c \in 1 .. made, ResponsesEnd(c)
  PROVE  ForwardInv'
<1>1. c \in IDs /\ conn[c] \in ConnRec /\ conn \in [IDs -> ConnRec]
      /\ UNCHANGED <<connections, lru, made, doomed, queued, listener, stopping>>
  BY Here DEF ResponsesEnd
<1>2. PICK r \in ConnRec : /\ r = [conn[c] EXCEPT !.resp = "done"]
                           /\ r.run = conn[c].run /\ r.source = conn[c].source
                           /\ r.queue = conn[c].queue /\ r.shut = conn[c].shut
                           /\ r.udp = conn[c].udp
  <2>1. [conn[c] EXCEPT !.resp = "done"] \in ConnRec
    BY <1>1 DEF ConnRec
  <2> QED BY <1>1, <2>1 DEF ConnRec
<1>3. conn' = [conn EXCEPT ![c] = r]
  BY <1>1, <1>2 DEF ResponsesEnd
<1>4. /\ r.shut = "done" => r.udp # "open"
      /\ r.run \in {"drain", "done"} => r.shut = "done" /\ connections[conn[c].source] # c
      /\ r.run = "done" => r.queue = 0
  BY <1>1, <1>2, Here DEF Ends
<1> QED BY <1>1, <1>2, <1>3, <1>4, ConnMovesOnly

-----------------------------------------------------------------------------
(* The datagrams.                                                          *)

\* Connection r holds a buffer at place i.
Holds(r, i) == IF i = 0 THEN r.run = "write" ELSE i <= r.queue

LEMMA HeldIs ==
  /\ Held \subseteq IDs \X (0 .. QueueCap) /\ Held' \subseteq IDs \X (0 .. QueueCap)
  /\ \A d \in IDs, i \in 0 .. QueueCap : /\ <<d, i>> \in Held <=> Holds(conn[d], i)
                                         /\ <<d, i>> \in Held' <=> Holds(conn'[d], i)
BY DEF Held, Holds, Runs

\* When one connection gives up the buffer at one place there is one less ...
LEMMA OneLess ==
  ASSUME NEW c \in IDs, NEW q \in 0 .. QueueCap, Holds(conn[c], q),
         \A d \in IDs \ {c} : conn'[d] = conn[d],
         \A i \in 0 .. QueueCap : Holds(conn'[c], i) <=> Holds(conn[c], i) /\ i # q
  PROVE  Cardinality(Held') = Cardinality(Held) - 1
<1>1. <<c, q>> \in Held
  BY HeldIs
<1>2. ASSUME NEW d \in IDs, NEW i \in 0 .. QueueCap
      PROVE  <<d, i>> \in Held' <=> <<d, i>> \in Held /\ <<d, i>> # <<c, q>>
  BY HeldIs
<1>3. Held' = Held \ {<<c, q>>}
  BY <1>2, HeldIs
<1> QED BY <1>1, <1>3, HeldFinite, FS_RemoveElement

\* ... when it takes one there is one more ...
LEMMA OneMore ==
  ASSUME NEW c \in IDs, NEW q \in 0 .. QueueCap, ~Holds(conn[c], q),
         \A d \in IDs \ {c} : conn'[d] = conn[d],
         \A i \in 0 .. QueueCap : Holds(conn'[c], i) <=> Holds(conn[c], i) \/ i = q
  PROVE  Cardinality(Held') = Cardinality(Held) + 1
<1>1. <<c, q>> \notin Held
  BY HeldIs
<1>2. ASSUME NEW d \in IDs, NEW i \in 0 .. QueueCap
      PROVE  <<d, i>> \in Held' <=> <<d, i>> \in Held \/ <<d, i>> = <<c, q>>
  BY HeldIs
<1>3. Held' = Held \cup {<<c, q>>}
  <2>1. <<c, q>> \in IDs \X (0 .. QueueCap)
    OBVIOUS
  <2> QED BY <1>2, <2>1, HeldIs
<1> QED BY <1>1, <1>3, HeldFinite, FS_AddElement

\* ... and as many when it moves one.
LEMMA OneMoved ==
  ASSUME NEW c \in IDs, NEW q \in 0 .. QueueCap, Holds(conn[c], q),
         NEW p \in 0 .. QueueCap, ~Holds(conn[c], p),
         \A d \in IDs \ {c} : conn'[d] = conn[d],
         \A i \in 0 .. QueueCap : Holds(conn'[c], i) <=> (Holds(conn[c], i) /\ i # q) \/ i = p
  PROVE  Cardinality(Held') = Cardinality(Held)
<1> DEFINE Rest == Held \ {<<c, q>>}
<1>1. <<c, q>> \in Held /\ <<c, p>> \notin Rest
  BY HeldIs
<1>2. ASSUME NEW d \in IDs, NEW i \in 0 .. QueueCap
      PROVE  <<d, i>> \in Held' <=> <<d, i>> \in Rest \/ <<d, i>> = <<c, p>>
  BY HeldIs
<1>3. Held' = Rest \cup {<<c, p>>}
  <2>1. <<c, p>> \in IDs \X (0 .. QueueCap)
    OBVIOUS
  <2> QED BY <1>2, <2>1, HeldIs
<1>4. IsFiniteSet(Rest) /\ Cardinality(Rest) = Cardinality(Held) - 1
  BY <1>1, HeldFinite, FS_RemoveElement
<1>5. Cardinality(Held') = Cardinality(Rest) + 1
  BY <1>1, <1>3, <1>4, FS_AddElement
<1> QED BY <1>4, <1>5, HeldFinite

\* A datagram leaves its queue to be written: the buffer changes its place.
LEMMA TakeKeeps ==
  ASSUME ForwardInv, NEW c \in 1 .. made, Take(c)
  PROVE  ForwardInv'
<1>1. c \in IDs /\ conn[c] \in ConnRec /\ conn \in [IDs -> ConnRec]
      /\ conn[c].run = "loop" /\ conn[c].queue \in 1 .. QueueCap
      /\ UNCHANGED <<connections, lru, made, doomed, queued, listener, stopping>>
  <2>1. conn[c] \in ConnRec /\ conn[c].queue > 0
    BY Here DEF Take
  <2> QED BY <2>1, Here DEF Take, Runs, ConnRec
<1>2. PICK q \in 1 .. QueueCap : q = conn[c].queue
  BY <1>1
<1>3. PICK r \in ConnRec : /\ r = [conn[c] EXCEPT !.run = "write", !.queue = q - 1]
                           /\ r.run = "write" /\ r.source = conn[c].source
                           /\ r.queue = q - 1 /\ r.shut = conn[c].shut /\ r.udp = conn[c].udp
  <2>1. q - 1 \in 0 .. QueueCap
    BY <1>2, Here
  <2>2. [conn[c] EXCEPT !.run = "write", !.queue = q - 1] \in ConnRec
    BY <1>1, <2>1 DEF ConnRec
  <2> QED BY <1>1, <2>2 DEF ConnRec
<1>4. conn' = [conn EXCEPT ![c] = r]
  BY <1>1, <1>2, <1>3 DEF Take
<1>5. conn'[c] = r /\ \A d \in IDs \ {c} : conn'[d] = conn[d]
  BY <1>1, <1>4
<1>6. /\ Holds(conn[c], q) /\ ~Holds(conn[c], 0)
      /\ \A i \in 0 .. QueueCap :
           Holds(r, i) <=> (Holds(conn[c], i) /\ i # q) \/ i = 0
  BY <1>1, <1>2, <1>3 DEF Holds
<1>7. Cardinality(Held') = Cardinality(Held)
  BY <1>1, <1>5, <1>6, OneMoved
<1>8. BudgetExact'
  BY <1>1, <1>7, Here DEF BudgetExact
<1>9. r.shut = "done" => r.udp # "open"
  BY <1>1, <1>3, Here DEF Ends
<1>10. ListenerOK' /\ queued' <= Budget /\ doomed' \subseteq IDs
  BY <1>1, Here DEF ListenerOK, TypeOK
<1> QED BY <1>1, <1>3, <1>4, <1>8, <1>9, <1>10, ConnMoves

\* A datagram is written and its buffer released.
LEMMA WriteDatagramKeeps ==
  ASSUME ForwardInv, NEW c \in 1 .. made, WriteDatagram(c)
  PROVE  ForwardInv'
<1>1. c \in IDs /\ conn[c] \in ConnRec /\ conn \in [IDs -> ConnRec]
      /\ conn[c].run = "write" /\ queued' = queued - 1
      /\ UNCHANGED <<connections, lru, made, doomed, listener, stopping>>
  BY Here DEF WriteDatagram, Runs
<1>2. PICK pc \in {"loop", "close"} : conn' = [conn EXCEPT ![c].run = pc]
  BY DEF WriteDatagram, Goto
<1>3. PICK r \in ConnRec : /\ r = [conn[c] EXCEPT !.run = pc]
                           /\ r.run = pc /\ r.source = conn[c].source
                           /\ r.queue = conn[c].queue /\ r.shut = conn[c].shut
                           /\ r.udp = conn[c].udp
  <2>1. [conn[c] EXCEPT !.run = pc] \in ConnRec
    BY <1>1 DEF ConnRec
  <2> QED BY <1>1, <2>1 DEF ConnRec
<1>4. conn' = [conn EXCEPT ![c] = r]
  BY <1>1, <1>2, <1>3
<1>5. conn'[c] = r /\ \A d \in IDs \ {c} : conn'[d] = conn[d]
  BY <1>1, <1>4
<1>6. /\ 0 \in 0 .. QueueCap /\ Holds(conn[c], 0)
      /\ \A i \in 0 .. QueueCap : Holds(r, i) <=> Holds(conn[c], i) /\ i # 0
  BY <1>1, <1>3, Here DEF Holds
<1>7. Cardinality(Held') = Cardinality(Held) - 1
  BY <1>1, <1>5, <1>6, OneLess
<1>8. BudgetExact'
  BY <1>1, <1>7, HeldFinite, Here DEF BudgetExact
<1>9. r.shut = "done" => r.udp # "open"
  BY <1>1, <1>3, Here DEF Ends
<1>10. ListenerOK' /\ queued' <= Budget /\ doomed' \subseteq IDs
  BY <1>1, Here DEF ListenerOK, TypeOK
<1> QED BY <1>1, <1>3, <1>4, <1>8, <1>9, <1>10, ConnMoves

\* What is left in the queue is released, one by one.
LEMMA DrainKeeps ==
  ASSUME ForwardInv, NEW c \in 1 .. made, Drain(c)
  PROVE  ForwardInv'
<1>1. c \in IDs /\ conn[c] \in ConnRec /\ conn \in [IDs -> ConnRec]
      /\ conn[c].run = "drain" /\ conn[c].queue \in 0 .. QueueCap
      /\ UNCHANGED <<connections, lru, made, doomed, listener, stopping>>
  <2>1. conn[c] \in ConnRec
    BY Here
  <2> QED BY <2>1, Here DEF Drain, Runs, ConnRec
<1>2. CASE conn[c].queue = 0
  BY <1>1, <1>2, GotoKeeps DEF Drain
<1>3. CASE conn[c].queue # 0
  <2>1. PICK q \in 1 .. QueueCap : q = conn[c].queue
    BY <1>1, <1>3
  <2>2. conn' = [conn EXCEPT ![c].queue = q - 1] /\ queued' = queued - 1
    BY <1>1, <2>1 DEF Drain
  <2>3. PICK r \in ConnRec : /\ r = [conn[c] EXCEPT !.queue = q - 1]
                             /\ r.run = "drain" /\ r.source = conn[c].source
                             /\ r.queue = q - 1 /\ r.shut = conn[c].shut /\ r.udp = conn[c].udp
    <3>1. q - 1 \in 0 .. QueueCap
      BY <2>1, Here
    <3>2. [conn[c] EXCEPT !.queue = q - 1] \in ConnRec
      BY <1>1, <3>1 DEF ConnRec
    <3> QED BY <1>1, <3>2 DEF ConnRec
  <2>4. conn' = [conn EXCEPT ![c] = r]
    BY <1>1, <2>2, <2>3
  <2>5. conn'[c] = r /\ \A d \in IDs \ {c} : conn'[d] = conn[d]
    BY <1>1, <2>4
  <2>6. /\ Holds(conn[c], q)
        /\ \A i \in 0 .. QueueCap : Holds(r, i) <=> Holds(conn[c], i) /\ i # q
    BY <1>1, <2>1, <2>3 DEF Holds
  <2>7. Cardinality(Held') = Cardinality(Held) - 1
    BY <1>1, <2>5, <2>6, OneLess
  <2>8. BudgetExact'
    BY <1>1, <2>2, <2>7, HeldFinite, Here DEF BudgetExact
  <2>9. /\ r.shut = "done" => r.udp # "open"
        /\ r.shut = "done" /\ connections[conn[c].source] # c
    BY <1>1, <2>3, Here DEF Ends
  <2>10. ListenerOK' /\ queued' <= Budget /\ doomed' \subseteq IDs
    BY <1>1, <2>2, Here DEF ListenerOK, TypeOK
  <2> QED BY <1>1, <2>3, <2>4, <2>8, <2>9, <2>10, ConnMoves
<1> QED BY <1>2, <1>3

\* A datagram enters the queue of a connection that is open, or is released.
LEMMA EnqueueKeeps ==
  ASSUME ForwardInv, Enqueue
  PROVE  ForwardInv'
<1>1. PICK c \in 1 .. made : c = listener.id
  BY Here DEF Enqueue, ListenerOK
<1>2. c \in IDs /\ conn[c] \in ConnRec /\ conn \in [IDs -> ConnRec]
      /\ conn[c].queue \in 0 .. QueueCap
      /\ UNCHANGED <<connections, lru, made, doomed, stopping>>
      /\ listener.pc = "enqueue" /\ listener' = Listening
  <2>1. conn[c] \in ConnRec
    BY Here
  <2> QED BY <2>1, Here DEF Enqueue, ConnRec
<1>3. ListenerOK' /\ listener'.pc = "read" /\ doomed' \subseteq IDs
  BY <1>2, Here DEF ListenerOK, Listening, TypeOK
<1>4. CASE conn[c].shut = "no" /\ conn[c].queue < QueueCap
  <2>1. PICK q \in 1 .. QueueCap : q = conn[c].queue + 1
    BY <1>2, <1>4
  <2>2. conn' = [conn EXCEPT ![c].queue = q] /\ queued' = queued
    BY <1>1, <1>2, <1>4, <2>1 DEF Enqueue
  <2>3. PICK r \in ConnRec : /\ r = [conn[c] EXCEPT !.queue = q]
                             /\ r.run = conn[c].run /\ r.source = conn[c].source
                             /\ r.queue = q /\ r.shut = "no"
    <3>1. [conn[c] EXCEPT !.queue = q] \in ConnRec
      BY <1>2, <2>1 DEF ConnRec
    <3> QED BY <1>2, <1>4, <3>1 DEF ConnRec
  <2>4. conn' = [conn EXCEPT ![c] = r]
    BY <1>2, <2>2, <2>3
  <2>5. conn'[c] = r /\ \A d \in IDs \ {c} : conn'[d] = conn[d]
    BY <1>2, <2>4
  <2>6. /\ ~Holds(conn[c], q)
        /\ \A i \in 0 .. QueueCap : Holds(r, i) <=> Holds(conn[c], i) \/ i = q
    BY <1>2, <2>1, <2>3 DEF Holds
  <2>7. Cardinality(Held') = Cardinality(Held) + 1
    BY <1>2, <2>5, <2>6, OneMore
  <2>8. BudgetExact'
    BY <1>2, <1>3, <2>2, <2>7, HeldFinite, Here DEF BudgetExact
  <2>9. r.run \notin {"drain", "done"}
    BY <1>2, <2>3, <1>4, Here DEF Ends
  <2>10. queued' <= Budget
    BY <2>2, Here DEF TypeOK
  <2> QED BY <1>2, <1>3, <2>3, <2>4, <2>8, <2>9, <2>10, ConnMoves
<1>5. CASE ~(conn[c].shut = "no" /\ conn[c].queue < QueueCap)
  <2>1. queued' = queued - 1 /\ conn' = conn
    BY <1>1, <1>5 DEF Enqueue
  <2>2. Held' = Held
    BY <2>1 DEF Held, Runs
  <2>3. BudgetExact'
    BY <1>2, <1>3, <2>1, <2>2, HeldFinite, Here DEF BudgetExact
  <2>4. queued' <= Budget
    BY <2>1, Here DEF TypeOK
  <2>5. stopping' \in {"no", "cancelled", "deaf", "swept"}
    BY <1>2, Here DEF TypeOK
  <2> QED BY <1>2, <1>3, <2>1, <2>3, <2>4, <2>5, OthersMove
<1> QED BY <1>4, <1>5

-----------------------------------------------------------------------------
(* The table.                                                              *)

\* A connection that is used goes to the end of the list.
LEMMA TouchKeeps ==
  ASSUME ForwardInv, NEW c \in Live, lru' = Touched(c),
         UNCHANGED <<connections, made, conn, doomed, queued, stopping>>,
         BudgetExact', ListenerOK'
  PROVE  ForwardInv'
<1>1. /\ lru' \in Seq(IDs) /\ IsInjective(lru') /\ ToSet(lru') = ToSet(lru) \cup {c}
  BY TouchedEffect DEF ForwardInv, Live
<1>2. Live' = Live /\ ToSet(lru') = Live
  BY <1>1, LiveMade DEF Live
<1>3. AtMostMax' /\ TableAndList'
  BY <1>1, <1>2 DEF ForwardInv, TableOK, AtMostMax, TableAndList
<1>4. TypeOK'
  BY <1>1, Here, TypeStep DEF TypeOK
<1>5. Made' /\ Ends'
  BY Here DEF Made, Ends
<1> QED BY <1>3, <1>4, <1>5 DEF ForwardInv, TableOK

\* The source has a connection.
LEMMA GetHitKeeps ==
  ASSUME ForwardInv, GetHit
  PROVE  ForwardInv'
<1>1. PICK c \in Live : c = connections[listener.source]
  BY Here DEF GetHit, ListenerOK, Live
<1>2. /\ listener' = [Listening EXCEPT !.pc = "enqueue", !.id = c] /\ lru' = Touched(c)
      /\ UNCHANGED <<connections, made, conn, doomed, queued, stopping>>
      /\ listener.pc = "get"
  BY <1>1 DEF GetHit
<1>3. c \in 1 .. made /\ c \in IDs
  BY LiveMade, Here
<1>4. ListenerOK' /\ listener'.pc = "enqueue"
  BY <1>2, <1>3 DEF ListenerOK, Listening
<1>5. BudgetExact'
  BY <1>2, <1>4, SameHeld
<1> QED BY <1>2, <1>4, <1>5, TouchKeeps

\* A response comes, also for a connection that is no longer in the table.
LEMMA RespondKeeps ==
  ASSUME ForwardInv, NEW c \in 1 .. made, Respond(c)
  PROVE  ForwardInv'
<1>1. /\ conn[c].source \in Sources /\ c \in IDs
      /\ UNCHANGED <<connections, made, conn, doomed, queued, listener, stopping>>
  BY Here DEF Respond, Made
<1>2. /\ ListenerOK' /\ doomed' \subseteq IDs /\ queued' <= Budget
      /\ stopping' \in {"no", "cancelled", "deaf", "swept"}
  BY <1>1, Here DEF ListenerOK, TypeOK
<1>3. BudgetExact'
  BY <1>1, SameHeld
<1>4. CASE connections[conn[c].source] = c
  <2>1. c \in Live /\ lru' = Touched(c)
    BY <1>1, <1>4 DEF Live, Respond
  <2> QED BY <1>1, <1>2, <1>3, <2>1, TouchKeeps
<1>5. CASE connections[conn[c].source] # c
  <2>1. lru' = lru
    BY <1>5 DEF Respond
  <2> QED BY <1>1, <1>2, <1>3, <2>1, OthersMove
<1> QED BY <1>4, <1>5

\* A connection leaves the table, unless its source has another one.
LEMMA RemoveConnectionKeeps ==
  ASSUME ForwardInv, NEW c \in 1 .. made, RemoveConnection(c)
  PROVE  ForwardInv'
<1> DEFINE a == conn[c].source
<1>1. /\ c \in IDs /\ conn[c] \in ConnRec /\ conn \in [IDs -> ConnRec] /\ a \in Sources
      /\ conn[c].run = "quit" /\ conn[c].shut = "done" /\ c # 0
      /\ UNCHANGED <<made, doomed, queued, listener, stopping>>
  BY Here DEF RemoveConnection, Runs, Made
<1>2. PICK r \in ConnRec : /\ r = [conn[c] EXCEPT !.run = "drain"]
                           /\ r.run = "drain" /\ r.source = a /\ r.queue = conn[c].queue
                           /\ r.shut = "done" /\ r.udp = conn[c].udp
  <2>1. [conn[c] EXCEPT !.run = "drain"] \in ConnRec
    BY <1>1 DEF ConnRec
  <2> QED BY <1>1, <2>1 DEF ConnRec
<1>3. /\ conn' = [conn EXCEPT ![c] = r] /\ conn'[c] = r
      /\ \A d \in IDs \ {c} : conn'[d] = conn[d]
  BY <1>1, <1>2 DEF RemoveConnection, Goto
<1>4. \A d \in IDs : /\ conn'[d].queue = conn[d].queue
                     /\ conn'[d].run = "write" <=> conn[d].run = "write"
  BY <1>1, <1>2, <1>3
<1>5. BudgetExact'
  BY <1>1, <1>4, SameHeld
<1>6. r.udp # "open"
  BY <1>1, <1>2, Here DEF Ends
<1>7. ListenerOK' /\ queued' <= Budget /\ doomed' \subseteq IDs
  BY <1>1, Here DEF ListenerOK, TypeOK
<1>8. CASE connections[a] # c
  <2>1. UNCHANGED <<connections, lru>>
    BY <1>8 DEF RemoveConnection
  <2> QED BY <1>1, <1>2, <1>3, <1>5, <1>6, <1>7, <1>8, <2>1, ConnMoves
<1>9. CASE connections[a] = c
  <2>1. connections' = [connections EXCEPT ![a] = 0] /\ lru' = Without(c)
    BY <1>9 DEF RemoveConnection
  <2>2. /\ connections' \in [Sources -> IDs \cup {0}] /\ connections'[a] = 0
        /\ \A b \in Sources \ {a} : connections'[b] = connections[b]
    BY <1>1, <2>1, Here
  <2>3. \A b \in Sources : connections[b] = c => b = a
    BY <1>1, Here DEF TableOK, TableAndList
  <2>4. Live' = Live \ {c}
    BY <1>1, <1>9, <2>2, <2>3, Here DEF Live
  <2>5. lru' \in Seq(IDs) /\ IsInjective(lru') /\ ToSet(lru') = Live \ {c}
    BY <1>1, <2>1, WithoutEffect, LiveMade, Here
  <2>6. Cardinality(Live \ {c}) <= Cardinality(Live)
    BY LiveMade, FS_Subset
  <2>7. AtMostMax'
    <3>1. Cardinality(Live) \in Nat /\ Cardinality(Live \ {c}) \in Nat
      BY LiveMade, FS_CardinalityType, FS_Subset
    <3> QED BY <2>4, <2>6, <3>1, Here DEF TableOK, AtMostMax
  <2>8. \A b \in Sources : connections'[b] # 0 => conn'[connections'[b]].source = b
    <3> SUFFICES ASSUME NEW b \in Sources \ {a}, connections[b] # 0
                 PROVE  conn'[connections[b]].source = b
      BY <2>2
    <3>1. connections[b] \in IDs \ {c}
      BY <2>3, Here
    <3> QED BY <1>3, <3>1, Here DEF TableOK, TableAndList
  <2>9. TableAndList'
    BY <2>4, <2>5, <2>8 DEF TableAndList
  <2>10. conn' \in [IDs -> ConnRec] /\ made' \in 0 .. MaxMade
         /\ stopping' \in {"no", "cancelled", "deaf", "swept"}
    BY <1>1, <1>3, Here DEF TypeOK
  <2>11. TypeOK'
    BY <1>5, <1>7, <2>2, <2>5, <2>10, TypeStep
  <2>12. Made'
    BY <1>1, <1>2, <1>3, <2>2, Here DEF Made
  <2>13. Ends'
    <3> SUFFICES ASSUME NEW d \in IDs
                 PROVE  /\ conn'[d].shut = "done" => conn'[d].udp # "open"
                        /\ conn'[d].run \in {"drain", "done"}
                             => conn'[d].shut = "done" /\ connections'[conn'[d].source] # d
                        /\ conn'[d].run = "done" => conn'[d].queue = 0
      BY DEF Ends
    <3>1. CASE d = c
      BY <1>1, <1>2, <1>3, <1>6, <2>2, <3>1
    <3>2. CASE d # c
      <4>1. conn'[d] = conn[d]
        BY <1>3, <3>2
      <4>2. conn[d].run \in {"drain", "done"} => conn[d].source \in Sources
        <5>1. d > made => conn[d] = Unused
          BY Here DEF Made
        <5>2. ~(d > made) => d \in 1 .. made
          BY Here DEF IDs
        <5> QED BY <5>1, <5>2, Here DEF Made, Unused
      <4> QED BY <2>2, <4>1, <4>2, Here DEF Ends
    <3> QED BY <3>1, <3>2
  <2> QED BY <1>5, <1>7, <2>7, <2>9, <2>11, <2>12, <2>13 DEF ForwardInv, TableOK
<1> QED BY <1>8, <1>9

\* There is room for one more in the table once the victim is out of it, and the
\* victim is the connection at the head of the list.
LEMMA RoomMade ==
  ASSUME ForwardInv,
         NEW L, L = IF Victim = 0 THEN lru ELSE Tail(lru),
         NEW Rest, Rest = IF Victim = 0 THEN Live ELSE Live \ {Victim}
  PROVE  /\ L \in Seq(IDs) /\ IsInjective(L) /\ ToSet(L) = Rest
         /\ IsFiniteSet(Rest) /\ Cardinality(Rest) < MaxConns /\ Rest \subseteq Live
         /\ Victim \in IDs \cup {0} /\ (Victim # 0 => Victim \in Live)
<1>1. /\ lru \in Seq(IDs) /\ IsInjective(lru) /\ ToSet(lru) = Live
      /\ Cardinality(Live) \in Nat /\ Cardinality(Live) <= MaxConns
  BY LiveMade, FS_CardinalityType DEF ForwardInv, TableOK, TypeOK, TableAndList, AtMostMax
<1>2. CASE Cardinality(Live) < MaxConns
  BY <1>1, <1>2, LiveMade DEF Victim
<1>3. CASE lru = <<>>
  <2>1. Live = {}
    BY <1>1, <1>3 DEF ToSet
  <2>2. Cardinality(Live) = 0
    BY <2>1, FS_EmptySet
  <2> QED BY <1>1, <1>3, <2>2, LiveMade DEF Victim
<1>4. CASE ~(Cardinality(Live) < MaxConns) /\ lru # <<>>
  <2>1. Victim = Head(lru)
    BY <1>4 DEF Victim
  <2>2. /\ Tail(lru) \in Seq(IDs) /\ IsInjective(Tail(lru)) /\ Head(lru) \in Live
        /\ ToSet(Tail(lru)) = Live \ {Head(lru)}
    BY <1>1, <1>4, TailEffect
  <2>3. Victim \in Live /\ Victim \in IDs /\ Victim # 0
    BY <2>1, <2>2, Here DEF Live
  <2>4. IsFiniteSet(Live \ {Victim}) /\ Cardinality(Live \ {Victim}) = Cardinality(Live) - 1
    BY <2>3, LiveMade, FS_RemoveElement
  <2> QED BY <1>1, <2>1, <2>2, <2>3, <2>4
<1> QED BY <1>2, <1>3, <1>4

\* A connection is made and takes the victim's place.
LEMMA GetCreateKeeps ==
  ASSUME ForwardInv, GetCreate
  PROVE  ForwardInv'
<1>1. PICK a \in Sources : a = listener.source
  BY Here DEF GetCreate, ListenerOK
<1>2. PICK c \in IDs : c = made + 1 /\ conn[c] = Unused /\ c # 0 /\ c \notin Live
  <2>1. made + 1 \in IDs /\ conn[made + 1] = Unused
    BY Here DEF GetCreate, ListenerOK, Made, IDs
  <2> QED BY <2>1, LiveMade, Here
<1>3. PICK v \in IDs \cup {0} : v = Victim /\ (v # 0 => v \in Live)
  BY RoomMade
<1>4. /\ connections[a] = 0 /\ made' = c
      /\ connections' = [b \in Sources |->
           IF b = a THEN c
           ELSE IF v # 0 /\ b = conn[v].source THEN 0 ELSE connections[b]]
      /\ conn' = [conn EXCEPT ![c].source = a, ![c].run = "dial"]
      /\ doomed' = IF v = 0 THEN doomed ELSE doomed \cup {v}
      /\ listener' = [Listening EXCEPT !.pc = "evict", !.id = c, !.victim = v]
      /\ listener.pc = "get" /\ UNCHANGED <<queued, stopping>>
  BY <1>1, <1>2, <1>3 DEF GetCreate
<1>5. PICK r \in ConnRec : /\ r = [conn[c] EXCEPT !.source = a, !.run = "dial"]
                           /\ r.run = "dial" /\ r.source = a
                           /\ r.queue = conn[c].queue /\ r.shut = conn[c].shut
  <2>1. conn[c] \in ConnRec
    BY Here
  <2>2. [conn[c] EXCEPT !.source = a, !.run = "dial"] \in ConnRec
    BY <2>1 DEF ConnRec
  <2> QED BY <2>1, <2>2 DEF ConnRec
<1>6. /\ conn' \in [IDs -> ConnRec] /\ conn'[c] = r
      /\ \A d \in IDs \ {c} : conn'[d] = conn[d]
  <2>1. conn' = [conn EXCEPT ![c] = r]
    BY <1>4, <1>5, Here
  <2> QED BY <2>1, Here
<1>7. /\ connections' \in [Sources -> IDs \cup {0}] /\ connections'[a] = c
      /\ \A b \in Sources \ {a} : connections'[b] \in {0, connections[b]}
      /\ \A b \in Sources \ {a} :
           (v # 0 => b # conn[v].source) => connections'[b] = connections[b]
      /\ v # 0 /\ conn[v].source # a => connections'[conn[v].source] = 0
  BY <1>3, <1>4, Here, LiveMade
<1>8. PICK Rest : Rest = IF v = 0 THEN Live ELSE Live \ {v}
  OBVIOUS
<1>9. PICK L : L = IF v = 0 THEN lru ELSE Tail(lru)
  OBVIOUS
<1>10. /\ L \in Seq(IDs) /\ IsInjective(L) /\ ToSet(L) = Rest
       /\ IsFiniteSet(Rest) /\ Cardinality(Rest) < MaxConns /\ Rest \subseteq Live
  BY <1>3, <1>8, <1>9, RoomMade
<1>11. Live' = Rest \cup {c}
  <2>1. ASSUME NEW d \in Rest PROVE d \in Live'
    <3>1. /\ d \in Live /\ d \in IDs /\ d # 0 /\ (v # 0 => d # v)
          /\ conn[d].source \in Sources /\ connections[conn[d].source] = d
      BY <1>8, <1>10, LiveMade, Here DEF Live
    <3>2. conn[d].source # a /\ (v # 0 => conn[d].source # conn[v].source)
      BY <1>3, <1>4, <3>1, LiveMade
    <3> QED BY <1>7, <3>1, <3>2 DEF Live
  <2>2. c \in Live'
    BY <1>7 DEF Live
  <2>3. ASSUME NEW d \in Live' PROVE d \in Rest \cup {c}
    <3>1. PICK b \in Sources : d \in IDs /\ connections'[b] = d /\ d # 0
      BY Here DEF Live
    <3>2. CASE b = a
      BY <1>7, <3>1, <3>2
    <3>3. CASE b # a
      <4>1. connections[b] = d /\ d \in Live
        BY <1>7, <3>1, <3>3 DEF Live
      <4>2. conn[d].source = b
        BY <3>1, <4>1, Here DEF TableOK, TableAndList
      <4>3. v # 0 => d # v
        BY <1>7, <3>1, <3>3, <4>2
      <4> QED BY <1>8, <4>1, <4>3
    <3> QED BY <3>2, <3>3
  <2> QED BY <2>1, <2>2, <2>3
<1>12. c \notin Rest
  BY <1>2, <1>10
<1>13. AtMostMax'
  <2>1. Cardinality(Live') = Cardinality(Rest) + 1 /\ Cardinality(Rest) \in Nat
    BY <1>10, <1>11, <1>12, FS_AddElement, FS_CardinalityType
  <2> QED BY <1>10, <2>1 DEF AtMostMax
<1>14. lru' \in Seq(IDs) /\ IsInjective(lru') /\ ToSet(lru') = Live'
  <2>1. lru' = Append(L, c)
    BY <1>2, <1>3, <1>9 DEF GetCreate
  <2> QED BY <1>10, <1>11, <1>12, <2>1, AppendEffect
<1>15. \A b \in Sources : connections'[b] # 0 => conn'[connections'[b]].source = b
  <2> SUFFICES ASSUME NEW b \in Sources, connections'[b] # 0
               PROVE  conn'[connections'[b]].source = b
    OBVIOUS
  <2>1. CASE b = a
    BY <1>5, <1>6, <1>7, <2>1
  <2>2. CASE b # a
    <3>1. connections'[b] = connections[b] /\ connections[b] \in Live
      BY <1>7, <2>2, Here DEF Live
    <3>2. connections[b] \in IDs \ {c}
      BY <1>2, <3>1 DEF Live
    <3> QED BY <1>6, <3>1, <3>2, Here DEF TableOK, TableAndList
  <2> QED BY <2>1, <2>2
<1>16. TableAndList'
  BY <1>14, <1>15 DEF TableAndList
<1>17. \A d \in IDs : /\ conn'[d].queue = conn[d].queue
                      /\ conn'[d].run = "write" <=> conn[d].run = "write"
  <2>1. conn[c].run # "write" /\ r.run # "write" /\ r.queue = conn[c].queue
    BY <1>2, <1>5 DEF Unused
  <2>2. ASSUME NEW d \in IDs
        PROVE  /\ conn'[d].queue = conn[d].queue
               /\ conn'[d].run = "write" <=> conn[d].run = "write"
    <3>1. CASE d = c
      BY <1>6, <2>1, <3>1
    <3>2. CASE d # c
      BY <1>6, <3>2
    <3> QED BY <3>1, <3>2
  <2> QED BY <2>2
<1>18. ListenerOK' /\ listener'.pc = "evict"
  <2>1. c \in 1 .. made'
    BY <1>2, <1>4, Here
  <2> QED BY <1>4, <2>1 DEF ListenerOK, Listening
<1>19. BudgetExact'
  BY <1>4, <1>17, <1>18, SameHeld
<1>20. TypeOK'
  <2>1. /\ made' \in 0 .. MaxMade /\ doomed' \subseteq IDs /\ queued' <= Budget
        /\ stopping' \in {"no", "cancelled", "deaf", "swept"}
    BY <1>4, Here DEF TypeOK, IDs
  <2> QED BY <1>6, <1>7, <1>14, <1>18, <1>19, <2>1, TypeStep
<1>21. Made'
  <2>1. ASSUME NEW d \in 1 .. made' PROVE conn'[d].source \in Sources
    <3>1. CASE d = c
      BY <1>5, <1>6, <3>1
    <3>2. CASE d # c
      <4>1. d \in 1 .. made /\ d \in IDs
        BY <1>2, <1>4, <3>2, Here
      <4> QED BY <1>6, <3>2, <4>1, Here DEF Made
    <3> QED BY <3>1, <3>2
  <2>2. ASSUME NEW d \in IDs, d > made' PROVE conn'[d] = Unused
    <3>1. d > made /\ d # c
      BY <1>2, <1>4, <2>2, Here DEF IDs
    <3> QED BY <1>6, <3>1, Here DEF Made
  <2>3. ASSUME NEW b \in Sources PROVE connections'[b] <= made'
    <3>1. CASE b = a
      BY <1>4, <1>7, <3>1 DEF IDs
    <3>2. CASE b # a
      <4>1. connections[b] <= made /\ connections[b] \in IDs \cup {0}
        BY Here DEF Made
      <4> QED BY <1>2, <1>4, <1>7, <3>2, <4>1, Here DEF IDs
    <3> QED BY <3>1, <3>2
  <2> QED BY <2>1, <2>2, <2>3 DEF Made
<1>22. Ends'
  <2> SUFFICES ASSUME NEW d \in IDs
               PROVE  /\ conn'[d].shut = "done" => conn'[d].udp # "open"
                      /\ conn'[d].run \in {"drain", "done"}
                           => conn'[d].shut = "done" /\ connections'[conn'[d].source] # d
                      /\ conn'[d].run = "done" => conn'[d].queue = 0
    BY DEF Ends
  <2>1. CASE d = c
    <3>1. r.shut = "no" /\ r.run = "dial"
      BY <1>2, <1>5 DEF Unused
    <3> QED BY <1>6, <2>1, <3>1
  <2>2. CASE d # c
    <3>1. conn'[d] = conn[d] /\ d # 0
      BY <1>6, <2>2, Here
    <3>2. conn[d].run \in {"drain", "done"} => conn[d].source \in Sources
      <4>1. d > made => conn[d] = Unused
        BY Here DEF Made
      <4>2. ~(d > made) => d \in 1 .. made
        BY Here DEF IDs
      <4> QED BY <4>1, <4>2, Here DEF Made, Unused
    <3> QED BY <1>7, <2>2, <3>1, <3>2, Here DEF Ends
  <2> QED BY <2>1, <2>2
<1> QED BY <1>13, <1>16, <1>18, <1>19, <1>20, <1>21, <1>22 DEF ForwardInv, TableOK

-----------------------------------------------------------------------------
(* The theorems.                                                           *)

LEMMA InitOK == Init => ForwardInv
<1> SUFFICES ASSUME Init PROVE ForwardInv
  OBVIOUS
<1>1. /\ \A a \in Sources : connections[a] = 0
      /\ \A c \in IDs : conn[c] = Unused
  BY DEF Init
<1>2. 0 \notin IDs /\ IDs \subseteq Nat /\ QueueCap \in Nat
  BY DEF IDs
<1>3. Live = {}
  BY <1>1, <1>2 DEF Live
<1>4. AtMostMax
  BY <1>3, FS_EmptySet DEF AtMostMax
<1>5. TableAndList
  BY <1>1, <1>3 DEF Init, TableAndList, ToSet, IsInjective
<1>6. Unused \in ConnRec
  BY <1>2 DEF Unused, ConnRec
<1>7. TypeOK
  BY <1>6 DEF Init, TypeOK, ConnRec, Listening
<1>8. Held = {}
  BY <1>1, <1>2 DEF Held, Runs, Unused
<1>9. BudgetExact
  BY <1>8, FS_EmptySet DEF BudgetExact, Init, Listening
<1>10. ListenerOK /\ Made /\ Ends
  BY <1>1 DEF Init, ListenerOK, Listening, Made, Ends, Unused
<1> QED BY <1>4, <1>5, <1>7, <1>9, <1>10 DEF ForwardInv, TableOK

\* The listener and Close.
LEMMA ListenerKeeps ==
  ASSUME ForwardInv,
         \/ \E a \in Sources : Receive(a)
         \/ ListenEnds \/ Evicted \/ AllDone
         \/ CloseBegin \/ CloseListener \/ CloseSweep
  PROVE  ForwardInv'
<1>1. UNCHANGED <<connections, lru, made, conn>>
  BY DEF Receive, ListenEnds, Evicted, AllDone, CloseBegin, CloseListener, CloseSweep
<1>2. doomed' \subseteq IDs /\ stopping' \in {"no", "cancelled", "deaf", "swept"}
  BY Here DEF TypeOK, Live, Receive, ListenEnds, Evicted, AllDone, CloseBegin,
              CloseListener, CloseSweep
<1>3. CASE \E a \in Sources : Receive(a)
  <2>1. PICK a \in Sources : Receive(a)
    BY <1>3
  <2>2. ListenerOK' /\ listener'.pc = "get" /\ listener.pc = "read"
    BY <1>1, <2>1, Here DEF Receive, ListenerOK
  <2>3. queued' = queued + 1 /\ queued' <= Budget
    <3>1. queued < Budget /\ queued' = queued + 1 /\ Budget \in Nat /\ queued \in Nat
      BY <2>1, Here DEF Receive
    <3> QED BY <3>1
  <2>4. Held' = Held
    BY <1>1 DEF Held, Runs
  <2>5. BudgetExact'
    BY <2>2, <2>3, <2>4, HeldFinite, Here DEF BudgetExact
  <2> QED BY <1>1, <1>2, <2>2, <2>3, <2>5, OthersMove
<1>4. CASE ~\E a \in Sources : Receive(a)
  <2>1. ListenerOK'
    BY <1>1, <1>4, Here DEF ListenerOK, Listening, ListenEnds, Evicted, AllDone, CloseBegin,
                      CloseListener, CloseSweep
  <2>2. /\ listener'.pc \in {"get", "evict", "enqueue"}
             <=> listener.pc \in {"get", "evict", "enqueue"}
        /\ queued' = queued
    BY <1>4, Here DEF ListenerOK, Listening, ListenEnds, Evicted, AllDone, CloseBegin,
                      CloseListener, CloseSweep
  <2>3. BudgetExact' /\ queued' <= Budget
    BY <1>1, <2>2, SameHeld, Here DEF TypeOK
  <2> QED BY <1>1, <1>2, <2>1, <2>3, OthersMove
<1> QED BY <1>3, <1>4

\* The goroutines of one connection.
LEMMA ConnectionKeeps ==
  ASSUME ForwardInv, NEW c \in 1 .. made,
         CloseStep(c) \/ RunStep(c) \/ Respond(c) \/ ResponsesEnd(c) \/ Janitor(c)
  PROVE  ForwardInv'
<1>1. CASE MarkClosed(c) \/ CloseUDP(c)
  BY <1>1, MarkClosedKeeps, CloseUDPKeeps
<1>2. CASE CloseReturns(c) \/ Janitor(c)
  <2>1. /\ UNCHANGED <<connections, lru, made, conn, queued, listener, stopping>>
        /\ doomed' \subseteq IDs
    BY <1>2, Here DEF CloseReturns, Janitor, TypeOK, Live
  <2>2. ListenerOK' /\ BudgetExact' /\ queued' <= Budget
        /\ stopping' \in {"no", "cancelled", "deaf", "swept"}
    BY <2>1, SameHeld, Here DEF ListenerOK, TypeOK
  <2> QED BY <2>1, <2>2, OthersMove
<1>3. CASE Dial(c) \/ LoopEnds(c) \/ AwaitResponses(c)
  BY <1>3, GotoKeeps DEF Dial, LoopEnds, AwaitResponses, Runs
<1>4. CASE SetUDP(c) \/ Take(c) \/ WriteDatagram(c)
  BY <1>4, SetUDPKeeps, TakeKeeps, WriteDatagramKeeps
<1>5. CASE RemoveConnection(c) \/ Drain(c)
  BY <1>5, RemoveConnectionKeeps, DrainKeeps
<1>6. CASE Respond(c) \/ ResponsesEnd(c)
  BY <1>6, RespondKeeps, ResponsesEndKeeps
<1> QED BY <1>1, <1>2, <1>3, <1>4, <1>5, <1>6 DEF CloseStep, RunStep

LEMMA ForwardStep == ForwardInv /\ [Next]_vars => ForwardInv'
<1> SUFFICES ASSUME ForwardInv, [Next]_vars PROVE ForwardInv'
  OBVIOUS
<1>1. CASE UNCHANGED vars
  <2>1. UNCHANGED <<connections, lru, made, conn, doomed, queued, listener, stopping>>
    BY <1>1 DEF vars
  <2>2. /\ ListenerOK' /\ BudgetExact' /\ queued' <= Budget /\ doomed' \subseteq IDs
        /\ stopping' \in {"no", "cancelled", "deaf", "swept"}
    BY <2>1, SameHeld, Here DEF ListenerOK, TypeOK
  <2> QED BY <2>1, <2>2, OthersMove
<1>2. CASE GetHit \/ GetCreate \/ Enqueue
  BY <1>2, GetHitKeeps, GetCreateKeeps, EnqueueKeeps
<1>3. CASE \/ \E a \in Sources : Receive(a)
           \/ ListenEnds \/ Evicted \/ AllDone
           \/ CloseBegin \/ CloseListener \/ CloseSweep
  BY <1>3, ListenerKeeps
<1>4. CASE \E c \in 1 .. made :
             CloseStep(c) \/ RunStep(c) \/ Respond(c) \/ ResponsesEnd(c) \/ Janitor(c)
  BY <1>4, ConnectionKeeps
<1> QED BY <1>1, <1>2, <1>3, <1>4 DEF Next, ListenerStep

LEMMA ForwardAlways == Spec => []ForwardInv
<1>1. Spec => []ForwardInv
  BY InitOK, ForwardStep, PTL DEF Spec
<1> QED BY <1>1

\* The table holds at most its limit and the same connections as the list, each once
\* and under its own source, with any number of sources and connections.
THEOREM TableCorrect == Spec => []TableOK
<1>1. ForwardInv => TableOK
  BY DEF ForwardInv
<1> QED BY <1>1, ForwardAlways, PTL

\* The budget counts every datagram that holds a buffer, and no other.
THEOREM BudgetCorrect == Spec => []BudgetExact
<1>1. ForwardInv => BudgetExact
  BY DEF ForwardInv
<1> QED BY <1>1, ForwardAlways, PTL

\* A connection whose goroutine has ended holds no datagram, no socket and no place.
THEOREM NothingLeftCorrect == Spec => []NothingLeft
<1>1. ForwardInv => NothingLeft
  BY Here DEF Ends, NothingLeft, Runs
<1> QED BY <1>1, ForwardAlways, PTL

-----------------------------------------------------------------------------
(* Nobody waits in vain.                                                   *)

\* Connection c, which was made, waits only for what somebody is about to do: its
\* reader is there from the moment the loop is, with the socket it reads.
Reads(c) ==
  /\ conn[c].run # "none"
  /\ conn[c].run \in {"loop", "write", "close"} => conn[c].resp # "none"
  /\ conn[c].resp = "read" => conn[c].udp # "none"

\* Who is doomed was made, and the listener waits for one that is doomed or closed.
Waits ==
  /\ doomed \subseteq 1 .. made
  /\ \A c \in 1 .. made : Reads(c)
  /\ listener.pc = "evict" /\ listener.victim # 0
       => listener.victim \in doomed \/ conn[listener.victim].shut = "done"

LEMMA InitWaits == Init => Waits
BY DEF Init, Waits, Listening

\* A step of one connection.
LEMMA OneReads ==
  ASSUME ForwardInv, Waits, UNCHANGED <<made, doomed, listener>>, NEW c \in 1 .. made,
         \A d \in IDs \ {c} : conn'[d] = conn[d],
         conn[c].shut = "done" => conn'[c].shut = "done", Reads(c)'
  PROVE  Waits'
<1>1. ASSUME NEW d \in 1 .. made PROVE Reads(d)'
  <2>1. CASE d # c
    <3>1. d \in IDs /\ conn'[d] = conn[d]
      BY <2>1, Here
    <3> QED BY <3>1 DEF Waits, Reads
  <2> QED BY <2>1
<1>2. listener.victim \in IDs \cup {0}
  BY Here DEF ListenerOK
<1>3. \A d \in IDs : conn[d].shut = "done" => conn'[d].shut = "done"
  OBVIOUS
<1> QED BY <1>1, <1>2, <1>3 DEF Waits

\* A step of its goroutine, which moves on.
LEMMA RunReads ==
  ASSUME ForwardInv, Waits, NEW c \in 1 .. made, RunStep(c)
  PROVE  Waits'
<1>1. c \in IDs /\ conn[c] \in ConnRec /\ conn \in [IDs -> ConnRec] /\ Reads(c)
  BY Here DEF Waits
<1>2. UNCHANGED <<made, doomed, listener>>
  BY DEF RunStep, Dial, SetUDP, Take, WriteDatagram, LoopEnds, AwaitResponses,
         RemoveConnection, Drain
<1>3. CASE SetUDP(c) /\ ~Cancelled(c)
  <2>1. conn' = [conn EXCEPT ![c].run = "loop", ![c].udp = "open", ![c].resp = "read"]
    BY <1>3 DEF SetUDP
  <2>2. /\ \A d \in IDs \ {c} : conn'[d] = conn[d]
        /\ conn'[c].run = "loop" /\ conn'[c].udp = "open" /\ conn'[c].resp = "read"
        /\ conn'[c].shut = conn[c].shut
    BY <1>1, <2>1 DEF ConnRec
  <2> QED BY <1>2, <2>2, OneReads DEF Reads
<1>4. CASE ~ (SetUDP(c) /\ ~Cancelled(c))
  <2>1. \E pc \in {"set", "quit", "loop", "write", "close", "drain", "done"} :
          /\ Goto(c, pc) \/ conn' = [conn EXCEPT ![c].run = pc, ![c].queue = @ - 1]
                         \/ (pc = "done" /\ conn' = [conn EXCEPT ![c].queue = @ - 1])
          /\ pc \in {"loop", "write", "close"} => conn[c].run \in {"loop", "write", "close"}
    BY <1>4 DEF RunStep, Dial, SetUDP, Take, WriteDatagram, LoopEnds, AwaitResponses,
                RemoveConnection, Drain, Runs
  <2>2. /\ \A d \in IDs \ {c} : conn'[d] = conn[d]
        /\ conn'[c].run = conn[c].run \/
             /\ conn'[c].run # "none"
             /\ conn'[c].run \in {"loop", "write", "close"} => conn[c].run \in {"loop", "write", "close"}
        /\ conn'[c].udp = conn[c].udp /\ conn'[c].resp = conn[c].resp
        /\ conn'[c].shut = conn[c].shut
    <3>1. PICK pc \in {"set", "quit", "loop", "write", "close", "drain", "done"} :
          /\ Goto(c, pc) \/ conn' = [conn EXCEPT ![c].run = pc, ![c].queue = @ - 1]
                         \/ (pc = "done" /\ conn' = [conn EXCEPT ![c].queue = @ - 1])
          /\ pc \in {"loop", "write", "close"} => conn[c].run \in {"loop", "write", "close"}
      BY <2>1
    <3>2. CASE Goto(c, pc)
      BY <1>1, <3>1, <3>2 DEF ConnRec, Goto
    <3>3. CASE conn' = [conn EXCEPT ![c].run = pc, ![c].queue = @ - 1]
      BY <1>1, <3>1, <3>3 DEF ConnRec
    <3>4. CASE conn' = [conn EXCEPT ![c].queue = @ - 1]
      BY <1>1, <3>1, <3>4 DEF ConnRec
    <3> QED BY <3>1, <3>2, <3>3, <3>4
  <2> QED BY <1>1, <1>2, <2>2, OneReads DEF Reads
<1> QED BY <1>3, <1>4

\* Closing, a response and the end of the reader.
LEMMA CloseReads ==
  ASSUME ForwardInv, Waits, NEW c \in 1 .. made,
         CloseStep(c) \/ Respond(c) \/ ResponsesEnd(c) \/ Janitor(c)
  PROVE  Waits'
<1>1. c \in IDs /\ conn[c] \in ConnRec /\ conn \in [IDs -> ConnRec] /\ Reads(c)
  BY Here DEF Waits
<1>2. CASE MarkClosed(c)
  <2>1. /\ \A d \in IDs \ {c} : conn'[d] = conn[d]
        /\ conn'[c].run = conn[c].run /\ conn'[c].udp = conn[c].udp
        /\ conn'[c].resp = conn[c].resp /\ conn[c].shut = "no"
    BY <1>1, <1>2 DEF ConnRec, MarkClosed
  <2> QED BY <1>1, <1>2, <2>1, OneReads DEF Reads, MarkClosed
<1>3. CASE CloseUDP(c)
  <2>1. PICK u \in {"none", "closed"} : u = IF conn[c].udp = "open" THEN "closed" ELSE conn[c].udp
    BY <1>1 DEF ConnRec
  <2>2. conn' = [conn EXCEPT ![c].shut = "done", ![c].udp = u]
    BY <1>1, <1>3, <2>1 DEF CloseUDP
  <2>3. /\ \A d \in IDs \ {c} : conn'[d] = conn[d]
        /\ conn'[c].run = conn[c].run /\ conn'[c].udp = u
        /\ conn'[c].resp = conn[c].resp /\ conn'[c].shut = "done"
    BY <1>1, <2>2 DEF ConnRec
  <2> QED BY <1>1, <1>3, <2>1, <2>3, OneReads DEF Reads, CloseUDP
<1>4. CASE ResponsesEnd(c)
  <2>1. /\ \A d \in IDs \ {c} : conn'[d] = conn[d]
        /\ conn'[c].run = conn[c].run /\ conn'[c].udp = conn[c].udp
        /\ conn'[c].resp = "done" /\ conn'[c].shut = conn[c].shut
    BY <1>1, <1>4 DEF ConnRec, ResponsesEnd
  <2> QED BY <1>1, <1>4, <2>1, OneReads DEF Reads, ResponsesEnd
<1>5. CASE CloseReturns(c) \/ Respond(c) \/ Janitor(c)
  <2>1. /\ UNCHANGED <<made, conn, listener>> /\ doomed' \subseteq doomed \cup {c}
        /\ \A d \in doomed \ doomed' : conn[d].shut = "done"
    BY <1>5 DEF CloseReturns, Respond, Janitor
  <2>2. \A d \in 1 .. made : Reads(d)'
    BY <2>1 DEF Waits, Reads
  <2> QED BY <2>1, <2>2 DEF Waits
<1> QED BY <1>2, <1>3, <1>4, <1>5 DEF CloseStep

\* The listener and Close.
LEMMA ListenerWaits ==
  ASSUME ForwardInv, Waits,
         \/ \E a \in Sources : Receive(a)
         \/ ListenEnds \/ ListenerStep \/ CloseBegin \/ CloseListener \/ CloseSweep
  PROVE  Waits'
<1>1. CASE GetCreate
  <2>1. PICK c \in IDs : c = made + 1 /\ conn[c] = Unused
    <3>1. made + 1 \in IDs /\ conn[made + 1] = Unused
      BY <1>1, Here DEF GetCreate, ListenerOK, Made, IDs
    <3> QED BY <3>1
  <2>2. PICK v \in IDs \cup {0} : v = Victim /\ (v # 0 => v \in Live)
    BY RoomMade
  <2>3. PICK a \in Sources : a = listener.source
    BY <1>1, Here DEF GetCreate, ListenerOK
  <2>4. /\ made' = c /\ conn' = [conn EXCEPT ![c].source = a, ![c].run = "dial"]
        /\ doomed' = IF v = 0 THEN doomed ELSE doomed \cup {v}
        /\ listener' = [Listening EXCEPT !.pc = "evict", !.id = c, !.victim = v]
    BY <1>1, <2>1, <2>2, <2>3 DEF GetCreate
  <2>5. listener'.pc = "evict" /\ listener'.victim = v
    BY <2>4 DEF Listening
  <2>6. v # 0 => v \in 1 .. made
    BY <2>2, LiveMade
  <2>7. \A d \in 1 .. made : d \in 1 .. made' /\ d \in IDs /\ d # c
    BY <2>1, <2>4, Here
  <2>8. doomed' \subseteq 1 .. made'
    BY <2>4, <2>6, <2>7 DEF Waits
  <2>9. Reads(c)'
    <3>1. conn'[c].run = "dial" /\ conn'[c].resp = "none"
      <4>1. conn[c] \in ConnRec /\ conn[c].resp = "none" /\ conn \in [IDs -> ConnRec]
        BY <2>1, Here DEF Unused
      <4> QED BY <2>4, <4>1 DEF ConnRec
    <3> QED BY <3>1 DEF Reads
  <2>10. ASSUME NEW d \in 1 .. made PROVE Reads(d)'
    <3>1. conn'[d] = conn[d]
      BY <2>4, <2>7, Here
    <3> QED BY <3>1 DEF Waits, Reads
  <2>11. \A d \in 1 .. made' : d = c \/ d \in 1 .. made
    BY <2>1, <2>4, Here
  <2> QED BY <2>4, <2>5, <2>8, <2>9, <2>10, <2>11 DEF Waits
<1>2. CASE Enqueue
  <2>1. made' = made /\ doomed' = doomed /\ listener' = Listening
    BY <1>2 DEF Enqueue
  <2>2. ASSUME NEW d \in 1 .. made PROVE Reads(d)'
    <3>1. PICK c \in IDs : c = listener.id
      BY <1>2, Here DEF Enqueue, ListenerOK
    <3>2. conn' = conn \/ conn' = [conn EXCEPT ![c].queue = @ + 1]
      BY <1>2, <3>1 DEF Enqueue
    <3>3. d \in IDs /\ conn \in [IDs -> ConnRec] /\ conn[d] \in ConnRec
      BY Here
    <3>4. /\ conn'[d].run = conn[d].run /\ conn'[d].udp = conn[d].udp
          /\ conn'[d].resp = conn[d].resp
      BY <3>2, <3>3 DEF ConnRec
    <3> QED BY <3>4 DEF Waits, Reads
  <2> QED BY <2>1, <2>2 DEF Waits, Listening
<1>3. CASE \/ \E a \in Sources : Receive(a)
           \/ ListenEnds \/ GetHit \/ Evicted \/ AllDone \/ CloseBegin \/ CloseListener
           \/ CloseSweep
  <2>1. /\ UNCHANGED <<made, conn>>
        /\ doomed' = doomed \/ doomed' = doomed \cup Live
    BY <1>3 DEF Receive, ListenEnds, GetHit, Evicted, AllDone, CloseBegin, CloseListener, CloseSweep
  <2>2. doomed' \subseteq 1 .. made'
    BY <2>1, LiveMade DEF Waits
  <2>3. \A d \in 1 .. made' : Reads(d)'
    BY <2>1 DEF Waits, Reads
  <2>4. listener' = listener \/ listener'.pc # "evict"
    BY <1>3, Here DEF Receive, ListenEnds, GetHit, Evicted, AllDone, CloseBegin, CloseListener,
                CloseSweep, Listening, ListenerOK
  <2> QED BY <2>1, <2>2, <2>3, <2>4 DEF Waits
<1> QED BY <1>1, <1>2, <1>3 DEF ListenerStep

LEMMA WaitsStep == ForwardInv /\ Waits /\ [Next]_vars => Waits'
<1> SUFFICES ASSUME ForwardInv, Waits, [Next]_vars PROVE Waits'
  OBVIOUS
<1>1. CASE UNCHANGED vars
  BY <1>1 DEF vars, Waits, Reads
<1>2. CASE \E c \in 1 .. made : RunStep(c)
  BY <1>2, RunReads
<1>3. CASE \E c \in 1 .. made : CloseStep(c) \/ Respond(c) \/ ResponsesEnd(c) \/ Janitor(c)
  BY <1>3, CloseReads
<1>4. CASE \/ \E a \in Sources : Receive(a)
           \/ ListenEnds \/ ListenerStep \/ CloseBegin \/ CloseListener \/ CloseSweep
  BY <1>4, ListenerWaits
<1> QED BY <1>1, <1>2, <1>3, <1>4 DEF Next

\* A connection that was made and is closed, or whose forwarder is, can go on until
\* its goroutine has ended.
LEMMA ConnGoesOn ==
  ASSUME ForwardInv, Waits, NEW c \in 1 .. made, Cancelled(c), ~Runs(c, "done")
  PROVE  ConnCanGoOn(c)
<1>1. conn[c] \in ConnRec /\ Reads(c) /\ (conn[c].shut = "done" => conn[c].udp # "open")
  BY Here DEF Waits, Ends
<1>2. /\ conn[c].run \in {"dial", "set", "loop", "write", "close", "quit", "drain"}
      /\ conn[c].resp \in {"none", "read", "done"} /\ conn[c].udp \in {"none", "open", "closed"}
      /\ conn[c].shut \in {"no", "closed", "done"}
  BY <1>1 DEF ConnRec, Reads, Runs
<1>3. CASE conn[c].run \in {"close", "quit"}
  BY <1>1, <1>2, <1>3 DEF ConnCanGoOn, ToClose, Runs, Reads
<1>4. CASE conn[c].run \notin {"close", "quit"}
  BY <1>2, <1>4 DEF ConnCanGoOn, Runs
<1> QED BY <1>3, <1>4

\* So can one that somebody is about to close.
LEMMA DoomedGoesOn ==
  ASSUME ForwardInv, Waits, NEW c \in doomed
  PROVE  ConnCanGoOn(c) /\ c \in 1 .. made
<1>1. c \in 1 .. made /\ conn[c].shut \in {"no", "closed", "done"}
  BY Here DEF Waits, ConnRec
<1> QED BY <1>1 DEF ConnCanGoOn, ToClose

LEMMA GoesOnAlways == ForwardInv /\ Waits => NeverStalls
<1> SUFFICES ASSUME ForwardInv, Waits, Ending PROVE CanGoOn
  BY DEF NeverStalls
<1>1. CASE \E c \in 1 .. made : conn[c].shut # "no" /\ ~Runs(c, "done")
  BY <1>1, ConnGoesOn DEF CanGoOn, Cancelled
<1>2. CASE stopping # "no" /\ listener.pc # "done"
  <2>1. CASE stopping # "swept"
    BY <1>2, <2>1, Here DEF TypeOK, CanGoOn
  <2>2. CASE stopping = "swept" /\ listener.pc = "closing"
    <3>1. CASE \E c \in 1 .. made : ~Runs(c, "done")
      BY <1>2, <3>1, ConnGoesOn DEF CanGoOn, Cancelled
    <3>2. CASE doomed # {}
      BY <3>2, DoomedGoesOn DEF CanGoOn
    <3> QED BY <2>2, <3>1, <3>2 DEF CanGoOn, ListenerCanGoOn
  <2>3. CASE stopping = "swept" /\ listener.pc = "evict"
    <3>1. CASE listener.victim \in doomed
      BY <3>1, DoomedGoesOn DEF CanGoOn
    <3> QED BY <2>3, <3>1 DEF Waits, CanGoOn, ListenerCanGoOn
  <2>4. listener.pc \in {"read", "get", "evict", "enqueue", "closing", "done"}
    BY Here DEF ListenerOK
  <2> QED BY <1>2, <2>1, <2>2, <2>3, <2>4 DEF CanGoOn, ListenerCanGoOn
<1> QED BY <1>1, <1>2 DEF Ending

\* As long as what was closed has not come to its end, some goroutine can go on, with
\* any number of sources, connections and datagrams: nobody waits in a circle for
\* the listener, a reader, a socket or another close (startUDPForward, close).
THEOREM NeverStallsCorrect == Spec => []NeverStalls
<1>1. Spec => []Waits
  BY InitWaits, WaitsStep, ForwardAlways, PTL DEF Spec
<1> QED BY <1>1, GoesOnAlways, ForwardAlways, PTL

=============================================================================

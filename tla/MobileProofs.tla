---------------------------- MODULE MobileProofs ----------------------------
(***************************************************************************)
(* What runs on a phone, for every value of the constants: the pool keeps  *)
(* the names of its fake addresses, the layer-3 connection of EasyConnect  *)
(* tells the host of every end, the EasyConnect client's session, token    *)
(* and address stay together, and so does all that with the session of     *)
(* SessionProofs beside it.                                                *)
(***************************************************************************)
EXTENDS MCMobile, SessionProofs, WellFoundedInduction, FiniteSetTheorems

(***************************************************************************)
(* The pool: a fake address keeps its name, for every range, every set of  *)
(* hosts and every address the gateway may give. PoolInv adds that the     *)
(* addresses in use lie behind the counter.                                *)
(***************************************************************************)

USE IPPoolAssumption

PoolInv == PoolTypeOK /\ Allocated /\ OfUnpinned

LEMMA PoolInitInv == PoolInit => PoolInv
BY DEF PoolInit, PoolInv, PoolTypeOK, Addresses, Allocated, OfUnpinned

LEMMA PoolStepInv == PoolInv /\ [PoolNext]_poolVars => PoolInv'
<1>. SUFFICES ASSUME PoolInv, [PoolNext]_poolVars PROVE PoolInv'
  OBVIOUS
<1>0. PoolTypeOK /\ Allocated /\ OfUnpinned /\ Addresses \subseteq Nat /\ currentIP \in Nat
  BY DEF PoolInv, PoolTypeOK, Addresses
<1>1. ASSUME NEW h \in Hosts, NEW ip \in PinnedIPs, SetIPDomain(h, ip)
      PROVE PoolInv'
  <2>1. PoolTypeOK'
    BY <1>0, <1>1 DEF SetIPDomain, PoolTypeOK, Addresses
  <2>2. Allocated'
    BY <1>0, <1>1 DEF SetIPDomain, Allocated, PoolTypeOK, Addresses
  <2>3. OfUnpinned'
    BY <1>0, <1>1 DEF SetIPDomain, OfUnpinned, PoolTypeOK
  <2>4. QED
    BY <2>1, <2>2, <2>3 DEF PoolInv
<1>2. ASSUME NEW h \in Hosts, GenerateAgain(h)
      PROVE PoolInv'
  <2>1. PoolTypeOK'
    BY <1>0, <1>2 DEF GenerateAgain, PoolTypeOK
  <2>2. Allocated'
    BY <1>0, <1>2 DEF GenerateAgain, Allocated
  <2>3. OfUnpinned'
    BY <1>0, <1>2 DEF GenerateAgain, OfUnpinned
  <2>4. QED
    BY <2>1, <2>2, <2>3 DEF PoolInv
<1>3. ASSUME NEW h \in Hosts, GenerateNew(h)
      PROVE PoolInv'
  <2>1. PoolTypeOK'
    BY <1>0, <1>3 DEF GenerateNew, PoolTypeOK, Addresses
  <2>2. Allocated'
    \* The address is new: every other host's lies before it.
    <3>1. ASSUME NEW g \in Hosts \ PinnedHosts, g # h, domainToIP'[g] # Nil
          PROVE /\ domainToIP'[g] < currentIP'
                /\ domainToIP'[g] \notin PinnedIPs => ipToDomain'[domainToIP'[g]] = g
      <4>1. domainToIP'[g] = domainToIP[g] /\ domainToIP[g] < currentIP
        BY <1>0, <1>3, <3>1 DEF GenerateNew, Allocated, PoolTypeOK
      <4>2. domainToIP[g] \in Addresses /\ domainToIP[g] # currentIP
        BY <1>0, <4>1, <3>1 DEF PoolTypeOK
      <4>3. domainToIP[g] \in Nat /\ currentIP \in Nat
        BY <1>0, <4>2
      <4>4. domainToIP'[g] < currentIP'
        <5>1. currentIP' = currentIP + 1
          BY <1>3 DEF GenerateNew
        <5>2. \A m, n \in Nat : m < n => m < n + 1
          OBVIOUS
        <5>3. QED
          BY <4>1, <4>3, <5>1, <5>2
      <4>5. ASSUME domainToIP[g] \notin PinnedIPs
            PROVE ipToDomain'[domainToIP[g]] = g
        <5>1. ipToDomain[domainToIP[g]] = g
          BY <1>0, <3>1, <4>1, <4>5 DEF Allocated
        <5>2. ipToDomain'[domainToIP[g]] = ipToDomain[domainToIP[g]]
          BY <1>0, <1>3, <4>2 DEF GenerateNew, PoolTypeOK
        <5>3. QED
          BY <5>1, <5>2
      <4>6. QED
        BY <4>1, <4>4, <4>5
    <3>2. /\ domainToIP'[h] < currentIP'
          /\ ipToDomain'[domainToIP'[h]] = h
      BY <1>0, <1>3 DEF GenerateNew, PoolTypeOK, Addresses
    <3>3. QED
      BY <3>1, <3>2 DEF Allocated
  <2>3. OfUnpinned'
    BY <1>0, <1>3 DEF GenerateNew, OfUnpinned, PoolTypeOK, Addresses
  <2>4. QED
    BY <2>1, <2>2, <2>3 DEF PoolInv
<1>4. CASE Clear
  BY <1>4 DEF Clear, PoolInv, PoolTypeOK, Addresses, Allocated, OfUnpinned
<1>5. CASE UNCHANGED poolVars
  BY <1>0, <1>5 DEF poolVars, PoolInv, PoolTypeOK, Allocated, OfUnpinned
<1>6. QED
  BY <1>1, <1>2, <1>3, <1>4, <1>5 DEF PoolNext

LEMMA PoolInvHolds == PoolSpec => []PoolInv
BY PoolInitInv, PoolStepInv, PTL DEF PoolSpec

\* The maps and the counter keep their types (ippool.go:16).
THEOREM PoolTypeCorrect == PoolSpec => []PoolTypeOK
<1>1. PoolInv => PoolTypeOK
  BY DEF PoolInv
<1> QED BY <1>1, PoolInvHolds, PTL

LEMMA PoolPromise == PoolInv => FakeNames
BY DEF PoolInv, Allocated, OfUnpinned, FakeNames, Addresses, PoolTypeOK

\* A fake address keeps naming the host it was answered for, until Clear
\* (ippool.go:66).
THEOREM FakeNamesHold == PoolSpec => []FakeNames
BY PoolPromise, PoolInvHolds, PTL

HIDE IPPoolAssumption

(***************************************************************************)
(* The host is told of every end, for every number of reconnects and every *)
(* set of goroutines that write: an end before Stack.Close is reported,    *)
(* and the goroutine whose redial failed reports it once it has released   *)
(* sendLock.                                                               *)
(***************************************************************************)

USE ECStreamAssumption

\* A reconnect is under way only while one is left.
Reconnects ==
  /\ \A w \in Senders : writer[w] = "redial" => errs.send < MaxErrors
  /\ run = "redial" => errs.recv < MaxErrors

\* The netstack has the connection only after NewL3Conn, which asks for recvConn
\* with a sendConn in hand.
Handed ==
  /\ l3Conn => run \notin {"send", "recv"}
  /\ run = "recv" => send # "nil"
  /\ \A w \in Senders : writer[w] # "idle" => l3Conn

StreamInv == StreamTypeOK /\ Reconnects /\ Handed /\ HostTold

LEMMA StreamInitInv == StreamInit => StreamInv
<1>1. StreamInit => StreamTypeOK
  <2>1. ASSUME NEW none \in Nat, none = 0
        PROVE  [send |-> none, recv |-> none] \in [send : 0 .. MaxErrors, recv : 0 .. MaxErrors]
    <3>1. none \in 0 .. MaxErrors
      BY <2>1
    <3> QED BY <3>1
  <2>2. StreamInit => errs \in [send : 0 .. MaxErrors, recv : 0 .. MaxErrors]
    BY <2>1 DEF StreamInit
  <2> QED BY <2>2 DEF StreamInit, StreamTypeOK
<1> QED BY <1>1 DEF StreamInit, StreamInv, Reconnects, Handed, HostTold

\* A writer that does not take sendLock leaves the others as they are.
LEMMA WritersType ==
  ASSUME StreamTypeOK, NEW w \in Senders, NEW at \in {"idle", "redial", "report"},
         GoesTo(w, at), at = "redial" => Unlocked
  PROVE  /\ writer' \in [Senders -> {"idle", "redial", "report"}]
         /\ writer'[w] = at /\ \A v \in Senders \ {w} : writer'[v] = writer[v]
         /\ \A u, v \in Senders : writer'[u] = "redial" /\ writer'[v] = "redial" => u = v
<1>1. writer \in [Senders -> {"idle", "redial", "report"}]
  BY DEF StreamTypeOK
<1>2. /\ writer' \in [Senders -> {"idle", "redial", "report"}]
      /\ writer'[w] = at /\ \A v \in Senders \ {w} : writer'[v] = writer[v]
  BY <1>1 DEF GoesTo
<1>3. ASSUME NEW u \in Senders, NEW v \in Senders, writer'[u] = "redial", writer'[v] = "redial"
      PROVE  u = v
  <2>1. CASE at = "redial"
    BY <1>2, <1>3, <2>1 DEF Unlocked
  <2>2. CASE at # "redial"
    BY <1>2, <1>3, <2>2 DEF StreamTypeOK
  <2> QED BY <2>1, <2>2
<1> QED BY <1>2, <1>3

LEMMA StreamTypes == StreamTypeOK /\ Reconnects /\ [StreamNext]_streamVars => StreamTypeOK'
<1> SUFFICES ASSUME StreamTypeOK, Reconnects, [StreamNext]_streamVars PROVE StreamTypeOK'
  OBVIOUS
<1>1. CASE NewSendConn \/ NewRecvConn \/ ReadFails \/ RunReturns \/ Breaks
  BY <1>1 DEF NewSendConn, NewRecvConn, ReadFails, RunReturns, Breaks, Handshake, Stops,
              StreamTypeOK
<1>2. CASE RecvAgain
  <2>1. errs' \in [send : 0 .. MaxErrors, recv : 0 .. MaxErrors]
    BY <1>2 DEF RecvAgain, Reconnects, StreamTypeOK
  <2> QED BY <1>2, <2>1 DEF RecvAgain, Handshake, Stops, StreamTypeOK
<1>3. ASSUME NEW w \in Senders, Write(w) PROVE StreamTypeOK'
  <2>1. CASE UNCHANGED writer
    BY <1>3, <2>1 DEF Write, Stops, StreamTypeOK
  <2>2. CASE GoesTo(w, "redial")
    BY <1>3, <2>2, WritersType DEF Write, Stops, StreamTypeOK
  <2>3. CASE GoesTo(w, "report")
    BY <1>3, <2>3, WritersType DEF Write, Stops, StreamTypeOK
  <2> QED BY <1>3, <2>1, <2>2, <2>3 DEF Write
<1>4. ASSUME NEW w \in Senders, SendAgain(w) PROVE StreamTypeOK'
  <2>1. errs' \in [send : 0 .. MaxErrors, recv : 0 .. MaxErrors]
    BY <1>4 DEF SendAgain, Reconnects, StreamTypeOK
  <2>2. CASE GoesTo(w, "idle")
    BY <1>4, <2>1, <2>2, WritersType DEF SendAgain, Handshake, Stops, StreamTypeOK
  <2>3. CASE GoesTo(w, "report")
    BY <1>4, <2>1, <2>3, WritersType DEF SendAgain, Handshake, Stops, StreamTypeOK
  <2> QED BY <1>4, <2>2, <2>3 DEF SendAgain
<1>5. ASSUME NEW w \in Senders, Report(w) PROVE StreamTypeOK'
  BY <1>5, WritersType DEF Report, Stops, StreamTypeOK
<1>6. CASE StackClose \/ ClientCloses \/ UNCHANGED streamVars
  BY <1>6 DEF StackClose, ClientCloses, streamVars, StreamTypeOK
<1>7. CASE CloseSend \/ CloseRecv
  BY <1>7 DEF CloseSend, CloseRecv, Closes, StreamTypeOK
<1> QED BY <1>1, <1>2, <1>3, <1>4, <1>5, <1>6, <1>7 DEF StreamNext

LEMMA StreamStepInv == StreamInv /\ [StreamNext]_streamVars => StreamInv'
<1> SUFFICES ASSUME StreamInv, [StreamNext]_streamVars PROVE StreamInv'
  OBVIOUS
<1>0. StreamTypeOK /\ Reconnects /\ Handed /\ HostTold /\ StreamTypeOK'
  BY StreamTypes DEF StreamInv
<1> SUFFICES Reconnects' /\ Handed' /\ HostTold'
  BY <1>0 DEF StreamInv
<1>1. CASE NewSendConn
  BY <1>0, <1>1 DEF NewSendConn, Handshake, Stops, Reconnects, Handed, HostTold
<1>2. CASE NewRecvConn
  <2>1. l3Conn' => send' # "nil" /\ recv' = "open" /\ run' = "read"
    BY <1>0, <1>2 DEF NewRecvConn, Handed
  <2>3. \A w \in Senders : writer[w] = "idle"
    BY <1>0, <1>2 DEF NewRecvConn, Handed
  <2>2. run' # "returned" /\ run' # "recv" /\ run' # "redial" /\ UNCHANGED <<errs, writer>>
    BY <1>2 DEF NewRecvConn
  <2>4. Reconnects'
    BY <1>0, <2>2 DEF Reconnects
  <2>5. Handed'
    BY <2>1, <2>2, <2>3 DEF Handed
  <2>6. HostTold'
    BY <2>1, <2>2 DEF HostTold
  <2> QED BY <2>4, <2>5, <2>6
<1>3. CASE ReadFails
  BY <1>0, <1>3 DEF ReadFails, Fails, Stops, Reconnects, Handed, HostTold
<1>4. CASE RecvAgain
  <2>1. Reconnects'
    BY <1>0, <1>4 DEF RecvAgain, Reconnects, StreamTypeOK
  <2> QED BY <1>0, <1>4, <2>1 DEF RecvAgain, Handshake, Stops, Handed, HostTold
<1>5. CASE RunReturns
  BY <1>0, <1>5 DEF RunReturns, Stops, Reconnects, Handed, HostTold
<1>6. CASE Breaks
  BY <1>0, <1>6 DEF Breaks, Stops, Reconnects, Handed, HostTold
<1>7. ASSUME NEW w \in Senders, Write(w) PROVE Reconnects' /\ Handed' /\ HostTold'
  <2>0. UNCHANGED <<recv, errs, run, l3Conn, told, stopped>> /\ l3Conn /\ writer[w] = "idle"
    BY <1>7 DEF Write, Stops
  <2>1. CASE UNCHANGED <<send, writer>>
    BY <1>0, <2>0, <2>1 DEF Reconnects, Handed, HostTold
  <2>2. CASE errs.send < MaxErrors /\ send' = "closed" /\ GoesTo(w, "redial")
    <3>1. /\ writer'[w] = "redial"
          /\ \A v \in Senders \ {w} : writer'[v] = writer[v]
      BY <1>0, <2>2 DEF GoesTo, StreamTypeOK
    <3> QED BY <1>0, <2>0, <2>2, <3>1 DEF Reconnects, Handed, HostTold
  <2>3. CASE send' = send /\ send # "nil" /\ GoesTo(w, "report")
    <3>1. /\ writer'[w] = "report"
          /\ \A v \in Senders \ {w} : writer'[v] = writer[v]
      BY <1>0, <2>3 DEF GoesTo, StreamTypeOK
    <3> QED BY <1>0, <2>0, <2>3, <3>1 DEF Reconnects, Handed, HostTold
  <2> QED BY <1>7, <2>1, <2>2, <2>3 DEF Write, Fails
<1>8. ASSUME NEW w \in Senders, SendAgain(w) PROVE Reconnects' /\ Handed' /\ HostTold'
  <2>0. /\ UNCHANGED <<recv, run, l3Conn, told, stopped>> /\ writer[w] = "redial"
        /\ l3Conn /\ run # "recv"
    BY <1>0, <1>8 DEF SendAgain, Stops, Handed
  <2>1. \A v \in Senders \ {w} : writer'[v] = writer[v] /\ writer[v] # "redial"
    BY <1>0, <1>8, <2>0 DEF SendAgain, GoesTo, StreamTypeOK
  <2>2. CASE send' = "open" /\ errs' = [errs EXCEPT !.send = @ + 1] /\ GoesTo(w, "idle")
    <3>1. writer'[w] = "idle" /\ errs'.recv = errs.recv
      BY <1>0, <2>2 DEF GoesTo, StreamTypeOK
    <3> QED BY <1>0, <2>0, <2>1, <2>2, <3>1 DEF Reconnects, Handed, HostTold
  <2>3. CASE send' = "nil" /\ UNCHANGED errs /\ GoesTo(w, "report")
    <3>1. writer'[w] = "report"
      BY <1>0, <2>3 DEF GoesTo, StreamTypeOK
    <3> QED BY <1>0, <2>0, <2>1, <2>3, <3>1 DEF Reconnects, Handed, HostTold
  <2> QED BY <1>8, <2>2, <2>3 DEF SendAgain, Handshake
<1>9. ASSUME NEW w \in Senders, Report(w) PROVE Reconnects' /\ Handed' /\ HostTold'
  BY <1>0, <1>9 DEF Report, GoesTo, Stops, Reconnects, Handed, HostTold, StreamTypeOK
<1>10. CASE StackClose \/ ClientCloses \/ UNCHANGED streamVars
  BY <1>0, <1>10 DEF StackClose, ClientCloses, streamVars, Reconnects, Handed, HostTold
<1>11. CASE CloseSend \/ CloseRecv
  BY <1>0, <1>11 DEF CloseSend, CloseRecv, Closes, Reconnects, Handed, HostTold
<1> QED BY <1>1, <1>2, <1>3, <1>4, <1>5, <1>6, <1>7, <1>8, <1>9, <1>10, <1>11 DEF StreamNext

\* The host learns of every end but its own, for every number of reconnects and of
\* goroutines that write: Run does not return without telling it, and of a connection
\* that could not be made again it was told or is about to be (gvisor/mobile.go:33).
THEOREM HostToldCorrect == StreamSpec => []HostTold
<1>1. StreamInv => HostTold
  BY DEF StreamInv
<1> QED BY <1>1, StreamInitInv, StreamStepInv, PTL DEF StreamSpec

HIDE ECStreamAssumption

(***************************************************************************)
(* The EasyConnect client. findBestLine first: by induction over the lines *)
(* in their order, the best one so far is a line as soon as one of them    *)
(* has answered, for every number of lines and whatever the pings took.    *)
(***************************************************************************)

\* A set of natural numbers that is not empty has a least one.
LEMMA FirstOf ==
  ASSUME NEW Wrong, Wrong \subseteq Nat, NEW some \in Wrong
  PROVE  \E n \in Wrong : \A m \in Nat : m < n => m \notin Wrong
<1>1. IsWellFoundedOn(OpToRel(<, Nat), Nat)
  BY NatLessThanWellFounded
<1>2. \A m, n \in Nat : m < n => <<m, n>> \in OpToRel(<, Nat)
  BY DEF OpToRel
<1>3. PICK n \in Wrong : \A m \in Wrong : <<m, n>> \notin OpToRel(<, Nat)
  BY <1>1, WFMin, Zenon
<1> QED BY <1>2, <1>3, Zenon

\* The best line once line i has been looked at, and after each of the first n.
With(b, i, list, took) ==
  IF i \in DOMAIN took /\ Improves(b, took[i])
  THEN [line |-> list[i], ms |-> took[i]] ELSE b
BestSoFar(best, n, list, took) ==
  best = [i \in 0 .. n |-> IF i = 0 THEN [line |-> "none", ms |-> 0]
                           ELSE With(best[i - 1], i, list, took)]

\* There is such a function for every n.
LEMMA BestExists ==
  ASSUME NEW list, NEW took, NEW n \in Nat
  PROVE  \E best : BestSoFar(best, n, list, took)
<1> DEFINE Wrong == {m \in Nat : ~ \E best : BestSoFar(best, m, list, took)}
<1> SUFFICES ASSUME NEW some \in Wrong PROVE FALSE
  OBVIOUS
<1>1. PICK m \in Wrong : \A l \in Nat : l < m => l \notin Wrong
  <2>1. Wrong \subseteq Nat
    OBVIOUS
  <2> HIDE DEF Wrong
  <2> QED BY <2>1, FirstOf
<1>2. m \in Nat /\ ~ \E best : BestSoFar(best, m, list, took)
  OBVIOUS
<1>3. CASE m = 0
  <2> DEFINE g == [i \in 0 .. 0 |-> [line |-> "none", ms |-> 0]]
  <2>1. BestSoFar(g, 0, list, took)
    BY DEF BestSoFar
  <2> QED BY <1>2, <1>3, <2>1
<1>4. CASE m # 0
  <2>1. m - 1 \in Nat /\ m - 1 < m /\ m - 1 \notin Wrong
    BY <1>1, <1>2, <1>4
  <2>2. PICK f : BestSoFar(f, m - 1, list, took)
    BY <2>1
  <2> DEFINE g == [i \in 0 .. m |-> IF i = m THEN With(f[m - 1], m, list, took) ELSE f[i]]
  <2>3. ASSUME NEW i \in 0 .. m
        PROVE  g[i] = IF i = 0 THEN [line |-> "none", ms |-> 0] ELSE With(g[i - 1], i, list, took)
    <3>1. i = m \/ i \in 0 .. (m - 1)
      BY <1>2
    <3>2. i # 0 => i - 1 \in 0 .. m /\ i - 1 # m /\ g[i - 1] = f[i - 1]
      BY <1>2
    <3>3. CASE i = m
      BY <1>4, <3>2, <3>3
    <3>4. CASE i \in 0 .. (m - 1)
      <4>1. i # m
        BY <1>2, <3>4
      <4>2. f[i] = IF i = 0 THEN [line |-> "none", ms |-> 0] ELSE With(f[i - 1], i, list, took)
        BY <2>2, <3>4, Zenon DEF BestSoFar
      <4>3. g[i] = f[i]
        BY <4>1
      <4> HIDE DEF g
      <4> QED BY <3>2, <4>2, <4>3
    <3> QED BY <3>1, <3>3, <3>4
  <2>4. g = [i \in 0 .. m |-> g[i]]
    OBVIOUS
  <2> HIDE DEF g
  <2>5. BestSoFar(g, m, list, took)
    BY <2>3, <2>4, Zenon DEF BestSoFar
  <2> QED BY <1>2, <2>5
<1> QED BY <1>3, <1>4

\* It is a line, or none of the targets so far has answered.
Chosen(b) == b.line \in Lines /\ b.ms \in Nat
NoneYet(b, i, took) == b.ms = 0 /\ \A j \in 1 .. i : j \notin DOMAIN took

LEMMA BestStarts ==
  ASSUME NEW list \in Seq(Lines), NEW took, NEW best, BestSoFar(best, Len(list), list, took)
  PROVE  NoneYet(best[0], 0, took)
<1>1. 0 \in 0 .. Len(list)
  OBVIOUS
<1>2. best[0] = [line |-> "none", ms |-> 0]
  BY <1>1, Zenon DEF BestSoFar
<1> QED BY <1>2 DEF NoneYet

LEMMA BestGoesOn ==
  ASSUME NEW list \in Seq(Lines), NEW took, NEW best, BestSoFar(best, Len(list), list, took),
         \A j \in DOMAIN took : took[j] \in Nat,
         NEW i \in 1 .. Len(list),
         Chosen(best[i - 1]) \/ NoneYet(best[i - 1], i - 1, took)
  PROVE  Chosen(best[i]) \/ NoneYet(best[i], i, took)
<1>1. i \in 0 .. Len(list) /\ i # 0 /\ list[i] \in Lines
  OBVIOUS
<1>2. best[i] = With(best[i - 1], i, list, took)
  BY <1>1, Zenon DEF BestSoFar
<1>3. CASE i \in DOMAIN took /\ Improves(best[i - 1], took[i])
  BY <1>1, <1>2, <1>3 DEF Chosen, With
<1>4. CASE ~ (i \in DOMAIN took /\ Improves(best[i - 1], took[i]))
  <2>1. best[i] = best[i - 1]
    BY <1>2, <1>4 DEF With
  <2>2. CASE NoneYet(best[i - 1], i - 1, took)
    <3>1. i \notin DOMAIN took
      BY <1>4, <2>2 DEF NoneYet, Improves
    <3>2. \A j \in 1 .. i : j = i \/ j \in 1 .. (i - 1)
      OBVIOUS
    <3> QED BY <2>1, <2>2, <3>1, <3>2 DEF NoneYet
  <2> QED BY <2>1, <2>2
<1> QED BY <1>3, <1>4

LEMMA BestAfter ==
  ASSUME NEW list \in Seq(Lines), NEW took, NEW best, BestSoFar(best, Len(list), list, took),
         \A j \in DOMAIN took : took[j] \in Nat
  PROVE  \A i \in 0 .. Len(list) : Chosen(best[i]) \/ NoneYet(best[i], i, took)
<1> DEFINE Wrong == {i \in 0 .. Len(list) : ~ (Chosen(best[i]) \/ NoneYet(best[i], i, took))}
<1> SUFFICES ASSUME NEW some \in Wrong PROVE FALSE
  OBVIOUS
<1>1. PICK i \in Wrong : \A m \in Nat : m < i => m \notin Wrong
  <2>1. Wrong \subseteq Nat
    OBVIOUS
  <2> HIDE DEF Wrong
  <2> QED BY <2>1, FirstOf
<1>2. i # 0
  BY BestStarts
<1>3. i \in 1 .. Len(list) /\ i - 1 \in 0 .. Len(list) /\ i - 1 \in Nat /\ i - 1 < i
  BY <1>2
<1>4. Chosen(best[i - 1]) \/ NoneYet(best[i - 1], i - 1, took)
  BY <1>1, <1>3
<1> QED BY <1>3, <1>4, BestGoesOn

\* findBestLine returns one of the lines whenever a target has answered.
LEMMA BestLineIsLine ==
  ASSUME IsFiniteSet(Lines), Latencies \subseteq Nat,
         NEW list \in Orders, NEW up \in (SUBSET DOMAIN list) \ {{}}, NEW took \in [up -> Latencies]
  PROVE  FindBestLine(list, took).line \in Lines
<1>1. list \in Seq(Lines) /\ DOMAIN list = 1 .. Len(list) /\ Len(list) \in Nat
  <2>1. Cardinality(Lines) \in Nat
    BY FS_CardinalityType
  <2> QED BY <2>1 DEF Orders
<1> DEFINE best == CHOOSE b : BestSoFar(b, Len(list), list, took)
<1>2. FindBestLine(list, took) = best[Len(list)]
  BY Zenon DEF FindBestLine, BestSoFar, With
<1>3. BestSoFar(best, Len(list), list, took)
  BY <1>1, BestExists
<1> HIDE DEF best
<1>4. \A j \in DOMAIN took : took[j] \in Nat
  OBVIOUS
<1>5. Len(list) \in 0 .. Len(list)
  BY <1>1
<1>6. Chosen(best[Len(list)]) \/ NoneYet(best[Len(list)], Len(list), took)
  BY <1>1, <1>3, <1>4, <1>5, BestAfter
<1>7. PICK j \in 1 .. Len(list) : j \in DOMAIN took
  BY <1>1
<1> QED BY <1>2, <1>6, <1>7 DEF Chosen, NoneYet

(***************************************************************************)
(* Setup. The invariant says what the client has at each step of Setup:    *)
(* from the token on it is the one of its TwfID, from the address on it is *)
(* of the line in use, and every open raw connection is in one hand only.  *)
(***************************************************************************)

SessionsOf == [line : Lines, ok : BOOLEAN]
Asking == DOMAIN NextCommand

\* The types, with those of the lists and of the dial.
ECTyped ==
  /\ ECTypeOK
  /\ ecSrv \in Seq(SessionsOf) /\ ecMade \in Seq(Lines)
  /\ ecDial \in [at : Asking \cup {"off", "connected", "failed"}, conn : 0 .. Len(ecMade)]

\* The steps of Setup that have a TwfID, a token, a connection for the address.
LoggingIn == {"captcha", "psw", "sms", "smsCode", "sms1", "totpCode", "totp", "cert", "cert1"}
WithToken == {"rclist", "address", "ip", "ipReply", "keepConn", "started"}
WithTwfID == LoggingIn \cup {"session", "probe", "token", "tokenReply"} \cup WithToken
Making == {"tokenReply", "ipReply", "keepConn"}

\* The connection of the address is of the line in use, for an authorised session.
AddressHeld ==
  ecCl.ipConn # 0 /\ ~ecCl.tcpOnly =>
    ecMade[ecCl.ipConn] = ecCl.server /\ ecSrv[ecCl.token].ok

\* What the client has at each step, and after a Setup that succeeded.
Stage ==
  /\ ecAt \in WithTwfID => ecCl.twfID # 0
  /\ ecAt \in WithToken => ecCl.token = ecCl.twfID
  /\ ecCl.making # 0 <=> ecAt \in Making
  /\ ecAt = "keepConn" => ecSrv[ecCl.token].ok
  /\ ecAt = "started" => AddressHeld
  /\ ecRuns.ended = "ready" => /\ ecAt = "idle" /\ ecCl.twfID # 0
                               /\ ecCl.token = ecCl.twfID /\ AddressHeld

\* The TwfID and the connection being made are of the line in use.
OfLine ==
  /\ ecCl.twfID # 0 => ecSrv[ecCl.twfID].line = ecCl.server
  /\ ecCl.making # 0 => ecMade[ecCl.making] = ecCl.server

\* Each raw connection is in one hand.
OneHand ==
  /\ ecCl.making # 0 => ecCl.making # ecCl.ipConn /\ ecCl.making # ecDial.conn
  /\ ecCl.ipConn # 0 => ecCl.ipConn # ecDial.conn
  /\ ecDial.at \in Asking => ecDial.conn # 0
  /\ ecDial.at = "off" => ecDial.conn = 0
  /\ ecClose = "done" => ecCl.ipConn = 0 \/ ecCl.making = 0

ECInv == ECTyped /\ Stage /\ OfLine /\ OneHand /\ RawHeld

LEMMA ECPromise == ECInv => ECTypeOK /\ ECInStep
<1> SUFFICES ASSUME ECInv PROVE ECTypeOK /\ OneLine /\ RawHeld /\ ClosedLeavesOne
  BY DEF ECInStep
<1>1. OneLine
  <2> SUFFICES ASSUME ecRuns.ended = "ready"
               PROVE  /\ ecCl.token = ecCl.twfID /\ ecSrv[ecCl.token].line = ecCl.server
                      /\ AddressHeld
    BY DEF OneLine, AddressHeld
  <2> QED BY DEF ECInv, Stage, OfLine
\* Once the client is closed, one of the two is empty, and the other is what is left.
<1>2. ClosedLeavesOne
  BY DEF ECInv, OneHand, RawHeld, ClosedLeavesOne
<1> QED BY <1>1, <1>2 DEF ECInv, ECTyped

LEMMA ECInitInv == ECInit => ECInv
<1> SUFFICES ASSUME ECInit PROVE ECInv
  OBVIOUS
<1>1. /\ ecAt = "idle" /\ ecNet = {} /\ ecMade = <<>> /\ ecTick = "off"
      /\ ecDial = [at |-> "off", conn |-> 0] /\ ecClose = "no"
      /\ ecRuns = [calls |-> 0, ended |-> "no"]
  BY DEF ECInit
<1>2. PICK creds, hasID, multi, fetch \in BOOLEAN :
        /\ ecSrv = IF hasID THEN <<[line |-> Home, ok |-> TRUE]>> ELSE <<>>
        /\ ecCl = [creds |-> creds, server |-> Home, twfID |-> Len(ecSrv), multi |-> multi,
                   fetch |-> fetch, tcpOnly |-> FALSE, token |-> 0, making |-> 0, ipConn |-> 0]
  BY DEF ECInit
<1>3. Home \in Lines /\ MaxSetups \in Nat
  BY EasyConnectAssumption
<1>4. /\ ecSrv \in Seq(SessionsOf) /\ Len(ecSrv) \in Nat
      /\ Len(ecSrv) # 0 => ecSrv[Len(ecSrv)].line = Home
  <2>1. CASE hasID
    <3> DEFINE first == [line |-> Home, ok |-> TRUE]
    <3>1. first \in SessionsOf /\ first.line = Home
      BY <1>3 DEF SessionsOf
    <3> HIDE DEF first
    <3>2. <<first>> \in Seq(SessionsOf) /\ Len(<<first>>) = 1 /\ <<first>>[1] = first
      BY <3>1
    <3>3. ecSrv = <<first>>
      BY <1>2, <2>1 DEF first
    <3> QED BY <3>1, <3>2, <3>3
  <2>2. CASE ~hasID
    BY <1>2, <2>2
  <2> QED BY <2>1, <2>2
<1>5. ecMade \in Seq(Lines) /\ Len(ecMade) = 0
  BY <1>1
<1>6. ECTyped
  <2>1. 0 \in 0 .. Len(ecSrv) /\ Len(ecSrv) \in 0 .. Len(ecSrv) /\ 0 \in 0 .. Len(ecMade)
        /\ 0 \in 0 .. MaxSetups
    BY <1>3, <1>4, <1>5
  <2>2. ecCl \in [creds : BOOLEAN, server : Lines,
                  twfID : 0 .. Len(ecSrv), multi : BOOLEAN, fetch : BOOLEAN, tcpOnly : BOOLEAN,
                  token : 0 .. Len(ecSrv), making : 0 .. Len(ecMade), ipConn : 0 .. Len(ecMade)]
    BY <1>2, <1>3, <2>1
  <2>3. /\ \A i \in DOMAIN ecSrv : ecSrv[i] \in SessionsOf
        /\ \A i \in DOMAIN ecMade : ecMade[i] \in Lines
    BY <1>4, <1>5
  <2>4. ecDial \in [at : Asking \cup {"off", "connected", "failed"}, conn : 0 .. Len(ecMade)]
    BY <1>1, <2>1
  <2>5. ecRuns \in [calls : 0 .. MaxSetups, ended : {"no", "ready", "error"}]
    BY <1>1, <2>1
  <2>6. ecDial.at \in DOMAIN NextCommand \cup {"off", "connected", "failed"}
    BY <1>1
  <2> QED BY <1>1, <1>4, <1>5, <2>2, <2>3, <2>4, <2>5, <2>6 DEF ECTyped, ECTypeOK, SessionsOf
<1>7. ecCl.making = 0 /\ ecCl.ipConn = 0 /\ ecCl.twfID = Len(ecSrv) /\ ecCl.server = Home
  BY <1>2
<1>8. ecDial.conn = 0 /\ ecDial.at = "off" /\ ecRuns.ended = "no"
  BY <1>1
<1>9. Stage
  BY <1>1, <1>7, <1>8 DEF Stage, WithTwfID, LoggingIn, WithToken, Making
<1>10. OfLine
  BY <1>4, <1>7 DEF OfLine
<1>11. OneHand /\ RawHeld
  BY <1>1, <1>7, <1>8 DEF OneHand, RawHeld, Asking, NextCommand
<1> QED BY <1>6, <1>9, <1>10, <1>11 DEF ECInv

ClientRec(ids, raws) ==
  [creds : BOOLEAN, server : Lines, twfID : 0 .. ids,
   multi : BOOLEAN, fetch : BOOLEAN, tcpOnly : BOOLEAN, token : 0 .. ids,
   making : 0 .. raws, ipConn : 0 .. raws]
DialRec(raws) == [at : Asking \cup {"off", "connected", "failed"}, conn : 0 .. raws]
RunsRec == [calls : 0 .. MaxSetups, ended : {"no", "ready", "error"}]
Steps == Failing \cup {"idle", "session", "probe", "tokenReply", "rclist", "address",
                       "ipReply", "keepConn", "started"}

LEMMA ECTyping ==
  ECTyped <=> /\ ecAt \in Steps /\ ecCl \in ClientRec(Len(ecSrv), Len(ecMade))
              /\ ecSrv \in Seq(SessionsOf) /\ ecMade \in Seq(Lines)
              /\ ecNet \subseteq 1 .. Len(ecMade)
              /\ ecTick \in {"off", "wait", "asking", "done"}
              /\ ecDial \in DialRec(Len(ecMade))
              /\ ecClose \in {"no", "cancelled", "done"} /\ ecRuns \in RunsRec
<1>1. ecSrv \in Seq(SessionsOf) => \A i \in DOMAIN ecSrv : ecSrv[i] \in SessionsOf
  OBVIOUS
<1>2. ecMade \in Seq(Lines) => \A i \in DOMAIN ecMade : ecMade[i] \in Lines
  OBVIOUS
<1>3. ecDial \in DialRec(Len(ecMade)) => ecDial.at \in Asking \cup {"off", "connected", "failed"}
  BY DEF DialRec
<1> QED BY <1>1, <1>2, <1>3, Zenon
        DEF ECTyped, ECTypeOK, ClientRec, DialRec, RunsRec, Steps, SessionsOf, Asking

\* The same of the next state.
LEMMA ECTypingNext ==
  ASSUME ecAt' \in Steps, ecCl' \in ClientRec(Len(ecSrv'), Len(ecMade')),
         ecSrv' \in Seq(SessionsOf), ecMade' \in Seq(Lines), ecNet' \subseteq 1 .. Len(ecMade'),
         ecTick' \in {"off", "wait", "asking", "done"}, ecDial' \in DialRec(Len(ecMade')),
         ecClose' \in {"no", "cancelled", "done"}, ecRuns' \in RunsRec
  PROVE  ECTyped'
<1>1. \A i \in DOMAIN ecSrv' : ecSrv'[i] \in SessionsOf
  OBVIOUS
<1>2. \A i \in DOMAIN ecMade' : ecMade'[i] \in Lines
  OBVIOUS
<1>3. ecDial'.at \in Asking \cup {"off", "connected", "failed"}
  BY DEF DialRec
<1> QED BY <1>1, <1>2, <1>3, Zenon
        DEF ECTyped, ECTypeOK, ClientRec, DialRec, RunsRec, Steps, SessionsOf, Asking

\* The client as it is, field by field.
LEMMA ECFields ==
  ASSUME ECTyped
  PROVE  /\ ecCl \in ClientRec(Len(ecSrv), Len(ecMade))
         /\ Len(ecSrv) \in Nat /\ Len(ecMade) \in Nat
         /\ ecCl.server \in Lines
         /\ ecCl.twfID \in 0 .. Len(ecSrv) /\ ecCl.token \in 0 .. Len(ecSrv)
         /\ ecCl.making \in 0 .. Len(ecMade) /\ ecCl.ipConn \in 0 .. Len(ecMade)
         /\ ecCl.multi \in BOOLEAN /\ ecCl.fetch \in BOOLEAN /\ ecCl.tcpOnly \in BOOLEAN
         /\ ecDial.conn \in 0 .. Len(ecMade)
         /\ \A i \in 1 .. Len(ecSrv) : ecSrv[i] \in SessionsOf
         /\ \A i \in 1 .. Len(ecMade) : ecMade[i] \in Lines
<1>1. ecSrv \in Seq(SessionsOf) /\ ecMade \in Seq(Lines)
      /\ ecCl \in ClientRec(Len(ecSrv), Len(ecMade)) /\ ecDial \in DialRec(Len(ecMade))
  BY ECTyping
<1>2. /\ Len(ecSrv) \in Nat /\ Len(ecMade) \in Nat
      /\ \A i \in 1 .. Len(ecSrv) : ecSrv[i] \in SessionsOf
      /\ \A i \in 1 .. Len(ecMade) : ecMade[i] \in Lines
  BY <1>1
<1> QED BY <1>1, <1>2 DEF ClientRec, DialRec

\* Setup ends, or goes on, with the client as it is.
LEMMA GoesOnWith ==
  ASSUME ECInv, UNCHANGED <<ecCl, ecSrv, ecNet, ecMade, ecDial>>, Stage',
         ecAt' \in Steps, ecRuns' \in RunsRec,
         ecTick' \in {"off", "wait", "asking", "done"}, ecClose' \in {ecClose, "cancelled"}
  PROVE  ECInv'
<1>1. ECTyped'
  <2>1. /\ ecCl \in ClientRec(Len(ecSrv), Len(ecMade))
        /\ ecSrv \in Seq(SessionsOf) /\ ecMade \in Seq(Lines)
        /\ ecNet \subseteq 1 .. Len(ecMade) /\ ecDial \in DialRec(Len(ecMade))
        /\ ecClose' \in {"no", "cancelled", "done"}
    BY ECTyping DEF ECInv
  <2> QED BY <2>1, ECTypingNext
<1>2. OfLine' /\ OneHand' /\ RawHeld'
  BY DEF ECInv, OfLine, OneHand, RawHeld
<1> QED BY <1>1, <1>2 DEF ECInv

LEMMA AddressStill == ASSUME UNCHANGED <<ecCl, ecSrv, ecMade>> PROVE AddressHeld' <=> AddressHeld
BY DEF AddressHeld

LEMMA EndedAs ==
  ASSUME ECInv, NEW how \in {"no", "ready", "error"}, Ended(how)
  PROVE  /\ ecAt' = "idle" /\ ecRuns' \in RunsRec /\ ecRuns'.ended = how
         /\ UNCHANGED <<ecTick, ecDial, ecClose>>
<1>1. ecRuns \in RunsRec
  BY ECTyping DEF ECInv
<1> QED BY <1>1 DEF Ended, Beside, RunsRec

LEMMA StageGoes ==
  ASSUME ECInv, UNCHANGED <<ecCl, ecSrv, ecMade>>,
         \/ ecAt' = "idle" /\ ecRuns'.ended = "error" /\ ecAt \notin Making
         \/ /\ UNCHANGED ecRuns /\ ecAt # "idle"
            /\ ecAt' \in WithTwfID => ecAt \in WithTwfID
            /\ ecAt' \in WithToken => ecAt \in WithToken
            /\ ecAt' \in Making <=> ecAt \in Making
            /\ ecAt' = "keepConn" => ecSrv[ecCl.token].ok
            /\ ecAt' = "started" => AddressHeld
  PROVE  Stage'
<1> USE AddressStill DEF ECInv, Stage
<1>1. CASE ecAt' = "idle" /\ ecRuns'.ended = "error" /\ ecAt \notin Making
  BY <1>1 DEF WithTwfID, LoggingIn, WithToken, Making
<1>2. CASE ~ (ecAt' = "idle" /\ ecRuns'.ended = "error" /\ ecAt \notin Making)
  BY <1>2
<1> QED BY <1>1, <1>2

LEMMA SameClientKeeps ==
  ASSUME ECInv, \/ SetupFails \/ Prompt \/ NextAuth \/ Probe \/ StayOnLine \/ Address \/ IPReply
  PROVE  ECInv'
<1>1. UNCHANGED <<ecCl, ecSrv, ecNet, ecMade>>
  BY DEF SetupFails, Prompt, NextAuth, Probe, StayOnLine, Address, IPReply, NoRaw
<1>2. ecTick \in {"off", "wait", "asking", "done"} /\ ecClose \in {"no", "cancelled", "done"}
      /\ ecRuns \in RunsRec /\ ecAt \in Steps
  BY ECTyping DEF ECInv
<1>3. CASE SetupFails
  <2>1. Ended("error") /\ ecAt \in Failing
    BY <1>3 DEF SetupFails
  <2>2. ecAt' = "idle" /\ ecRuns' \in RunsRec /\ ecRuns'.ended = "error"
        /\ UNCHANGED <<ecTick, ecDial, ecClose>>
    BY <2>1, EndedAs
  <2>3. Stage'
    BY <1>1, <2>1, <2>2, StageGoes DEF Failing, Making
  <2> QED BY <1>1, <1>2, <2>2, <2>3, GoesOnWith DEF Steps
<1>4. CASE Prompt \/ NextAuth \/ Probe \/ StayOnLine \/ Address \/ IPReply
  <2> USE DEF WithTwfID, LoggingIn, WithToken, Making, Steps, Failing
  <2>1. UNCHANGED <<ecTick, ecDial, ecClose, ecRuns>>
    BY <1>4 DEF Prompt, NextAuth, Probe, StayOnLine, Address, IPReply, Goes, Beside
  <2>2. CASE Prompt \/ NextAuth \/ Probe \/ StayOnLine
    <3>1. /\ ecAt' \in Steps /\ ecAt # "idle"
          /\ ecAt \in WithTwfID /\ ecAt \notin Making
          /\ ecAt' \notin WithToken /\ ecAt' \notin Making
      BY <2>2 DEF Prompt, NextAuth, Probe, StayOnLine, Goes
    <3>2. Stage'
      BY <1>1, <2>1, <3>1, StageGoes
    <3> QED BY <1>1, <1>2, <2>1, <3>1, <3>2, GoesOnWith
  <2>3. CASE Address
    <3>1. ecAt = "address" /\ ecAt' = (IF ecCl.tcpOnly THEN "started" ELSE "ip")
      BY <2>3 DEF Address, Goes
    <3>2. Stage'
      BY <1>1, <2>1, <3>1, StageGoes DEF AddressHeld
    <3> QED BY <1>1, <1>2, <2>1, <3>1, <3>2, GoesOnWith
  <2>4. CASE IPReply
    <3>1. ecAt = "ipReply" /\ ecAt' = "keepConn" /\ ecSrv[ecCl.token].ok
      BY <2>4 DEF IPReply, Goes
    <3>2. Stage'
      BY <1>1, <2>1, <3>1, StageGoes
    <3> QED BY <1>1, <1>2, <2>1, <3>1, <3>2, GoesOnWith
  <2> QED BY <1>4, <2>2, <2>3, <2>4
<1> QED BY <1>3, <1>4

LEMMA SetupKeeps == ASSUME ECInv, Setup \/ SetupDone PROVE ECInv'
<1>1. UNCHANGED <<ecCl, ecSrv, ecNet, ecMade, ecDial, ecClose>>
  BY DEF Setup, SetupDone, NoRaw, Beside
<1>2. ecTick \in {"off", "wait", "asking", "done"} /\ ecClose \in {"no", "cancelled", "done"}
      /\ ecRuns \in RunsRec
  BY ECTyping DEF ECInv
<1>3. CASE Setup
  <2>1. ecRuns' = [calls |-> ecRuns.calls + 1, ended |-> "no"] /\ ecRuns.calls < MaxSetups
        /\ UNCHANGED ecTick
    BY <1>3 DEF Setup, Beside
  <2>2. ecRuns' \in RunsRec /\ ecRuns'.ended = "no"
    <3>1. ecRuns.calls + 1 \in 0 .. MaxSetups
      BY <1>2, <2>1, EasyConnectAssumption DEF RunsRec
    <3> QED BY <2>1, <3>1 DEF RunsRec
  <2>3. /\ ecAt = "idle" /\ ecAt' \in {"session", "auth", "refused"}
        /\ ecAt' = "session" => ecCl.twfID # 0
    BY <1>3 DEF Setup
  <2>4. Stage'
    BY <1>1, <2>2, <2>3 DEF ECInv, Stage, WithTwfID, LoggingIn, WithToken, Making
  <2> QED BY <1>1, <1>2, <2>1, <2>2, <2>3, <2>4, GoesOnWith DEF Steps, Failing
<1>4. CASE SetupDone
  <2>1. ecAt = "started" /\ ecAt' = "idle" /\ ecRuns' = [ecRuns EXCEPT !.ended = "ready"]
        /\ ecTick' \in {ecTick, "wait"}
    BY <1>4 DEF SetupDone
  <2>2. ecRuns' \in RunsRec
    BY <1>2, <2>1 DEF RunsRec
  <2>3. Stage'
    BY <1>1, <2>1, AddressStill DEF ECInv, Stage, WithTwfID, LoggingIn, WithToken, Making
  <2> QED BY <1>1, <1>2, <2>1, <2>2, <2>3, GoesOnWith DEF Steps
<1> QED BY <1>3, <1>4

LEMMA Appended ==
  ASSUME NEW S, NEW list \in Seq(S), NEW e \in S
  PROVE  /\ Append(list, e) \in Seq(S) /\ Len(Append(list, e)) = Len(list) + 1
         /\ \A i \in 1 .. Len(list) : Append(list, e)[i] = list[i]
         /\ Append(list, e)[Len(list) + 1] = e
OBVIOUS

\* A TwfID more: the session is of the line in use, and the client takes it.
LEMMA TakesTwfID ==
  ASSUME ECInv, NEW ok \in BOOLEAN,
         ecSrv' = Append(ecSrv, [line |-> ecCl.server, ok |-> ok]),
         ecCl' = [ecCl EXCEPT !.twfID = Len(ecSrv) + 1],
         UNCHANGED <<ecNet, ecMade, ecDial, ecTick, ecClose>>,
         ecAt \notin Making, ecAt' \notin Making \cup WithToken,
         ecAt' \in Steps, ecRuns' \in RunsRec, ecRuns'.ended # "ready"
  PROVE  ECInv'
<1>0. ECTyped
  BY DEF ECInv
<1>1. /\ ecCl'.twfID = Len(ecSrv) + 1 /\ ecCl'.server = ecCl.server
      /\ ecCl'.making = ecCl.making /\ ecCl'.ipConn = ecCl.ipConn
  BY <1>0, ECFields DEF ClientRec
<1> DEFINE e == [line |-> ecCl.server, ok |-> ok]
<1>2. e \in SessionsOf /\ e.line = ecCl.server
  BY <1>0, ECFields DEF SessionsOf
<1>3. /\ ecSrv \in Seq(SessionsOf) /\ ecMade \in Seq(Lines)
      /\ ecNet \subseteq 1 .. Len(ecMade) /\ ecDial \in DialRec(Len(ecMade))
      /\ ecTick \in {"off", "wait", "asking", "done"} /\ ecClose \in {"no", "cancelled", "done"}
  BY <1>0, ECTyping
<1> HIDE DEF e
<1>4. /\ ecSrv' \in Seq(SessionsOf) /\ Len(ecSrv') = Len(ecSrv) + 1 /\ Len(ecSrv) \in Nat
      /\ ecSrv'[Len(ecSrv) + 1] = e
  BY <1>0, <1>2, <1>3, Appended, ECFields DEF e
<1>5. ecCl' \in ClientRec(Len(ecSrv'), Len(ecMade'))
  <2>1. /\ Len(ecSrv) + 1 \in 0 .. Len(ecSrv')
        /\ \A i \in 0 .. Len(ecSrv) : i \in 0 .. Len(ecSrv')
    BY <1>4
  <2> QED BY <1>0, <2>1, ECFields DEF ClientRec
<1>6. ECTyped'
  BY <1>3, <1>4, <1>5, ECTypingNext
<1>7. Stage'
  <2>1. ecCl'.twfID # 0
    BY <1>1, <1>4
  <2>2. ecCl'.making = 0
    BY <1>1 DEF Stage, ECInv
  <2> QED BY <2>1, <2>2 DEF Stage, Making, WithToken
<1>8. OfLine'
  BY <1>1, <1>2, <1>4 DEF OfLine, ECInv
<1>9. OneHand' /\ RawHeld'
  BY <1>1 DEF OneHand, RawHeld, ECInv
<1> QED BY <1>6, <1>7, <1>8, <1>9 DEF ECInv

LEMMA NotReady == ASSUME ECInv, ecAt # "idle" PROVE ecRuns.ended # "ready" /\ ecRuns \in RunsRec
BY ECTyping DEF ECInv, Stage

LEMMA LoginKeeps == ASSUME ECInv, LoginAuth \/ Authorised PROVE ECInv'
<1> USE DEF WithTwfID, LoggingIn, WithToken, Making, Steps, Failing
<1>0. ECTyped /\ ecRuns.ended # "ready" /\ ecRuns \in RunsRec
  BY NotReady DEF ECInv, LoginAuth, Authorised
<1>1. UNCHANGED <<ecNet, ecMade>> /\ ecAt \in {"auth", "psw", "sms1", "totp", "cert1"}
  BY DEF LoginAuth, Authorised, NoRaw
<1>2. ASSUME \/ Goes("psw") \/ Goes("captcha") \/ Goes("session") \/ Ended("error")
      PROVE  /\ UNCHANGED <<ecTick, ecDial, ecClose>>
             /\ ecRuns' \in RunsRec /\ ecRuns'.ended # "ready"
             /\ ecAt' \in {"psw", "captcha", "session", "idle"}
             /\ ecAt' = "idle" => ecRuns'.ended = "error"
             /\ ecAt' # "idle" => UNCHANGED ecRuns
  <2>1. CASE Ended("error")
    BY <2>1, EndedAs
  <2>2. CASE Goes("psw") \/ Goes("captcha") \/ Goes("session")
    BY <1>0, <2>2 DEF Goes, Beside
  <2> QED BY <1>2, <2>1, <2>2
<1>3. CASE LoginAuth
  <2>1. /\ ecSrv' = Append(ecSrv, [line |-> ecCl.server, ok |-> FALSE])
        /\ ecCl' = [ecCl EXCEPT !.twfID = Len(ecSrv) + 1]
        /\ Goes("psw") \/ Goes("captcha") \/ Ended("error")
    BY <1>3 DEF LoginAuth
  <2>2. ecAt \notin Making /\ ecAt' \notin Making \cup WithToken /\ ecAt' \in Steps
    BY <1>1, <1>2, <2>1
  <2> QED BY <1>1, <1>2, <2>1, <2>2, TakesTwfID
<1>4. CASE Authorised
  <2>1. CASE /\ ecSrv' = Append(ecSrv, [line |-> ecCl.server, ok |-> TRUE])
             /\ ecCl' = [ecCl EXCEPT !.twfID = Len(ecSrv) + 1]
             /\ Goes("session")
    <3>1. ecAt \notin Making /\ ecAt' \notin Making \cup WithToken /\ ecAt' \in Steps
      BY <1>1, <1>2, <2>1
    <3> QED BY <1>1, <1>2, <2>1, <3>1, TakesTwfID
  <2>2. CASE /\ ecSrv' = [ecSrv EXCEPT ![ecCl.twfID].ok = TRUE]
             /\ UNCHANGED ecCl
             /\ Goes("session") \/ Ended("error")
    <3>1. /\ ecSrv \in Seq(SessionsOf) /\ ecMade \in Seq(Lines)
          /\ ecCl \in ClientRec(Len(ecSrv), Len(ecMade))
          /\ ecNet \subseteq 1 .. Len(ecMade) /\ ecDial \in DialRec(Len(ecMade))
          /\ ecTick \in {"off", "wait", "asking", "done"} /\ ecClose \in {"no", "cancelled", "done"}
      BY <1>0, ECTyping
    <3>0. DOMAIN ecSrv = 1 .. Len(ecSrv) /\ Len(ecSrv) \in Nat
          /\ DOMAIN ecSrv' = DOMAIN ecSrv /\ ecSrv' = [i \in DOMAIN ecSrv' |-> ecSrv'[i]]
      <4>1. DOMAIN ecSrv = 1 .. Len(ecSrv) /\ Len(ecSrv) \in Nat
        BY <3>1
      <4>2. ecSrv' = [i \in DOMAIN ecSrv |-> IF i = ecCl.twfID
                                             THEN [ecSrv[ecCl.twfID] EXCEPT !.ok = TRUE] ELSE ecSrv[i]]
        BY <2>2, Zenon
      <4> QED BY <4>1, <4>2, Zenon
    <3>2. /\ ecSrv' \in Seq(SessionsOf) /\ Len(ecSrv') = Len(ecSrv) /\ Len(ecSrv) \in Nat
          /\ \A i \in 1 .. Len(ecSrv) : ecSrv'[i].line = ecSrv[i].line
                                        /\ (ecSrv[i].ok => ecSrv'[i].ok)
      <4>1. ASSUME NEW i \in 1 .. Len(ecSrv)
            PROVE  ecSrv'[i] \in SessionsOf /\ ecSrv'[i].line = ecSrv[i].line
                   /\ (ecSrv[i].ok => ecSrv'[i].ok)
        <5>1. ecSrv[i] \in SessionsOf
          BY <3>1
        <5>2. CASE i = ecCl.twfID
          <6>1. ecSrv'[i] = [ecSrv[i] EXCEPT !.ok = TRUE]
            BY <2>2, <3>0, <5>2, Zenon
          <6> QED BY <5>1, <6>1 DEF SessionsOf
        <5>3. CASE i # ecCl.twfID
          <6>1. ecSrv'[i] = ecSrv[i]
            BY <2>2, <3>0, <5>3, Zenon
          <6> QED BY <5>1, <6>1
        <5> QED BY <5>2, <5>3
      <4>2. ecSrv' = [i \in 1 .. Len(ecSrv) |-> ecSrv'[i]] /\ Len(ecSrv) \in Nat
        BY <3>0
      <4>3. ecSrv' \in Seq(SessionsOf) /\ Len(ecSrv') = Len(ecSrv)
        BY <4>1, <4>2
      <4> QED BY <4>1, <4>2, <4>3
    <3>3. ECTyped'
      <4>1. ecAt' \in Steps /\ ecCl' \in ClientRec(Len(ecSrv'), Len(ecMade'))
        BY <1>1, <1>2, <2>2, <3>1, <3>2
      <4> QED BY <1>1, <1>2, <2>2, <3>1, <3>2, <4>1, ECTypingNext
    <3>4. ecCl.twfID # 0 /\ ecCl.making = 0
      BY <1>0, <1>1, <1>4, ECFields DEF ECInv, Stage, Authorised
    <3>5. Stage'
      BY <1>2, <2>2, <3>4 DEF Stage
    <3>6. OfLine'
      <4>1. ecCl.twfID \in 1 .. Len(ecSrv)
        BY <1>0, <3>4, ECFields
      <4> QED BY <2>2, <3>2, <3>4, <4>1 DEF OfLine, ECInv
    <3>7. OneHand' /\ RawHeld'
      BY <1>1, <1>2, <2>2 DEF OneHand, RawHeld, ECInv
    <3> QED BY <3>3, <3>5, <3>6, <3>7 DEF ECInv
  <2> QED BY <1>4, <2>1, <2>2, Zenon DEF Authorised
<1> QED BY <1>3, <1>4

LEMMA ParseLineListKeeps ==
  ASSUME ECInv, IsFiniteSet(Lines), ParseLineList
  PROVE  ECInv'
<1> USE DEF WithTwfID, LoggingIn, WithToken, Making, Steps, Failing
<1>0. ECTyped /\ ecRuns.ended # "ready" /\ ecRuns \in RunsRec
  BY NotReady DEF ECInv, ParseLineList
<1>1. UNCHANGED <<ecSrv, ecNet, ecMade>> /\ ecAt = "probe"
  BY DEF ParseLineList, NoRaw
<1>2. PICK best \in Lines : UseLine(best)
  <2>1. Latencies \subseteq Nat
    BY EasyConnectAssumption
  <2>2. PICK list \in Orders : \E up \in (SUBSET DOMAIN list) \ {{}} :
          \E took \in [up -> Latencies] : UseLine(FindBestLine(list, took).line)
    BY DEF ParseLineList
  <2>3. PICK up \in (SUBSET DOMAIN list) \ {{}} :
          \E took \in [up -> Latencies] : UseLine(FindBestLine(list, took).line)
    BY <2>2
  <2>4. PICK took \in [up -> Latencies] : UseLine(FindBestLine(list, took).line)
    BY <2>3
  <2>5. FindBestLine(list, took).line \in Lines
    BY <2>1, BestLineIsLine
  <2> QED BY <2>4, <2>5
<1>3. /\ ecMade \in Seq(Lines) /\ ecSrv \in Seq(SessionsOf)
      /\ ecNet \subseteq 1 .. Len(ecMade) /\ ecDial \in DialRec(Len(ecMade))
      /\ ecTick \in {"off", "wait", "asking", "done"} /\ ecClose \in {"no", "cancelled", "done"}
  BY <1>0, ECTyping
<1>4. CASE best = ecCl.server
  <2>1. UNCHANGED <<ecCl, ecRuns, ecTick, ecDial, ecClose>> /\ ecAt' = "token"
    BY <1>2, <1>4 DEF UseLine, Goes, Beside
  <2>2. Stage'
    BY <1>1, <2>1, StageGoes
  <2> QED BY <1>0, <1>1, <1>3, <2>1, <2>2, GoesOnWith
<1>5. CASE best # ecCl.server
  <2>1. ecCl' = [ecCl EXCEPT !.server = best, !.multi = FALSE, !.twfID = 0]
        /\ Goes(IF ecCl'.twfID = 0 THEN "auth" ELSE "token")
    BY <1>2, <1>5 DEF UseLine, Switch
  <2>2. /\ ecCl'.twfID = 0 /\ ecCl'.server = best
        /\ ecCl'.making = ecCl.making /\ ecCl'.ipConn = ecCl.ipConn
        /\ ecCl' \in ClientRec(Len(ecSrv), Len(ecMade))
    <3>1. ecCl \in ClientRec(Len(ecSrv), Len(ecMade)) /\ 0 \in 0 .. Len(ecSrv)
      BY <1>0, ECFields
    <3> QED BY <2>1, <3>1 DEF ClientRec
  <2>3. UNCHANGED <<ecRuns, ecTick, ecDial, ecClose>> /\ ecAt' = "auth"
    BY <2>1, <2>2 DEF Goes, Beside
  <2>4. ECTyped'
    BY <1>0, <1>1, <1>3, <2>2, <2>3, ECTypingNext
  <2>5. ecCl.making = 0
    BY <1>1 DEF ECInv, Stage
  <2>6. Stage'
    BY <1>0, <2>2, <2>3, <2>5 DEF Stage
  <2>7. OfLine' /\ OneHand' /\ RawHeld'
    BY <1>1, <2>2, <2>3, <2>5 DEF ECInv, OfLine, OneHand, RawHeld
  <2> QED BY <2>4, <2>6, <2>7 DEF ECInv
<1> QED BY <1>4, <1>5

LEMMA TokenKeeps == ASSUME ECInv, TokenReply \/ Resources PROVE ECInv'
<1> USE DEF WithTwfID, LoggingIn, WithToken, Making, Steps, Failing
<1>0. ECTyped /\ ecRuns.ended # "ready" /\ ecRuns \in RunsRec
  BY NotReady DEF ECInv, TokenReply, Resources
<1>1. UNCHANGED <<ecSrv, ecMade, ecRuns, ecTick, ecDial, ecClose>>
  BY DEF TokenReply, Resources, NoRaw, Goes, Beside
<1>2. /\ ecCl \in ClientRec(Len(ecSrv), Len(ecMade)) /\ 0 \in 0 .. Len(ecMade)
      /\ ecMade \in Seq(Lines) /\ ecSrv \in Seq(SessionsOf)
      /\ ecNet \subseteq 1 .. Len(ecMade) /\ ecDial \in DialRec(Len(ecMade))
      /\ ecTick \in {"off", "wait", "asking", "done"} /\ ecClose \in {"no", "cancelled", "done"}
  BY <1>0, ECTyping, ECFields
<1>3. CASE TokenReply
  <2>1. /\ ecAt = "tokenReply" /\ ecAt' \in {"rclist", "address"}
        /\ ecNet' = ecNet \ {ecCl.making}
        /\ ecCl' = [ecCl EXCEPT !.token = ecCl.twfID, !.making = 0]
    BY <1>3 DEF TokenReply, Goes
  <2>2. /\ ecCl' \in ClientRec(Len(ecSrv), Len(ecMade)) /\ ecCl'.making = 0
        /\ ecCl'.twfID = ecCl.twfID /\ ecCl'.token = ecCl.twfID
        /\ ecCl'.server = ecCl.server /\ ecCl'.ipConn = ecCl.ipConn
    BY <1>2, <2>1 DEF ClientRec
  <2>3. ECTyped'
    <3>1. ecNet' \subseteq 1 .. Len(ecMade') /\ ecAt' \in Steps
      BY <1>1, <1>2, <2>1
    <3> QED BY <1>0, <1>1, <1>2, <2>2, <3>1, ECTypingNext
  <2>4. Stage'
    BY <1>0, <1>1, <2>1, <2>2 DEF ECInv, Stage
  <2>5. OfLine' /\ OneHand'
    BY <1>1, <2>2 DEF ECInv, OfLine, OneHand
  <2>6. RawHeld'
    <3>1. ecCl.making # 0
      BY <2>1 DEF ECInv, Stage
    <3> QED BY <1>1, <2>1, <2>2, <3>1 DEF ECInv, OneHand, RawHeld
  <2> QED BY <2>3, <2>4, <2>5, <2>6 DEF ECInv
<1>4. CASE Resources
  <2>1. ecAt = "rclist" /\ ecAt' = "address" /\ UNCHANGED ecNet
        /\ \/ ecCl' = ecCl
           \/ \E only \in BOOLEAN : ecCl' = [ecCl EXCEPT !.tcpOnly = only]
    BY <1>4 DEF Resources, Goes, NoRaw
  <2>2. /\ ecCl' \in ClientRec(Len(ecSrv), Len(ecMade))
        /\ ecCl'.twfID = ecCl.twfID /\ ecCl'.token = ecCl.token /\ ecCl'.server = ecCl.server
        /\ ecCl'.making = ecCl.making /\ ecCl'.ipConn = ecCl.ipConn
    <3>1. CASE ecCl' = ecCl
      BY <1>2, <3>1
    <3>2. CASE \E only \in BOOLEAN : ecCl' = [ecCl EXCEPT !.tcpOnly = only]
      BY <1>2, <3>2 DEF ClientRec
    <3> QED BY <2>1, <3>1, <3>2
  <2>3. ECTyped'
    BY <1>0, <1>1, <1>2, <2>1, <2>2, ECTypingNext
  <2>4. Stage'
    BY <1>0, <1>1, <2>1, <2>2 DEF ECInv, Stage
  <2>5. OfLine' /\ OneHand' /\ RawHeld'
    BY <1>1, <2>1, <2>2 DEF ECInv, OfLine, OneHand, RawHeld
  <2> QED BY <2>3, <2>4, <2>5 DEF ECInv
<1> QED BY <1>3, <1>4

\* A raw connection is made to the line in use, and its number is in no hand.
LEMMA RawIsNew ==
  ASSUME ECInv, ecMade' = Append(ecMade, ecCl.server), ecNet' = ecNet \cup {Raw}
  PROVE  /\ ecMade' \in Seq(Lines) /\ Len(ecMade') = Len(ecMade) + 1 /\ Raw = Len(ecMade')
         /\ ecMade'[Raw] = ecCl.server
         /\ \A i \in 1 .. Len(ecMade) : ecMade'[i] = ecMade[i]
         /\ ecNet' \subseteq 1 .. Len(ecMade')
         /\ Raw # 0 /\ Raw # ecCl.making /\ Raw # ecCl.ipConn /\ Raw # ecDial.conn
<1>1. ECTyped
  BY DEF ECInv
<1>2. ecMade \in Seq(Lines) /\ ecCl.server \in Lines /\ Len(ecMade) \in Nat
      /\ ecNet \subseteq 1 .. Len(ecMade)
  BY <1>1, ECTyping, ECFields
<1>3. /\ ecMade' \in Seq(Lines) /\ Len(ecMade') = Len(ecMade) + 1 /\ Raw = Len(ecMade')
      /\ ecMade'[Raw] = ecCl.server
      /\ \A i \in 1 .. Len(ecMade) : ecMade'[i] = ecMade[i]
  BY <1>2, Appended DEF Raw
<1>4. ASSUME NEW i \in ecNet' PROVE i \in 1 .. Len(ecMade')
  <2>1. CASE i = Raw
    BY <1>2, <1>3, <2>1
  <2>2. CASE i \in ecNet
    BY <1>2, <1>3, <2>2
  <2> QED BY <2>1, <2>2
<1>5. Raw # 0 /\ Raw # ecCl.making /\ Raw # ecCl.ipConn /\ Raw # ecDial.conn
  BY <1>1, <1>2, <1>3, ECFields
<1> QED BY <1>3, <1>4, <1>5

LEMMA RawRequestKeeps == ASSUME ECInv, RequestToken \/ RequestIP PROVE ECInv'
<1> USE DEF WithTwfID, LoggingIn, WithToken, Making, Steps, Failing
<1>0. ECTyped /\ ecRuns.ended # "ready" /\ ecRuns \in RunsRec
  BY NotReady DEF ECInv, RequestToken, RequestIP, RawRequest
<1>1. /\ \/ ecAt = "token" /\ ecAt' = "tokenReply"
         \/ ecAt = "ip" /\ ecAt' = "ipReply"
      /\ ecClose = "no" /\ UNCHANGED <<ecSrv, ecRuns, ecTick, ecDial, ecClose>>
      /\ ecMade' = Append(ecMade, ecCl.server) /\ ecNet' = ecNet \cup {Raw}
      /\ ecCl' = [ecCl EXCEPT !.making = Raw]
  BY DEF RequestToken, RequestIP, RawRequest, DialRaw, Alive, Goes, Beside
<1>2. /\ ecMade' \in Seq(Lines) /\ Len(ecMade') = Len(ecMade) + 1 /\ Raw = Len(ecMade')
      /\ ecMade'[Raw] = ecCl.server /\ ecNet' \subseteq 1 .. Len(ecMade')
      /\ Raw # 0 /\ Raw # ecCl.making /\ Raw # ecCl.ipConn /\ Raw # ecDial.conn
  BY <1>1, RawIsNew
<1>3. /\ ecCl \in ClientRec(Len(ecSrv), Len(ecMade))
      /\ ecSrv \in Seq(SessionsOf) /\ ecDial \in DialRec(Len(ecMade))
      /\ ecTick \in {"off", "wait", "asking", "done"} /\ ecClose \in {"no", "cancelled", "done"}
  BY <1>0, ECTyping
<1>4. Raw \in 0 .. Len(ecMade') /\ \A i \in 0 .. Len(ecMade) : i \in 0 .. Len(ecMade')
  BY <1>0, <1>2, ECFields
<1>5. /\ ecCl' \in ClientRec(Len(ecSrv), Len(ecMade')) /\ ecDial' \in DialRec(Len(ecMade'))
      /\ ecCl'.making = Raw /\ ecCl'.twfID = ecCl.twfID /\ ecCl'.token = ecCl.token
      /\ ecCl'.server = ecCl.server /\ ecCl'.ipConn = ecCl.ipConn
  BY <1>1, <1>3, <1>4 DEF ClientRec, DialRec
<1>6. ECTyped'
  BY <1>0, <1>1, <1>2, <1>3, <1>5, ECTypingNext
<1>7. ecCl.making = 0
  BY <1>1 DEF ECInv, Stage
<1>8. Stage'
  BY <1>0, <1>1, <1>2, <1>5 DEF ECInv, Stage
<1>9. OfLine'
  BY <1>1, <1>2, <1>5 DEF ECInv, OfLine
<1>10. OneHand' /\ RawHeld'
  BY <1>1, <1>2, <1>5, <1>7 DEF ECInv, OneHand, RawHeld
<1> QED BY <1>6, <1>8, <1>9, <1>10 DEF ECInv

LEMMA ReplyFailsKeeps == ASSUME ECInv, ReplyFails PROVE ECInv'
<1> USE DEF WithTwfID, LoggingIn, WithToken, Making, Steps, Failing
<1>0. ECTyped
  BY DEF ECInv
<1>1. /\ ecAt \in {"tokenReply", "ipReply"} /\ UNCHANGED <<ecSrv, ecMade>>
      /\ ecNet' = ecNet \ {ecCl.making}
      /\ ecCl' = [ecCl EXCEPT !.making = 0] /\ Ended("error")
  BY DEF ReplyFails
<1>2. ecAt' = "idle" /\ ecRuns' \in RunsRec /\ ecRuns'.ended = "error"
      /\ UNCHANGED <<ecTick, ecDial, ecClose>>
  BY <1>1, EndedAs
<1>3. /\ ecCl \in ClientRec(Len(ecSrv), Len(ecMade)) /\ 0 \in 0 .. Len(ecMade)
      /\ ecSrv \in Seq(SessionsOf) /\ ecMade \in Seq(Lines) /\ ecDial \in DialRec(Len(ecMade))
      /\ ecNet \subseteq 1 .. Len(ecMade)
      /\ ecTick \in {"off", "wait", "asking", "done"} /\ ecClose \in {"no", "cancelled", "done"}
  BY <1>0, ECTyping, ECFields
<1>4. /\ ecCl' \in ClientRec(Len(ecSrv), Len(ecMade)) /\ ecCl'.making = 0
      /\ ecCl'.twfID = ecCl.twfID /\ ecCl'.server = ecCl.server /\ ecCl'.ipConn = ecCl.ipConn
  BY <1>1, <1>3 DEF ClientRec
<1>5. ECTyped'
  <2>1. ecNet' \subseteq 1 .. Len(ecMade') /\ ecAt' \in Steps
    BY <1>1, <1>2, <1>3
  <2> QED BY <1>1, <1>2, <1>3, <1>4, <2>1, ECTypingNext
<1>6. Stage'
  BY <1>2, <1>4 DEF Stage
<1>7. OfLine' /\ OneHand'
  BY <1>1, <1>2, <1>4 DEF ECInv, OfLine, OneHand
<1>8. RawHeld'
  <2>1. ecCl.making # 0
    BY <1>1 DEF ECInv, Stage
  <2> QED BY <1>1, <1>2, <1>4, <2>1 DEF ECInv, OneHand, RawHeld
<1> QED BY <1>5, <1>6, <1>7, <1>8 DEF ECInv

LEMMA SetRequestIPConnKeeps == ASSUME ECInv, SetRequestIPConn PROVE ECInv'
<1> USE DEF WithTwfID, LoggingIn, WithToken, Making, Steps, Failing
<1>0. ECTyped /\ ecRuns.ended # "ready" /\ ecRuns \in RunsRec
  BY NotReady DEF ECInv, SetRequestIPConn
<1>1. /\ ecAt = "keepConn" /\ ecAt' = "started"
      /\ UNCHANGED <<ecSrv, ecMade, ecRuns, ecTick, ecDial, ecClose>>
      /\ ecNet' = ecNet \ {ecCl.ipConn}
      /\ ecCl' = [ecCl EXCEPT !.ipConn = ecCl.making, !.making = 0]
  BY DEF SetRequestIPConn, Goes, Beside
<1>2. /\ ecCl \in ClientRec(Len(ecSrv), Len(ecMade)) /\ 0 \in 0 .. Len(ecMade)
      /\ ecCl.making \in 0 .. Len(ecMade)
      /\ ecSrv \in Seq(SessionsOf) /\ ecMade \in Seq(Lines) /\ ecDial \in DialRec(Len(ecMade))
      /\ ecNet \subseteq 1 .. Len(ecMade)
      /\ ecTick \in {"off", "wait", "asking", "done"} /\ ecClose \in {"no", "cancelled", "done"}
  BY <1>0, ECTyping, ECFields
<1>3. /\ ecCl' \in ClientRec(Len(ecSrv), Len(ecMade))
      /\ ecCl'.making = 0 /\ ecCl'.ipConn = ecCl.making
      /\ ecCl'.twfID = ecCl.twfID /\ ecCl'.token = ecCl.token /\ ecCl'.server = ecCl.server
  BY <1>1, <1>2 DEF ClientRec
<1>4. ECTyped'
  <2>1. ecNet' \subseteq 1 .. Len(ecMade') /\ ecAt' \in Steps
    BY <1>1, <1>2
  <2> QED BY <1>0, <1>1, <1>2, <1>3, <2>1, ECTypingNext
<1>5. ecCl.making # 0 /\ ecSrv[ecCl.token].ok
  BY <1>1 DEF ECInv, Stage
<1>6. AddressHeld'
  BY <1>1, <1>3, <1>5 DEF ECInv, OfLine, AddressHeld
<1>7. Stage'
  BY <1>0, <1>1, <1>3, <1>6 DEF ECInv, Stage
<1>8. OfLine' /\ OneHand'
  BY <1>1, <1>3 DEF ECInv, OfLine, OneHand
<1>9. RawHeld'
  BY <1>1, <1>3, <1>5 DEF ECInv, OneHand, RawHeld
<1> QED BY <1>4, <1>7, <1>8, <1>9 DEF ECInv

LEMMA DialKeeps == ASSUME ECInv, DialTCP \/ Command \/ CommandFails PROVE ECInv'
<1>0. ECTyped
  BY DEF ECInv
<1>1. UNCHANGED <<ecAt, ecSrv, ecRuns, ecCl, ecTick, ecClose>>
  BY DEF DialTCP, Command, CommandFails, OutsideSetup
<1>2. /\ ecAt \in Steps /\ ecCl \in ClientRec(Len(ecSrv), Len(ecMade))
      /\ ecSrv \in Seq(SessionsOf) /\ ecMade \in Seq(Lines) /\ ecDial \in DialRec(Len(ecMade))
      /\ ecNet \subseteq 1 .. Len(ecMade) /\ Len(ecMade) \in Nat
      /\ ecTick \in {"off", "wait", "asking", "done"} /\ ecClose \in {"no", "cancelled", "done"}
      /\ ecRuns \in RunsRec
  BY <1>0, ECTyping, ECFields
<1>3. CASE DialTCP
  <2>1. /\ ecMade' = Append(ecMade, ecCl.server) /\ ecNet' = ecNet \cup {Raw}
        /\ ecDial' = [at |-> "C01", conn |-> Raw] /\ ecDial.at = "off"
    BY <1>3 DEF DialTCP
  <2>2. /\ ecMade' \in Seq(Lines) /\ Len(ecMade') = Len(ecMade) + 1 /\ Raw = Len(ecMade')
        /\ ecMade'[Raw] = ecCl.server
        /\ \A i \in 1 .. Len(ecMade) : ecMade'[i] = ecMade[i]
        /\ ecNet' \subseteq 1 .. Len(ecMade')
        /\ Raw # 0 /\ Raw # ecCl.making /\ Raw # ecCl.ipConn /\ Raw # ecDial.conn
    BY <2>1, RawIsNew
  <2>3. Raw \in 0 .. Len(ecMade') /\ \A i \in 0 .. Len(ecMade) : i \in 0 .. Len(ecMade')
    BY <1>2, <2>2
  <2>4. ecDial' \in DialRec(Len(ecMade')) /\ ecDial'.conn = Raw /\ ecDial'.at = "C01"
    BY <2>1, <2>3 DEF DialRec, Asking, NextCommand
  <2>5. ecCl' \in ClientRec(Len(ecSrv'), Len(ecMade'))
    BY <1>1, <1>2, <2>3 DEF ClientRec
  <2>6. ECTyped'
    BY <1>1, <1>2, <2>2, <2>4, <2>5, ECTypingNext
  <2>7. /\ ecCl.making # 0 => ecMade'[ecCl.making] = ecMade[ecCl.making]
        /\ ecCl.ipConn # 0 => ecMade'[ecCl.ipConn] = ecMade[ecCl.ipConn]
    BY <1>0, <2>2, ECFields
  <2>8. AddressHeld => AddressHeld'
    BY <1>1, <2>7 DEF AddressHeld
  <2>9. Stage' /\ OfLine'
    BY <1>1, <2>7, <2>8 DEF ECInv, Stage, OfLine
  <2>10. ecDial.conn = 0
    \* The dial is the only one: none has ended yet.
    BY <2>1 DEF ECInv, OneHand
  <2>11. OneHand' /\ RawHeld'
    BY <1>1, <2>1, <2>2, <2>4, <2>10 DEF ECInv, OneHand, RawHeld
  <2> QED BY <2>6, <2>9, <2>11 DEF ECInv
<1>4. CASE Command
  <2>1. /\ UNCHANGED <<ecNet, ecMade>> /\ ecDial.at \in Asking
        /\ ecDial' = [ecDial EXCEPT !.at = NextCommand[ecDial.at]]
    BY <1>4 DEF Command, NoRaw, Asking
  <2>2. NextCommand[ecDial.at] \in Asking \cup {"connected"}
    BY <2>1 DEF Asking, NextCommand
  <2>3. ecDial' \in DialRec(Len(ecMade)) /\ ecDial'.conn = ecDial.conn
        /\ ecDial'.at # "off"
    BY <1>2, <2>1, <2>2 DEF DialRec, Asking, NextCommand
  <2>4. ECTyped'
    BY <1>1, <1>2, <2>1, <2>3, ECTypingNext
  <2>5. Stage' /\ OfLine'
    BY <1>1, <2>1, AddressStill DEF ECInv, Stage, OfLine
  <2>6. OneHand' /\ RawHeld'
    BY <1>1, <2>1, <2>3 DEF ECInv, OneHand, RawHeld
  <2> QED BY <2>4, <2>5, <2>6 DEF ECInv
<1>5. CASE CommandFails
  <2>1. /\ UNCHANGED ecMade /\ ecDial.at \in Asking /\ ecNet' = ecNet \ {ecDial.conn}
        /\ ecDial' = [at |-> "failed", conn |-> 0]
    BY <1>5 DEF CommandFails, Asking
  <2>2. ecDial' \in DialRec(Len(ecMade)) /\ ecDial'.conn = 0 /\ ecDial'.at = "failed"
    <3>1. 0 \in 0 .. Len(ecMade)
      BY <1>2
    <3> QED BY <2>1, <3>1 DEF DialRec
  <2>3. ECTyped'
    <3>1. ecNet' \subseteq 1 .. Len(ecMade')
      BY <1>2, <2>1
    <3> QED BY <1>1, <1>2, <2>1, <2>2, <3>1, ECTypingNext
  <2>4. Stage' /\ OfLine'
    BY <1>1, <2>1, AddressStill DEF ECInv, Stage, OfLine
  <2>5. OneHand'
    BY <1>1, <2>1, <2>2 DEF ECInv, OneHand, Asking, NextCommand
  <2>6. RawHeld'
    BY <1>1, <2>1, <2>2 DEF ECInv, OneHand, RawHeld
  <2> QED BY <2>3, <2>4, <2>5, <2>6 DEF ECInv
<1> QED BY <1>3, <1>4, <1>5

LEMMA CloseKeeps == ASSUME ECInv, Keepalive \/ CloseCancels \/ CloseConn PROVE ECInv'
<1>0. ECTyped
  BY DEF ECInv
<1>1. /\ UNCHANGED <<ecAt, ecSrv, ecRuns, ecMade, ecDial>>
      /\ ecTick' \in {ecTick, "wait", "asking", "done"}
  BY DEF Keepalive, KeepaliveAsks, KeepaliveAnswered, KeepaliveStops, CloseCancels, CloseConn,
         OutsideSetup, NoRaw
<1>2. /\ ecAt \in Steps /\ ecCl \in ClientRec(Len(ecSrv), Len(ecMade))
      /\ ecSrv \in Seq(SessionsOf) /\ ecMade \in Seq(Lines) /\ ecDial \in DialRec(Len(ecMade))
      /\ ecNet \subseteq 1 .. Len(ecMade) /\ 0 \in 0 .. Len(ecMade)
      /\ ecTick \in {"off", "wait", "asking", "done"} /\ ecClose \in {"no", "cancelled", "done"}
      /\ ecRuns \in RunsRec
  BY <1>0, ECTyping, ECFields
<1>3. CASE Keepalive \/ CloseCancels
  <2>1. UNCHANGED <<ecCl, ecNet>> /\ ecClose' \in {ecClose, "cancelled"}
    BY <1>3 DEF Keepalive, KeepaliveAsks, KeepaliveAnswered, KeepaliveStops, CloseCancels, NoRaw
  <2>2. Stage'
    BY <1>1, <2>1, AddressStill DEF ECInv, Stage
  <2> QED BY <1>1, <1>2, <2>1, <2>2, GoesOnWith
<1>4. CASE CloseConn
  <2>1. /\ ecNet' = ecNet \ {ecCl.ipConn} /\ ecCl' = [ecCl EXCEPT !.ipConn = 0]
        /\ ecClose' = "done"
    BY <1>4 DEF CloseConn
  <2>2. /\ ecCl' \in ClientRec(Len(ecSrv), Len(ecMade)) /\ ecCl'.ipConn = 0
        /\ ecCl'.making = ecCl.making /\ ecCl'.twfID = ecCl.twfID
        /\ ecCl'.token = ecCl.token /\ ecCl'.server = ecCl.server
    BY <1>2, <2>1 DEF ClientRec
  <2>3. ECTyped'
    <3>1. ecNet' \subseteq 1 .. Len(ecMade')
      BY <1>1, <1>2, <2>1
    <3> QED BY <1>1, <1>2, <2>1, <2>2, <3>1, ECTypingNext
  <2>4. AddressHeld'
    BY <2>2 DEF AddressHeld
  <2>5. Stage' /\ OfLine' /\ OneHand'
    BY <1>1, <2>2, <2>4 DEF ECInv, Stage, OfLine, OneHand
  <2>6. RawHeld'
    BY <1>1, <2>1, <2>2 DEF ECInv, OneHand, RawHeld
  <2> QED BY <2>3, <2>5, <2>6 DEF ECInv
<1> QED BY <1>3, <1>4

LEMMA ECStepInv == ECInv /\ [ECNext]_ecVars => ECInv'
<1> SUFFICES ASSUME ECInv, [ECNext]_ecVars PROVE ECInv'
  OBVIOUS
<1>1. IsFiniteSet(Lines)
  BY EasyConnectAssumption
<1>2. CASE UNCHANGED ecVars
  <2>1. UNCHANGED <<ecAt, ecCl, ecSrv, ecNet, ecMade, ecTick, ecDial, ecClose, ecRuns>>
    BY <1>2 DEF ecVars
  <2>2. Stage'
    BY <2>1, AddressStill DEF ECInv, Stage
  <2>3. ecAt \in Steps /\ ecRuns \in RunsRec
        /\ ecTick \in {"off", "wait", "asking", "done"} /\ ecClose \in {"no", "cancelled", "done"}
    BY ECTyping DEF ECInv
  <2> QED BY <2>1, <2>2, <2>3, GoesOnWith
<1>3. CASE Setup \/ SetupDone
  BY <1>3, SetupKeeps
<1>4. CASE SetupFails \/ Prompt \/ NextAuth \/ Probe \/ StayOnLine \/ Address \/ IPReply
  BY <1>4, SameClientKeeps
<1>5. CASE LoginAuth \/ Authorised
  BY <1>5, LoginKeeps
<1>6. CASE ParseLineList
  BY <1>1, <1>6, ParseLineListKeeps
<1>7. CASE TokenReply \/ Resources
  BY <1>7, TokenKeeps
<1>8. CASE RequestToken \/ RequestIP \/ ReplyFails \/ SetRequestIPConn
  BY <1>8, RawRequestKeeps, ReplyFailsKeeps, SetRequestIPConnKeeps
<1>9. CASE DialTCP \/ Command \/ CommandFails
  BY <1>9, DialKeeps
<1>10. CASE Keepalive \/ CloseCancels \/ CloseConn
  BY <1>10, CloseKeeps
<1> QED BY <1>2, <1>3, <1>4, <1>5, <1>6, <1>7, <1>8, <1>9, <1>10, Zenon DEF ECNext, InSetup

LEMMA ECInvHolds == ECSpec => []ECInv
BY ECInitInv, ECStepInv, PTL DEF ECSpec

\* A Setup that succeeded leaves the TwfID, the token and the address of one line,
\* every open raw connection is in a hand that may still close it, and a Close leaves
\* one of Setup's at the most, whatever probes, switches, failures, dials and earlier
\* calls came before, for every number of them (client.go:208, 136, request.go:716).
THEOREM ECInStepCorrect == ECSpec => []ECInStep
<1>1. ECInv => ECInStep
  BY ECPromise
<1> QED BY <1>1, ECInvHolds, PTL

(***************************************************************************)
(* All of them: a step of one part is a step, or none, of every part.      *)
(***************************************************************************)

MobileInv == SessionInv /\ PoolInv /\ ECInv /\ StreamInv

LEMMA MobileStep ==
  ASSUME [MobileNext]_mobileVars
  PROVE  /\ [SessionNext]_sessionVars /\ [PoolNext]_poolVars
         /\ [ECNext]_ecVars /\ [StreamNext]_streamVars
<1>1. CASE UNCHANGED mobileVars
  BY <1>1, Zenon DEF mobileVars
<1>2. CASE OfSession(SessionNext)
  BY <1>2, Zenon DEF OfSession
<1>3. CASE OfResolver(Next)
  BY <1>3, Zenon DEF OfResolver
<1>4. CASE OfPool(PoolNext)
  BY <1>4, Zenon DEF OfPool
<1>5. CASE OfEasyConnect(ECNext)
  BY <1>5, Zenon DEF OfEasyConnect
<1>6. CASE OfStream(StreamNext)
  BY <1>6, Zenon DEF OfStream
<1> QED BY <1>1, <1>2, <1>3, <1>4, <1>5, <1>6, Zenon DEF MobileNext

LEMMA MobileInvHolds == MobileSpec => []MobileInv
<1>1. MobileInit => MobileInv
  BY SessionStart, PoolInitInv, ECInitInv, StreamInitInv, Zenon DEF MobileInit, MobileInv
<1>2. MobileInv /\ [MobileNext]_mobileVars => MobileInv'
  BY MobileStep, SessionStep, PoolStepInv, ECStepInv, StreamStepInv, Zenon DEF MobileInv
<1> QED BY <1>1, <1>2, PTL DEF MobileSpec

\* Every part keeps its types, whichever of them runs (mobile_android.go, ippool.go,
\* easyconnect/client.go, l3conn.go).
THEOREM MobileTypesCorrect == MobileSpec => []MobileTypeOK
<1>1. MobileInv => MobileTypeOK
  <2>1. SessionInv => SessionTypeOK
    BY Zenon DEF SessionInv
  <2>2. PoolInv => PoolTypeOK
    BY Zenon DEF PoolInv
  <2>3. StreamInv => StreamTypeOK
    BY Zenon DEF StreamInv
  <2> QED BY <2>1, <2>2, <2>3, ECPromise, Zenon DEF MobileInv, MobileTypeOK
<1> QED BY <1>1, MobileInvHolds, PTL

\* Every part keeps its promise, whichever of them runs.
THEOREM MobileCorrect ==
  MobileSpec => [](NoOrphan /\ DataPlaneSafe /\ FakeNames /\ ECInStep /\ HostTold)
<1>1. MobileInv => NoOrphan /\ DataPlaneSafe /\ FakeNames /\ ECInStep /\ HostTold
  <2>1. SessionInv => NoOrphan
    BY Zenon DEF SessionInv
  <2>2. StreamInv => HostTold
    BY Zenon DEF StreamInv
  <2> QED BY <2>1, <2>2, DataPlanePromise, PoolPromise, ECPromise, Zenon DEF MobileInv
<1> QED BY <1>1, MobileInvHolds, PTL

=============================================================================

------------------------- MODULE L3TunnelConnProofs -------------------------
(***************************************************************************)
(* What the goroutines around the conntrack table guarantee for every      *)
(* number of flows, packets, conntracks and connections.  Whatever they    *)
(* do, the table sees calls it allows, so all that ConntrackProofs says of *)
(* it holds here; sendMu excludes the writer of a flow and the readLoops;  *)
(* and packets leave in order, are sent or not as the server answers, and  *)
(* are not forgotten.  By induction on ConnInv.                            *)
(***************************************************************************)
EXTENDS L3TunnelConn, ConntrackProofs

USE ConntrackAssumption

-----------------------------------------------------------------------------
(* What a call of the table does to a conntrack.                           *)

\* Conntrack i keeps its key.  It may be answered, but not authorised, and it gains
\* no packet: it loses all when it is answered.
Stays(i) ==
  /\ ct'[i].key = ct[i].key
  /\ \/ ct'[i].answer = ct[i].answer
     \/ Waiting(i) /\ ct'[i].answer # "granted"
  /\ \/ ct'[i].pending = ct[i].pending
     \/ ct'[i].pending = NoPackets /\ ct'[i].answer # "waiting"

\* No conntrack is created, and no key leads to another conntrack.
NoBirth ==
  /\ nextAuthID' = nextAuthID
  /\ \A k \in Keys : byKey'[k] \in {0, byKey[k]}

\* getOrCreate is what creates one.
Gets(k) ==
  /\ byKey'[k] \in {0, Gotten(k)}
  /\ \A l \in Keys \ {k} : byKey'[l] \in {0, byKey[l]}
  /\ Gotten(k) \in 1 .. nextAuthID'
  /\ ct'[Gotten(k)].key = k
  /\ \/ nextAuthID' = nextAuthID /\ Gotten(k) = byKey[k]
     \/ /\ nextAuthID' = nextAuthID + 1 /\ Gotten(k) = nextAuthID'
        /\ ct'[nextAuthID'].pending = NoPackets
        /\ ct'[nextAuthID'].answer \in {"waiting", "closed"}

\* A call that creates no conntrack, and neither caches, marks nor authorises.
Plain ==
  \/ \E k \in Keys, ttl \in TTLs : ObservePacket(k, ttl)
  \/ ExpireAuth \/ RemoveExpired \/ CloseMgr \/ Tick
  \/ \E i \in 1 .. nextAuthID :
       MarkAuthSent(i) \/ \E delay \in {0, RetryWait} : RetryAuth(i, delay)
  \/ \E i \in 1 .. nextAuthID, e \in {"denied", "failed"} : CompleteAuth(i, e)
  \/ UNCHANGED mgrVars

\* A call that neither caches a packet nor authorises a flow.
Quiet == Plain \/ NextAuthBatch \/ \E k \in Keys : GetOrCreate(k)

\* The table as it is between calls.
MgrInv == TypeOK /\ IndexesAgree /\ AnswerConsistent /\ ListInOrder /\ now # 0

LEMMA MgrInvFacts ==
  ASSUME MgrInv
  PROVE  /\ TypeOK /\ IndexesAgree /\ AnswerConsistent /\ ListInOrder
         /\ nextAuthID \in Nat /\ 1 .. nextAuthID \subseteq IDs /\ 0 \notin IDs
         /\ byID \subseteq 1 .. nextAuthID
         /\ \A i \in IDs : ct[i] \in ConntrackRec
         /\ \A k \in Keys : byKey[k] \in IDs \cup {0}
BY DEF MgrInv, TypeOK, IndexesAgree, IDs

LEMMA MgrInvStep == MgrInv /\ [MgrNext]_mgrVars => MgrInv'
<1> SUFFICES ASSUME MgrInv, [MgrNext]_mgrVars PROVE MgrInv'
  OBVIOUS
<1>1. TypeOK' /\ IndexesAgree' /\ AnswerConsistent' /\ ListInOrder'
  BY TypeStep, IndexesStep, AnswersStep, ListStep DEF MgrInv
<1>2. now' # 0
  <2>1. now' = now \/ now' = now + 1
    BY DEF MgrNext, GetOrCreate, GetHit, GetCreate, GetClosed, ObservePacket, CachePacket,
           NextAuthBatch, MarkAuthSent, ExpireAuth, RetryAuth, CompleteAuth, RemoveExpired,
           CloseMgr, Tick, mgrVars
  <2> QED BY <2>1 DEF MgrInv, TypeOK
<1> QED BY <1>1, <1>2 DEF MgrInv

\* Removing conntracks with an error leaves the others alone.
LEMMA SettleAllStays ==
  ASSUME TypeOK, NEW gone, NEW e \in Answers \ {"waiting", "granted"}, NEW i \in IDs,
         ct'[i] = SettleAll(gone, e)[i]
  PROVE  Stays(i)
<1>1. ct[i] \in ConntrackRec /\ e \in Answers
  BY DEF TypeOK
<1>2. CASE i \in gone
  <2>1. ct'[i] = Settle(ct[i], e)
    BY <1>2 DEF SettleAll
  <2> QED BY <1>1, <2>1, SettleProps DEF Stays, Waiting
<1>3. CASE i \notin gone
  <2>1. ct'[i] = ct[i]
    BY <1>3 DEF SettleAll
  <2> QED BY <2>1 DEF Stays
<1> QED BY <1>2, <1>3

\* Indexes only lose entries when conntracks are removed.
LEMMA KeysWithoutLoses ==
  ASSUME NEW gone, NEW k \in Keys
  PROVE  KeysWithout(gone)[k] \in {0, byKey[k]}
BY DEF KeysWithout

LEMMA GetStays ==
  ASSUME MgrInv, NEW k \in Keys, GetOrCreate(k)
  PROVE  (\A i \in 1 .. nextAuthID : Stays(i)) /\ Gets(k)
<1>1. /\ "evicted" \in Answers \ {"waiting", "granted"} /\ 0 \notin IDs
      /\ nextAuthID \in Nat /\ \A i \in 1 .. nextAuthID : i \in IDs /\ i # nextAuthID + 1
      /\ TypeOK /\ IndexesAgree /\ ct \in [IDs -> ConntrackRec]
      /\ byKey \in [Keys -> IDs \cup {0}]
  BY MgrInvFacts DEF Answers, TypeOK
<1>2. CASE GetHit(k)
  <2>1. \A i \in 1 .. nextAuthID : Stays(i)
    BY <1>1, <1>2, SettleAllStays DEF GetHit
  <2>2. /\ Gotten(k) = byKey[k] /\ byKey[k] \in byID \ Expired /\ nextAuthID' = nextAuthID
        /\ Gotten(k) \in 1 .. nextAuthID /\ ct[byKey[k]].key = k
    BY <1>1, <1>2, MgrInvFacts DEF GetHit, Gotten, IndexesAgree
  <2>3. ct'[Gotten(k)].key = k
    BY <2>1, <2>2 DEF Stays
  <2>4. \A l \in Keys : byKey'[l] \in {0, byKey[l]}
    BY <1>2, KeysWithoutLoses DEF GetHit
  <2> QED BY <2>1, <2>2, <2>3, <2>4 DEF Gets
<1>3. CASE GetCreate(k)
  <2>1. PICK n \in IDs : n = nextAuthID + 1 /\ nextAuthID' = n /\ Gotten(k) = n
    BY <1>1, <1>3 DEF GetCreate, Gotten, IDs
  <2>2. ct' = [SettleAll(Victims, "evicted") EXCEPT ![n] = Fresh(k)]
    BY <1>3, <2>1 DEF GetCreate
  <2>3. ct'[n] = Fresh(k) /\ \A i \in 1 .. nextAuthID : ct'[i] = SettleAll(Victims, "evicted")[i]
    BY <1>1, <2>1, <2>2, SettleAllType
  <2>4. \A i \in 1 .. nextAuthID : Stays(i)
    BY <1>1, <2>3, SettleAllStays
  <2>5. Fresh(k).key = k /\ Fresh(k).pending = NoPackets /\ Fresh(k).answer = "waiting"
    BY DEF Fresh, Unborn
  <2>6. /\ byKey'[k] = n /\ \A l \in Keys \ {k} : byKey'[l] = KeysWithout(Victims)[l]
    BY <1>1, <1>3, <2>1, WithoutType DEF GetCreate
  <2> QED BY <1>1, <2>1, <2>3, <2>4, <2>5, <2>6, KeysWithoutLoses DEF Gets
<1>4. CASE GetClosed(k)
  <2>1. PICK n \in IDs : n = nextAuthID + 1 /\ nextAuthID' = n /\ Gotten(k) = n
    BY <1>1, <1>4 DEF GetClosed, Gotten, IDs
  <2>2. PICK r \in ConntrackRec : /\ r = [Fresh(k) EXCEPT !.answer = "closed"]
                                  /\ r.key = k /\ r.pending = NoPackets /\ r.answer = "closed"
    <3>1. Fresh(k) \in ConntrackRec /\ "closed" \in Answers
      BY <1>1, FreshType DEF Answers
    <3>2. [Fresh(k) EXCEPT !.answer = "closed"] \in ConntrackRec
      BY <3>1, FieldUpdate
    <3> QED BY <3>2 DEF Fresh, Unborn
  <2>3. ct' = [ct EXCEPT ![n] = r] /\ byKey' = byKey /\ byKey[k] = 0
    BY <1>4, <2>1, <2>2 DEF GetClosed
  <2>4. ct'[n] = r /\ \A i \in 1 .. nextAuthID : ct'[i] = ct[i]
    BY <1>1, <2>1, <2>3
  <2> QED BY <1>1, <2>1, <2>2, <2>3, <2>4 DEF Gets, Stays
<1> QED BY <1>2, <1>3, <1>4 DEF GetOrCreate

\* A call other than getOrCreate creates nothing.
LEMMA PlainCreatesNothing ==
  ASSUME MgrInv, Plain \/ NextAuthBatch
  PROVE  NoBirth
<1>1. \A gone : \A k \in Keys : KeysWithout(gone)[k] \in {0, byKey[k]}
  BY KeysWithoutLoses
<1> QED BY <1>1 DEF NoBirth, Plain, ObservePacket, NextAuthBatch, MarkAuthSent, ExpireAuth,
           RetryAuth, CompleteAuth, RemoveExpired, CloseMgr, Tick, Remove, Unlink, mgrVars

\* A quiet call leaves every conntrack that exists as Stays says.
LEMMA QuietStays ==
  ASSUME MgrInv, Quiet
  PROVE  \A i \in 1 .. nextAuthID : Stays(i)
<1>1. /\ {"evicted", "timeout", "closed", "denied", "failed"} \subseteq Answers \ {"waiting", "granted"}
      /\ 1 .. nextAuthID \subseteq IDs /\ TypeOK /\ IndexesAgree
      /\ ct \in [IDs -> ConntrackRec] /\ byKey \in [Keys -> IDs \cup {0}]
      /\ byID \subseteq 1 .. nextAuthID /\ now \in Nat
  BY MgrInvFacts DEF Answers, Verdicts, TypeOK
<1>2. CASE \E k \in Keys : GetOrCreate(k)
  BY <1>2, GetStays
<1>3. ASSUME NEW i \in IDs, NEW r \in ConntrackRec, ct' = [ct EXCEPT ![i] = r],
             r.key = ct[i].key, r.answer = ct[i].answer, r.pending = ct[i].pending
      PROVE  \A j \in 1 .. nextAuthID : Stays(j)
  <2>1. ct'[i] = r /\ \A j \in IDs \ {i} : ct'[j] = ct[j]
    BY <1>1, <1>3
  <2> QED BY <1>1, <1>3, <2>1 DEF Stays
<1>4. ASSUME NEW k \in Keys, NEW ttl \in TTLs, ObservePacket(k, ttl)
      PROVE  \A i \in 1 .. nextAuthID : Stays(i)
  <2>1. byKey[k] \in IDs /\ ct[byKey[k]] \in ConntrackRec /\ now + ttl \in Nat
    BY <1>1, <1>4 DEF ObservePacket
  <2>2. PICK i \in IDs : i = byKey[k]
    BY <2>1
  <2>3. PICK r \in ConntrackRec : /\ r = [ct[i] EXCEPT !.expiresAt = now + ttl]
                                  /\ r.key = ct[i].key /\ r.answer = ct[i].answer
                                  /\ r.pending = ct[i].pending
    <3>1. [ct[i] EXCEPT !.expiresAt = now + ttl] \in ConntrackRec
      BY <2>1, <2>2, FieldUpdate
    <3> QED BY <1>1, <3>1 DEF ConntrackRec
  <2>4. ct' = [ct EXCEPT ![i] = r]
    BY <1>4, <2>2, <2>3 DEF ObservePacket
  <2> QED BY <1>3, <2>3, <2>4
<1>5. CASE NextAuthBatch
  <2> SUFFICES ASSUME NEW i \in 1 .. nextAuthID PROVE Stays(i)
    OBVIOUS
  <2>1. \/ ct'[i] = ct[i]
        \/ ct'[i] = [ct[i] EXCEPT !.started = 1]
    BY <1>1, <1>5 DEF NextAuthBatch
  <2> QED BY <1>1, <2>1 DEF Stays, ConntrackRec
<1>6. CASE ExpireAuth
  <2> SUFFICES ASSUME NEW i \in 1 .. nextAuthID PROVE Stays(i)
    OBVIOUS
  <2>1. ct[i] \in ConntrackRec
    BY <1>1
  <2>2. Charged(ct[i]) \in ConntrackRec
    BY <2>1, ChargedProps
  <2>3. \/ ct'[i] = Settle(Charged(ct[i]), "timeout")
        \/ ct'[i] = Rescheduled(Charged(ct[i]), now)
        \/ ct'[i] = ct[i]
    BY <1>1, <1>6 DEF ExpireAuth
  <2>4. CASE ct'[i] = Settle(Charged(ct[i]), "timeout")
    <3>1. "timeout" \in Answers
      BY <1>1
    <3>2. /\ ct'[i].pending = NoPackets /\ ct'[i].key = Charged(ct[i]).key
          /\ ct'[i].answer = IF Charged(ct[i]).answer = "waiting" THEN "timeout"
                            ELSE Charged(ct[i]).answer
      BY <2>2, <2>4, <3>1, SettleProps
    <3>3. Charged(ct[i]).key = ct[i].key /\ Charged(ct[i]).answer = ct[i].answer
      BY <2>1, ChargedProps
    <3> QED BY <3>2, <3>3 DEF Stays, Waiting
  <2>5. CASE ct'[i] = Rescheduled(Charged(ct[i]), now)
    BY <1>1, <2>1, <2>2, <2>5, RescheduledProps, ChargedProps DEF Stays
  <2> QED BY <2>3, <2>4, <2>5 DEF Stays
<1>7. CASE RemoveExpired \/ CloseMgr
  <2>1. ASSUME NEW gone, NEW e \in {"evicted", "closed"}, ct' = SettleAll(gone, e)
        PROVE  \A i \in 1 .. nextAuthID : Stays(i)
    BY <1>1, <2>1, SettleAllStays
  <2> QED BY <1>7, <2>1 DEF RemoveExpired, CloseMgr, Remove
<1>8. ASSUME NEW i \in 1 .. nextAuthID, MarkAuthSent(i)
      PROVE  \A j \in 1 .. nextAuthID : Stays(j)
  <2>1. i \in IDs /\ ct[i] \in ConntrackRec /\ now + AuthTimeout \in Nat
    BY <1>1
  <2>2. PICK r \in ConntrackRec : /\ r = [ct[i] EXCEPT !.deadline = now + AuthTimeout]
                                  /\ r.key = ct[i].key /\ r.answer = ct[i].answer
                                  /\ r.pending = ct[i].pending
    <3>1. [ct[i] EXCEPT !.deadline = now + AuthTimeout] \in ConntrackRec
      BY <2>1, FieldUpdate
    <3> QED BY <2>1, <3>1 DEF ConntrackRec
  <2>3. ct' = [ct EXCEPT ![i] = r]
    BY <1>8, <2>2 DEF MarkAuthSent
  <2> QED BY <1>3, <2>1, <2>2, <2>3
<1>9. ASSUME NEW i \in 1 .. nextAuthID, NEW delay \in {0, RetryWait}, RetryAuth(i, delay)
      PROVE  \A j \in 1 .. nextAuthID : Stays(j)
  <2>1. i \in IDs /\ ct[i] \in ConntrackRec /\ now + delay \in Nat
    BY <1>1
  <2>2. PICK r \in ConntrackRec : /\ r = Rescheduled(ct[i], now + delay)
                                  /\ r.key = ct[i].key /\ r.answer = ct[i].answer
                                  /\ r.pending = ct[i].pending
    BY <2>1, RescheduledProps
  <2>3. ct' = [ct EXCEPT ![i] = r]
    BY <1>9, <2>2 DEF RetryAuth
  <2> QED BY <1>3, <2>1, <2>2, <2>3
<1>10. ASSUME NEW i \in 1 .. nextAuthID, NEW e \in {"denied", "failed"}, CompleteAuth(i, e)
       PROVE  \A j \in 1 .. nextAuthID : Stays(j)
  <2>1. i \in IDs /\ ct[i] \in ConntrackRec /\ e \in Answers
    BY <1>1
  <2>2. ct' = [ct EXCEPT ![i] = Settle(ct[i], e)] /\ Waiting(i)
    BY <1>10 DEF CompleteAuth
  <2>3. ct'[i] = Settle(ct[i], e) /\ \A j \in IDs \ {i} : ct'[j] = ct[j]
    BY <1>1, <2>2
  <2>4. Stays(i)
    BY <2>1, <2>2, <2>3, SettleProps DEF Stays, Waiting
  <2> QED BY <1>1, <2>3, <2>4 DEF Stays
<1>11. CASE Tick \/ UNCHANGED mgrVars
  BY <1>11 DEF Tick, mgrVars, Stays
<1> QED BY <1>2, <1>4, <1>5, <1>6, <1>7, <1>8, <1>9, <1>10, <1>11 DEF Quiet, Plain

\* A packet is cached in one conntrack, which waits, and nothing else changes.
LEMMA CacheEffect ==
  ASSUME MgrInv, NEW i \in 1 .. nextAuthID, NEW p \in Packets, CachePacket(i, p)
  PROVE  /\ Waiting(i) /\ byKey[ct[i].key] = i /\ NoBirth
         /\ ct'[i].pending = Append(ct[i].pending, p)
         /\ ct'[i].key = ct[i].key /\ ct'[i].answer = "waiting"
         /\ ct'[i].started = ct[i].started /\ ct'[i].deadline = ct[i].deadline
         /\ \A j \in IDs \ {i} : ct'[j] = ct[j]
         /\ byID' = byID
<1>1. i \in IDs /\ ct \in [IDs -> ConntrackRec] /\ ct[i] \in ConntrackRec
  BY MgrInvFacts DEF TypeOK
<1>2. Waiting(i) /\ byKey[ct[i].key] = i
  BY <1>1 DEF CachePacket, CacheVerdict, Waiting, ConntrackRec, Answers, Verdicts
<1>3. ct' = [ct EXCEPT ![i] = [ct[i] EXCEPT !.pending = Append(ct[i].pending, p)]]
  BY DEF CachePacket
<1>4. /\ ct'[i] = [ct[i] EXCEPT !.pending = Append(ct[i].pending, p)]
      /\ \A j \in IDs \ {i} : ct'[j] = ct[j]
  BY <1>1, <1>3
<1>5. NoBirth /\ byID' = byID
  BY DEF CachePacket, NoBirth
<1> QED BY <1>1, <1>2, <1>4, <1>5 DEF ConntrackRec, Waiting

\* A flow is authorised, and nothing else changes.
LEMMA GrantEffect ==
  ASSUME MgrInv, NEW i \in 1 .. nextAuthID, CompleteAuth(i, "granted")
  PROVE  /\ Waiting(i) /\ i \in byID /\ NoBirth
         /\ ct'[i].answer = "granted" /\ ct'[i].pending = NoPackets
         /\ ct'[i].key = ct[i].key
         /\ \A j \in IDs \ {i} : ct'[j] = ct[j]
         /\ byID' = byID
<1>1. i \in IDs /\ ct \in [IDs -> ConntrackRec] /\ ct[i] \in ConntrackRec
      /\ "granted" \in Answers
  BY MgrInvFacts DEF TypeOK, Answers, Verdicts
<1>2. /\ ct' = [ct EXCEPT ![i] = Settle(ct[i], "granted")] /\ Waiting(i) /\ i \in byID
      /\ byID' = byID /\ NoBirth
  BY DEF CompleteAuth, NoBirth
<1>3. ct'[i] = Settle(ct[i], "granted") /\ \A j \in IDs \ {i} : ct'[j] = ct[j]
  BY <1>1, <1>2
<1>4. /\ Settle(ct[i], "granted").pending = NoPackets
      /\ Settle(ct[i], "granted").answer = "granted"
      /\ Settle(ct[i], "granted").key = ct[i].key
  BY <1>1, <1>2, SettleProps DEF Waiting
<1> QED BY <1>2, <1>3, <1>4

\* A batch has an order, and its sequence names every conntrack in it.
LEMMA BatchInOrder ==
  ASSUME MgrInv
  PROVE  /\ Cardinality(Batch) \in Nat /\ Batch \subseteq byID
         /\ BatchSeq \in [1 .. Cardinality(Batch) -> Batch]
         /\ \A i \in Batch : \E x \in 1 .. Cardinality(Batch) : BatchSeq[x] = i
<1>1. Batch \subseteq byID
  BY DEF Batch, Eligible
<1>2. /\ IsFiniteSet(byID)
      /\ \A i \in byID : ahead[i] \subseteq byID \ {i}
      /\ \A i, j \in byID : i # j => i \in ahead[j] \/ j \in ahead[i]
      /\ \A i, j \in byID : i \in ahead[j] => ahead[i] \subseteq ahead[j] \ {i}
  BY TableFinite, MgrInvFacts DEF ListInOrder
<1>3. PICK B : B = Batch
  OBVIOUS
<1>4. PICK n : n = Cardinality(B)
  OBVIOUS
<1>5. IsFiniteSet(B) /\ n \in Nat /\ IsFiniteSet(1 .. n) /\ Cardinality(1 .. n) = n
  <2>1. IsFiniteSet(B)
    BY <1>1, <1>2, <1>3, FS_Subset
  <2>2. n \in Nat
    BY <1>4, <2>1, FS_CardinalityType
  <2>3. IsFiniteSet(1 .. n) /\ Cardinality(1 .. n) = (IF 1 > n THEN 0 ELSE n - 1 + 1)
    BY <2>2, FS_Interval
  <2> QED BY <2>1, <2>2, <2>3
<1> DEFINE before(i) == ahead[i] \cap B
           place(i) == Cardinality(before(i)) + 1
<1>6. ASSUME NEW i \in B
      PROVE  /\ IsFiniteSet(before(i)) /\ Cardinality(before(i)) \in Nat
             /\ place(i) \in 1 .. n
  <2>1. IsFiniteSet(B \ {i}) /\ Cardinality(B \ {i}) = n - 1
    BY <1>4, <1>5, FS_RemoveElement
  <2>2. before(i) \in SUBSET (B \ {i})
    BY <1>1, <1>2, <1>3
  <2>3. IsFiniteSet(before(i)) /\ Cardinality(before(i)) <= n - 1
    BY <2>1, <2>2, FS_Subset
  <2>4. Cardinality(before(i)) \in Nat
    BY <2>3, FS_CardinalityType
  <2> QED BY <1>5, <2>3, <2>4
<1>7. ASSUME NEW i \in B, NEW j \in B, i \in ahead[j]
      PROVE  place(i) < place(j)
  <2>1. i \in before(j) /\ before(i) \in SUBSET (before(j) \ {i})
    BY <1>1, <1>2, <1>3, <1>7
  <2>2. IsFiniteSet(before(j)) /\ Cardinality(before(j)) \in Nat /\ Cardinality(before(i)) \in Nat
    BY <1>6
  <2>3. IsFiniteSet(before(j) \ {i}) /\ Cardinality(before(j) \ {i}) = Cardinality(before(j)) - 1
    BY <2>1, <2>2, FS_RemoveElement
  <2>4. Cardinality(before(i)) <= Cardinality(before(j) \ {i})
    BY <2>1, <2>3, FS_Subset
  <2> QED BY <2>2, <2>3, <2>4
<1> HIDE DEF place
<1>8. PICK pos : pos = [i \in B |-> place(i)]
  OBVIOUS
<1>9. pos \in Injection(B, 1 .. n)
  <2>1. pos \in [B -> 1 .. n]
    BY <1>6, <1>8
  <2>2. ASSUME NEW i \in B, NEW j \in B, pos[i] = pos[j], i # j PROVE FALSE
    <3>1. place(i) < place(j) \/ place(j) < place(i)
      BY <1>1, <1>2, <1>3, <1>7, <2>2
    <3>2. place(i) = place(j) /\ place(i) \in 1 .. n
      BY <1>6, <1>8, <2>2
    <3> QED BY <3>1, <3>2
  <2> QED BY <2>1, <2>2 DEF Injection, IsInjective
<1>10. \A x \in 1 .. n : \E i \in B : pos[i] = x
  <2>1. pos \in Surjection(B, 1 .. n)
    BY <1>4, <1>5, <1>9, FS_Injection
  <2> QED BY <2>1 DEF Surjection
<1>11. \E s \in [1 .. n -> B] : \A x, y \in 1 .. n : x < y => s[x] \in ahead[s[y]]
  <2> DEFINE s == [x \in 1 .. n |-> CHOOSE i \in B : pos[i] = x]
  <2>1. s \in [1 .. n -> B] /\ \A x \in 1 .. n : pos[s[x]] = x
    BY <1>10
  <2> HIDE DEF s
  <2>2. ASSUME NEW x \in 1 .. n, NEW y \in 1 .. n, x < y PROVE s[x] \in ahead[s[y]]
    <3>1. s[x] \in B /\ s[y] \in B /\ s[x] # s[y]
      BY <1>5, <2>1, <2>2
    <3>2. s[x] \in ahead[s[y]] \/ s[y] \in ahead[s[x]]
      BY <1>1, <1>2, <1>3, <3>1
    <3>3. s[y] \notin ahead[s[x]]
      <4> SUFFICES ASSUME s[y] \in ahead[s[x]] PROVE FALSE
        OBVIOUS
      <4>1. place(s[y]) < place(s[x])
        BY <1>7, <3>1
      <4>2. place(s[y]) = y /\ place(s[x]) = x
        BY <1>8, <2>1, <3>1
      <4> QED BY <1>5, <2>2, <4>1, <4>2
    <3> QED BY <3>2, <3>3
  <2> QED BY <2>1, <2>2
<1>12. PICK t : t = BatchSeq
  OBVIOUS
<1>13. t \in [1 .. n -> B] /\ \A x, y \in 1 .. n : x < y => t[x] \in ahead[t[y]]
  BY <1>3, <1>4, <1>11, <1>12 DEF BatchSeq
<1>14. t \in Injection(1 .. n, B)
  <2>1. ASSUME NEW x \in 1 .. n, NEW y \in 1 .. n, x < y PROVE t[x] # t[y]
    BY <1>1, <1>2, <1>3, <1>13, <2>1
  <2>2. ASSUME NEW x \in 1 .. n, NEW y \in 1 .. n, t[x] = t[y] PROVE x = y
    <3>1. ~(x < y) /\ ~(y < x)
      BY <2>1, <2>2
    <3> QED BY <1>5, <3>1
  <2> QED BY <1>13, <2>2 DEF Injection, IsInjective
<1>15. t \in Surjection(1 .. n, B)
  BY <1>4, <1>5, <1>14, FS_Injection
<1> QED BY <1>1, <1>3, <1>4, <1>5, <1>12, <1>13, <1>15 DEF Surjection

\* Conntrack i waits for its answer, is marked as asked for and has no deadline yet.
Marked(i) == i \in byID /\ Waiting(i) /\ ct[i].started # 0 /\ ct[i].deadline = 0

\* Only nextAuthBatch marks a conntrack, and markAuthSent gives it its deadline.
LEMMA MarkedBefore ==
  ASSUME MgrInv, NEW i \in IDs, Marked(i)',
         \/ Plain
         \/ \E k \in Keys : GetOrCreate(k)
         \/ \E j \in 1 .. nextAuthID, p \in Packets : CachePacket(j, p)
         \/ \E j \in 1 .. nextAuthID : CompleteAuth(j, "granted")
  PROVE  Marked(i) /\ ~MarkAuthSent(i)
<1>1. /\ ct \in [IDs -> ConntrackRec] /\ ct[i] \in ConntrackRec /\ now \in Nat
      /\ byKey \in [Keys -> IDs \cup {0}]
      /\ TypeOK /\ byID \subseteq 1 .. nextAuthID /\ nextAuthID \in Nat
      /\ now # 0
  BY MgrInvFacts DEF TypeOK, MgrInv
<1>2. /\ i \in byID' /\ ct'[i].answer = "waiting"
      /\ ct'[i].started # 0 /\ ct'[i].deadline = 0
  BY DEF Marked, Waiting
<1>3. ASSUME i \in byID, ct'[i].started = ct[i].started, ct'[i].deadline = ct[i].deadline,
             ct'[i].answer = ct[i].answer
      PROVE  Marked(i)
  BY <1>2, <1>3 DEF Marked, Waiting
<1>4. ASSUME i \in byID, ct'[i] = ct[i] PROVE Marked(i)
  BY <1>3, <1>4
<1>5. CASE MarkAuthSent(i)
  <2>1. ct'[i] = [ct[i] EXCEPT !.deadline = now + AuthTimeout]
    BY <1>1, <1>5 DEF MarkAuthSent
  <2>2. ct'[i].deadline = now + AuthTimeout
    BY <1>1, <2>1 DEF ConntrackRec
  <2> QED BY <1>1, <1>2, <2>2
<1>6. CASE \E k \in Keys : GetHit(k)
  <2>1. byID' = byID \ Expired /\ ct' = SettleAll(Expired, "evicted")
    BY <1>6 DEF GetHit
  <2>2. i \in byID /\ ct'[i] = ct[i]
    BY <1>2, <2>1 DEF SettleAll
  <2> QED BY <1>4, <1>5, <2>2
<1>7. CASE \E k \in Keys : GetCreate(k)
  <2>1. PICK k \in Keys : GetCreate(k)
    BY <1>7
  <2>2. PICK n \in IDs : n = nextAuthID + 1
    BY <1>1, <2>1 DEF GetCreate, IDs
  <2>3. /\ byID' = (byID \ Victims) \cup {n} /\ n \notin byID
        /\ ct' = [SettleAll(Victims, "evicted") EXCEPT ![n] = Fresh(k)]
    BY <1>1, <2>1, <2>2 DEF GetCreate
  <2>4. SettleAll(Victims, "evicted") \in [IDs -> ConntrackRec]
    BY <1>1, SettleAllType DEF Answers
  <2>5. CASE i = n
    BY <1>2, <2>3, <2>4, <2>5 DEF Fresh, Unborn
  <2>6. CASE i # n
    <3>1. i \in byID /\ ct'[i] = ct[i]
      BY <1>2, <2>3, <2>4, <2>6 DEF SettleAll
    <3> QED BY <1>4, <1>5, <3>1
  <2> QED BY <2>5, <2>6
<1>8. CASE \E k \in Keys : GetClosed(k)
  <2>0. PICK k \in Keys : GetClosed(k)
    BY <1>8
  <2>a. PICK n \in IDs : n = nextAuthID + 1
    BY <1>1, <2>0 DEF GetClosed, IDs
  <2>b. PICK r : r = [Fresh(k) EXCEPT !.answer = "closed"]
    OBVIOUS
  <2>1. ct' = [ct EXCEPT ![n] = r] /\ byID' = byID
    BY <2>0, <2>a, <2>b DEF GetClosed
  <2>2. i \in byID /\ i # n
    BY <1>1, <1>2, <2>a, <2>1
  <2>3. ct'[i] = ct[i]
    BY <1>1, <2>1, <2>2
  <2> QED BY <1>4, <1>5, <2>2, <2>3
<1>9. CASE \E k \in Keys, ttl \in TTLs : ObservePacket(k, ttl)
  <2>0. PICK k \in Keys, ttl \in TTLs : ObservePacket(k, ttl)
    BY <1>9
  <2>a. PICK j \in IDs : j = byKey[k]
    BY <1>1, <2>0 DEF ObservePacket
  <2>b. PICK t : t = now + ttl
    OBVIOUS
  <2>1. ct' = [ct EXCEPT ![j].expiresAt = t] /\ byID' = byID
    BY <2>0, <2>a, <2>b DEF ObservePacket
  <2>2. /\ ct'[i].started = ct[i].started /\ ct'[i].deadline = ct[i].deadline
        /\ ct'[i].answer = ct[i].answer
    BY <1>1, <2>1 DEF ConntrackRec
  <2> QED BY <1>2, <1>3, <1>5, <2>1, <2>2
<1>10. CASE \E j \in 1 .. nextAuthID, p \in Packets : CachePacket(j, p)
  <2>1. PICK j \in 1 .. nextAuthID, p \in Packets : CachePacket(j, p)
    BY <1>10
  <2>2. /\ ct'[j].started = ct[j].started /\ ct'[j].deadline = ct[j].deadline
        /\ Waiting(j) /\ byID' = byID /\ \A l \in IDs \ {j} : ct'[l] = ct[l]
    BY <2>1, CacheEffect
  <2> QED BY <1>2, <1>4, <1>5, <2>2 DEF Marked, Waiting
<1>12. CASE \E j \in 1 .. nextAuthID : MarkAuthSent(j)
  <2>1. PICK j \in 1 .. nextAuthID : MarkAuthSent(j)
    BY <1>12
  <2>2. CASE j = i
    BY <1>5, <2>1, <2>2
  <2>3. CASE j # i
    <3>1. ct'[i] = ct[i] /\ byID' = byID
      BY <1>1, <2>1, <2>3 DEF MarkAuthSent
    <3> QED BY <1>2, <1>4, <1>5, <3>1
  <2> QED BY <2>2, <2>3
<1>13. CASE ExpireAuth
  <2>1. i \in byID \ Spent
    BY <1>2, <1>13 DEF ExpireAuth, Unlink
  <2>2. CASE i \in Due
    <3>1. ct'[i] = Rescheduled(Charged(ct[i]), now)
      BY <1>13, <2>1, <2>2 DEF ExpireAuth
    <3>2. Charged(ct[i]) \in ConntrackRec
      BY <1>1, ChargedProps
    <3>3. ct'[i].started = 0
      BY <3>1, <3>2 DEF Rescheduled, ConntrackRec
    <3> QED BY <1>2, <3>3
  <2>3. CASE i \notin Due
    <3>1. ct'[i] = ct[i]
      BY <1>13, <2>1, <2>3 DEF ExpireAuth
    <3> QED BY <1>4, <1>5, <2>1, <3>1
  <2> QED BY <2>2, <2>3
<1>14. CASE \E j \in 1 .. nextAuthID, delay \in {0, RetryWait} : RetryAuth(j, delay)
  <2>1. PICK j \in 1 .. nextAuthID, delay \in {0, RetryWait} : RetryAuth(j, delay)
    BY <1>14
  <2>2. ct' = [ct EXCEPT ![j] = Rescheduled(ct[j], now + delay)] /\ byID' = byID
    BY <2>1 DEF RetryAuth
  <2>3. CASE j = i
    <3>1. ct'[i].started = 0
      BY <1>1, <2>2, <2>3 DEF Rescheduled, ConntrackRec
    <3> QED BY <1>2, <3>1
  <2>4. CASE j # i
    <3>1. ct'[i] = ct[i]
      BY <1>1, <2>2, <2>4
    <3> QED BY <1>2, <1>4, <1>5, <2>2, <3>1
  <2> QED BY <2>3, <2>4
<1>15. CASE \E j \in 1 .. nextAuthID, e \in Verdicts : CompleteAuth(j, e)
  <2>1. PICK j \in 1 .. nextAuthID, e \in Verdicts : CompleteAuth(j, e)
    BY <1>15
  <2>2. ct' = [ct EXCEPT ![j] = Settle(ct[j], e)] /\ byID' \subseteq byID /\ Waiting(j)
    BY <2>1 DEF CompleteAuth, Unlink
  <2>3. CASE j = i
    <3>1. e \in Answers /\ e # "waiting"
      BY DEF Verdicts, Answers
    <3>2. ct'[i].answer = e
      BY <1>1, <2>2, <2>3, <3>1, SettleProps DEF Waiting
    <3> QED BY <1>2, <3>1, <3>2
  <2>4. CASE j # i
    <3>1. ct'[i] = ct[i]
      BY <1>1, <2>2, <2>4
    <3> QED BY <1>2, <1>4, <1>5, <2>2, <3>1
  <2> QED BY <2>3, <2>4
<1>16. CASE RemoveExpired \/ CloseMgr
  <2>1. PICK gone, e : byID' = byID \ gone /\ ct' = SettleAll(gone, e)
    BY <1>16 DEF RemoveExpired, CloseMgr, Remove, Unlink
  <2>2. i \in byID /\ ct'[i] = ct[i]
    BY <1>2, <2>1 DEF SettleAll
  <2> QED BY <1>4, <1>5, <2>2
<1>17. CASE Tick \/ UNCHANGED mgrVars
  <2>1. ct' = ct /\ byID' = byID
    BY <1>17 DEF Tick, mgrVars
  <2> QED BY <1>2, <1>4, <1>5, <2>1
<1>18. {"granted", "denied", "failed"} = Verdicts
  BY DEF Verdicts
<1> QED BY <1>6, <1>7, <1>8, <1>9, <1>10, <1>12, <1>13, <1>14, <1>15, <1>16, <1>17, <1>18
        DEF Plain, GetOrCreate

\* ... and nextAuthBatch only those it takes.
LEMMA MarkedByBatch ==
  ASSUME NEW i \in IDs, NextAuthBatch, Marked(i)'
  PROVE  Marked(i) \/ i \in Batch
<1>1. CASE i \notin Batch
  <2>1. ct'[i] = ct[i] /\ byID' = byID
    BY <1>1 DEF NextAuthBatch
  <2> QED BY <2>1 DEF Marked, Waiting
<1> QED BY <1>1

-----------------------------------------------------------------------------
(* The inductive invariant.                                                *)

WriterRec ==
  [pc : {"idle", "observe", "lock", "cache", "send", "again"}, n : 0 .. MaxSeq,
   conn : Conns, id : IDs \cup {0}, again : BOOLEAN]

AuthRec == [runs : BOOLEAN, jobs : Seq(IDs), sent : BOOLEAN]

ReaderRec ==
  [pc : {"read", "complete", "flush", "exited"}, id : IDs \cup {0}, answer : Answers,
   out : Seq(Packets)]

\* The types; and only connections that were made can be open.
Shape ==
  /\ cur \in Conns
  /\ open \subseteq 1 .. cur
  /\ sendMu \subseteq IDs
  /\ writer \in [Keys -> WriterRec]
  /\ auth \in [Conns -> AuthRec]
  /\ reader \in [Conns -> ReaderRec]
  /\ asked \in [Conns -> [IDs -> Nat]]
  /\ wire \in [Conns -> [Keys -> Seq(Packets)]]
  /\ home \in [Keys -> [Packets -> IDs \cup {0}]]

\* The writer of flow k has the flow's last conntrack, which is the one the key leads
\* to if it leads anywhere, and knows whether that one is authorised.
WriterHas(k) ==
  LET w == writer[k] IN
  /\ w.id <= nextAuthID
  /\ w.id # 0 => ct[w.id].key = k
  /\ byKey[k] \in {0, w.id}
  /\ \A i \in 1 .. nextAuthID : ct[i].key = k => i <= w.id
  /\ w.pc # "idle" => w.id # 0 /\ w.n # 0
  /\ w.pc = "send" => ct[w.id].answer = "granted"
  /\ w.pc = "cache" => ct[w.id].answer # "granted"

\* The loops of a connection work on conntracks that exist; what a readLoop still has
\* to send waited for a grant.
JobsExist(c) ==
  /\ \A x \in DOMAIN auth[c].jobs : auth[c].jobs[x] \in 1 .. nextAuthID
  /\ auth[c].sent => auth[c].jobs # <<>>
ReaderHas(c) ==
  /\ reader[c].pc \in {"complete", "flush"} => reader[c].id \in 1 .. nextAuthID /\ c <= cur
  /\ reader[c].pc = "complete" => reader[c].answer \in {"granted", "denied"}
  /\ reader[c].pc = "flush" => ct[reader[c].id].answer = "granted" /\ reader[c].out # <<>>

Hands ==
  /\ \A i \in 1 .. nextAuthID : ct[i].key \in Keys
  /\ \A k \in Keys : WriterHas(k)
  /\ \A c \in Conns : JobsExist(c) /\ ReaderHas(c)

\* The critical sections of sendMu.
Holds(k, i) == writer[k].id = i /\ (Writing(k, "cache") \/ Writing(k, "send"))
Flushes(c, i) == reader[c].pc = "flush" /\ reader[c].id = i

\* sendMu excludes.
Locks ==
  \A i \in IDs :
    /\ i \in sendMu => (\E k \in Keys : Holds(k, i)) \/ (\E c \in Conns : Flushes(c, i))
    /\ \A k \in Keys : Holds(k, i) =>
         /\ i \in sendMu
         /\ \A l \in Keys : Holds(l, i) => l = k
         /\ \A c \in Conns : ~Flushes(c, i)
    /\ \A c \in Conns : Flushes(c, i) =>
         i \in sendMu /\ \A d \in Conns : Flushes(d, i) => d = c

\* Packet n of flow k is still to be given to a conntrack.
Unwritten(k, n) == n > writer[k].n \/ (n = writer[k].n /\ ~Writing(k, "idle"))

\* Packet n of flow k has been written on some connection, or a readLoop has it.
Sent(k, n) == \E c \in Conns : \E x \in DOMAIN wire[c][k] : wire[c][k][x] = n
InOut(n, i) ==
  \E c \in Conns : Flushes(c, i) /\ \E x \in DOMAIN reader[c].out : reader[c].out[x] = n

\* A packet's home is a conntrack of its flow, later packets have later homes, and the
\* packet is where the answer of its home says.
HomeOf(k, n) ==
  LET i == home[k][n] IN
  /\ Unwritten(k, n) => i = 0
  /\ i # 0 =>
       /\ i <= nextAuthID /\ ct[i].key = k
       /\ \A m \in Packets : m < n => home[k][m] <= i
       /\ Waiting(i) => \E x \in DOMAIN ct[i].pending : ct[i].pending[x] = n
       /\ ct[i].answer = "granted" => Sent(k, n) \/ InOut(n, i) \/ open # 1 .. cur

Increasing(s) == \A x, y \in DOMAIN s : x < y => s[x] < s[y]

\* What conntrack i holds is at home, in the order written.
PendingAtHome(i) ==
  /\ Increasing(ct[i].pending)
  /\ \A x \in DOMAIN ct[i].pending : home[ct[i].key][ct[i].pending[x]] = i

\* So is what a readLoop still has to send, all of it later than what it has sent.
OutAtHome(c) ==
  LET i == reader[c].id
      k == ct[i].key IN
  reader[c].pc = "flush" =>
    /\ Increasing(reader[c].out)
    /\ \A x \in DOMAIN reader[c].out :
         /\ home[k][reader[c].out[x]] = i
         /\ \A y \in DOMAIN wire[c][k] :
              home[k][wire[c][k][y]] = i => wire[c][k][y] < reader[c].out[x]

\* What was sent had an authorised home.
WireAtHome(c, k) ==
  \A x \in DOMAIN wire[c][k] :
    /\ home[k][wire[c][k][x]] # 0
    /\ ct[home[k][wire[c][k][x]]].answer = "granted"

\* Until its connection is replaced, only the last conntrack of a flow is ever granted while
\* what waited for it is being sent.
LastGrant ==
  cur = 1 /\ reader[1].pc = "flush" =>
    \A j \in 1 .. nextAuthID :
      ct[j].key = ct[reader[1].id].key /\ ct[j].answer = "granted" => j <= reader[1].id

Homes ==
  /\ \A k \in Keys, n \in Packets : HomeOf(k, n)
  /\ \A i \in 1 .. nextAuthID : PendingAtHome(i)
  /\ \A c \in Conns : OutAtHome(c)
  /\ \A c \in Conns, k \in Keys : WireAtHome(c, k)
  /\ LastGrant

\* What nextAuthBatch marked and markAuthSent has not timed yet is some authLoop's job.
Care ==
  open = 1 .. cur =>
    \A i \in IDs : Marked(i) => \E c \in Conns : \E x \in DOMAIN auth[c].jobs : auth[c].jobs[x] = i

ConnInv == MgrInv /\ Shape /\ Hands /\ Locks /\ Homes /\ FlowOrder /\ Care

-----------------------------------------------------------------------------
(* The kinds of steps, by what they do to the table.                       *)

\* getOrCreate for a writer.
Starts(k) == WriteStart(k) \/ WriteAgain(k)

\* cachePacket takes the packet, or does not.
CacheKept(k) ==
  /\ WriteCache(k)
  /\ CachePacket(writer[k].id, writer[k].n)
  /\ home' = [home EXCEPT ![k][writer[k].n] = writer[k].id]
  /\ Return(k)
CacheRefused(k) == WriteCache(k) /\ UNCHANGED <<mgrVars, home>>

\* completeAuth authorises the flow, or does not.
GrantStep(c) ==
  /\ Complete(c)
  /\ CompleteAuth(reader[c].id, "granted")
  /\ IF ct[reader[c].id].pending # NoPackets
     THEN /\ reader' = [reader EXCEPT ![c].pc = "flush", ![c].out = ct[reader[c].id].pending]
          /\ sendMu' = sendMu \cup {reader[c].id}
     ELSE reader' = [reader EXCEPT ![c] = Listening] /\ UNCHANGED sendMu
Refusal(c) ==
  /\ Complete(c)
  /\ reader' = [reader EXCEPT ![c] = Listening]
  /\ UNCHANGED sendMu

\* All steps whose call is plain.
PlainStep ==
  /\ Plain
  /\ \/ \E k \in Keys : \/ WriteGiveUp(k) \/ WriteObserve(k) \/ WriteLock(k)
                        \/ CacheRefused(k) \/ WriteSend(k) \/ WriteFail(k)
     \/ \E c \in 1 .. cur : \/ SendAuth(c) \/ SendAuthFail(c) \/ AuthSent(c) \/ AuthExit(c)
                            \/ Responses(c) \/ Refusal(c) \/ Flush(c) \/ FlushFail(c)
                            \/ ReadExit(c) \/ ConnClose(c)
     \/ Reconnect
     \/ UNCHANGED connVars

AnyStep ==
  \/ \E k \in Keys : Starts(k)
  \/ \E c \in 1 .. cur : Dispatch(c)
  \/ \E k \in Keys : CacheKept(k)
  \/ \E c \in 1 .. cur : GrantStep(c)
  \/ PlainStep

LEMMA TargetExists ==
  ASSUME MgrInv, Hands, NEW i \in 1 .. nextAuthID, NEW j \in Target(i)
  PROVE  j \in 1 .. nextAuthID
<1>1. \A k \in Keys : byKey[k] \in byID \cup {0}
  BY DEF MgrInv, IndexesAgree, Hands
<1>2. i \notin byID => \E k \in Keys : j = byKey[k] /\ j # 0
  BY DEF Target
<1> QED BY <1>1, <1>2, MgrInvFacts DEF Target

LEMMA StepKinds ==
  ASSUME MgrInv, Shape, Hands, [Next]_vars
  PROVE  AnyStep
<1>1. /\ nextAuthID \in Nat /\ 1 .. nextAuthID \subseteq IDs /\ cur \in Nat /\ 1 .. cur \subseteq Conns
      /\ byID \subseteq 1 .. nextAuthID
  BY MgrInvFacts, L3TunnelConnAssumption DEF Shape, Conns
<1>2. UNCHANGED mgrVars => Plain
  BY DEF Plain
<1>3. ASSUME NEW k \in Keys, WriterNext(k)
      PROVE  Starts(k) \/ CacheKept(k) \/ PlainStep
  <2>1. CASE WriteGiveUp(k) \/ WriteLock(k) \/ WriteSend(k) \/ WriteFail(k)
    BY <1>2, <2>1 DEF PlainStep, WriteGiveUp, WriteLock, WriteSend, WriteFail, mgrVars
  <2>2. CASE WriteObserve(k)
    BY <1>2, <2>2 DEF PlainStep, WriteObserve, Plain
  <2>3. CASE WriteCache(k)
    <3>1. CacheVerdict(writer[k].id) = "cached" => CacheKept(k)
      BY <2>3 DEF WriteCache, CacheKept, ReturnError
    <3>2. CacheVerdict(writer[k].id) # "cached" => CacheRefused(k)
      BY <2>3 DEF WriteCache, CacheRefused, CachePacket
    <3>3. CacheRefused(k) => PlainStep
      BY <1>2 DEF PlainStep, CacheRefused, mgrVars
    <3> QED BY <3>1, <3>2, <3>3
  <2> QED BY <1>3, <2>1, <2>2, <2>3 DEF WriterNext, Starts
<1>4. ASSUME NEW c \in 1 .. cur, AuthNext(c)
      PROVE  Dispatch(c) \/ PlainStep
  <2>0. /\ \A x \in DOMAIN auth[c].jobs : auth[c].jobs[x] \in 1 .. nextAuthID
        /\ auth[c].jobs \in Seq(IDs) /\ (auth[c].sent => auth[c].jobs # <<>>)
    BY <1>1 DEF Hands, JobsExist, ReaderHas, Shape, AuthRec
  <2>a. auth[c].jobs # <<>> => Head(auth[c].jobs) \in 1 .. nextAuthID
    BY <2>0
  <2>1. CASE Expire(c)
    BY <2>1 DEF PlainStep, Expire, Plain
  <2>2. CASE SendAuth(c) \/ AuthExit(c)
    BY <1>2, <2>2 DEF PlainStep, SendAuth, AuthExit, mgrVars
  <2>3. CASE SendAuthFail(c)
    BY <1>2, <2>a, <2>3 DEF PlainStep, SendAuthFail, Plain
  <2>4. CASE AuthSent(c)
    BY <1>2, <2>0, <2>a, <2>4 DEF PlainStep, AuthSent, Plain
  <2> QED BY <1>4, <2>1, <2>2, <2>3, <2>4 DEF AuthNext
<1>5. ASSUME NEW c \in 1 .. cur, ReaderNext(c)
      PROVE  GrantStep(c) \/ PlainStep
  <2>1. CASE Flush(c) \/ FlushFail(c) \/ ReadExit(c)
    BY <1>2, <2>1 DEF PlainStep, Flush, FlushFail, ReadExit, mgrVars
  <2>4. CASE Incoming(c)
    BY <2>4 DEF PlainStep, Incoming, Plain
  <2>2. CASE Responses(c)
    <3>1. PICK i \in 1 .. nextAuthID : \/ \E delay \in {0, RetryWait} : RespRetry(c, i, delay)
                                       \/ \E e \in {"granted", "denied"} : RespFinal(c, i, e)
      BY <2>2 DEF Responses
    <3>2. Plain
      BY <1>2, <3>1, TargetExists DEF RespRetry, RespFinal, Plain, mgrVars
    <3> QED BY <2>2, <3>2 DEF PlainStep
  <2>3. CASE Complete(c)
    <3>1. reader[c].id \in 1 .. nextAuthID /\ reader[c].answer \in {"granted", "denied"}
      BY <1>1, <2>3 DEF Hands, JobsExist, ReaderHas, Complete
    <3>2. CASE CompleteAuth(reader[c].id, "granted") /\ reader[c].answer = "granted"
      <4>1. reader[c].id \in byID /\ Waiting(reader[c].id)
        BY <3>2 DEF CompleteAuth
      <4> QED BY <2>3, <3>2, <4>1 DEF Complete, GrantStep
    <3>3. CASE CompleteAuth(reader[c].id, "denied") /\ reader[c].answer = "denied"
      <4>1. reader[c].id \in byID /\ Waiting(reader[c].id)
        BY <3>3 DEF CompleteAuth
      <4>2. Refusal(c)
        BY <2>3, <3>3, <4>1 DEF Complete, Refusal
      <4>3. Plain
        BY <3>1, <3>3 DEF Plain
      <4> QED BY <4>2, <4>3 DEF PlainStep
    <3>4. CASE ~CompleteAuth(reader[c].id, reader[c].answer)
      <4>1. Refusal(c) /\ Plain
        BY <1>2, <2>3, <3>4 DEF Complete, Refusal, mgrVars
      <4> QED BY <4>1 DEF PlainStep
    <3> QED BY <3>1, <3>2, <3>3, <3>4
  <2> QED BY <1>5, <2>1, <2>2, <2>3, <2>4 DEF ReaderNext
<1>6. ASSUME NEW c \in 1 .. cur, ConnClose(c) PROVE PlainStep
  BY <1>2, <1>6 DEF PlainStep, ConnClose, mgrVars
<1>7. ASSUME Reconnect PROVE PlainStep
  BY <1>2, <1>7 DEF PlainStep, Reconnect, mgrVars
<1>8. ASSUME Housekeep \/ TunnelClose \/ Clock \/ UNCHANGED vars PROVE PlainStep
  BY <1>2, <1>8 DEF PlainStep, Housekeep, TunnelClose, Clock, vars, Plain
<1> QED BY <1>3, <1>4, <1>5, <1>6, <1>7, <1>8 DEF Next, AnyStep

\* What the actors at work have in their hands.
LEMMA WriterAtWork ==
  ASSUME MgrInv, Shape, Hands, NEW k \in Keys, writer[k].pc # "idle"
  PROVE  /\ writer[k] \in WriterRec /\ writer[k].id \in 1 .. nextAuthID
         /\ writer[k].n \in Packets /\ ct[writer[k].id].key = k
<1>1. /\ writer[k] \in WriterRec /\ nextAuthID \in Nat
      /\ writer[k].id # 0 /\ writer[k].n # 0 /\ writer[k].id <= nextAuthID
      /\ ct[writer[k].id].key = k
  BY MgrInvFacts DEF Shape, Hands, WriterHas
<1> QED BY <1>1, L3TunnelConnAssumption DEF WriterRec, IDs

LEMMA ReaderAtWork ==
  ASSUME MgrInv, Shape, Hands, NEW c \in 1 .. cur, reader[c].pc \in {"complete", "flush"}
  PROVE  /\ c \in Conns /\ reader[c] \in ReaderRec /\ reader[c].id \in 1 .. nextAuthID
         /\ reader[c].id \in IDs /\ ct[reader[c].id].key \in Keys
<1>1. c \in Conns
  BY L3TunnelConnAssumption DEF Shape, Conns
<1> QED BY <1>1, MgrInvFacts DEF Shape, Hands, JobsExist, ReaderHas

\* The table sees only calls it allows.
LEMMA CallsAllowed ==
  ASSUME MgrInv, Shape, Hands, AnyStep
  PROVE  [MgrNext]_mgrVars
<1>1. {"granted", "denied", "failed"} = Verdicts
  BY DEF Verdicts
<1>2. CASE \E k \in Keys : Starts(k)
  BY <1>2 DEF Starts, WriteStart, WriteAgain, MgrNext
<1>3. CASE \E c \in 1 .. cur : Dispatch(c)
  BY <1>3 DEF Dispatch, MgrNext
<1>4. ASSUME NEW k \in Keys, CacheKept(k) PROVE MgrNext
  <2>1. writer[k].id \in 1 .. nextAuthID /\ writer[k].n \in Packets
    BY <1>4, WriterAtWork DEF CacheKept, WriteCache, Writing
  <2> QED BY <1>4, <2>1 DEF CacheKept, MgrNext
<1>5. ASSUME NEW c \in 1 .. cur, GrantStep(c) PROVE MgrNext
  <2>1. reader[c].id \in 1 .. nextAuthID
    BY <1>5, ReaderAtWork DEF GrantStep, Complete
  <2> QED BY <1>1, <1>5, <2>1 DEF GrantStep, MgrNext
<1>6. CASE PlainStep
  BY <1>1, <1>6 DEF PlainStep, Plain, MgrNext
<1> QED BY <1>2, <1>3, <1>4, <1>5, <1>6 DEF AnyStep

\* Conntrack i keeps its key and its authorisation; it is only authorised when nobody
\* holds its sendMu.
Preserved(i) ==
  /\ ct'[i].key = ct[i].key
  /\ ct[i].answer = "granted" => ct'[i].answer = "granted"
  /\ ct'[i].answer = "granted" => ct[i].answer = "granted" \/ i \notin sendMu

LEMMA StepKeeps ==
  ASSUME MgrInv, Shape, Hands, AnyStep
  PROVE  \A i \in 1 .. nextAuthID : Preserved(i)
<1>1. ASSUME NEW i \in 1 .. nextAuthID, Stays(i) PROVE Preserved(i)
  BY <1>1 DEF Stays, Preserved, Waiting
<1>2. Quiet => \A i \in 1 .. nextAuthID : Preserved(i)
  BY <1>1, QuietStays
<1>3. CASE (\E k \in Keys : Starts(k)) \/ (\E c \in 1 .. cur : Dispatch(c)) \/ PlainStep
  BY <1>2, <1>3 DEF Starts, WriteStart, WriteAgain, Dispatch, PlainStep, Quiet
<1>4. ASSUME NEW k \in Keys, CacheKept(k), NEW i \in 1 .. nextAuthID PROVE Preserved(i)
  <2>1. /\ writer[k].id \in 1 .. nextAuthID /\ writer[k].n \in Packets /\ i \in IDs
        /\ CachePacket(writer[k].id, writer[k].n)
    BY <1>4, WriterAtWork, MgrInvFacts DEF CacheKept, WriteCache, Writing
  <2>2. /\ Waiting(writer[k].id) /\ ct'[writer[k].id].key = ct[writer[k].id].key
        /\ ct'[writer[k].id].answer = "waiting"
        /\ \A j \in IDs \ {writer[k].id} : ct'[j] = ct[j]
    BY <2>1, CacheEffect
  <2> QED BY <2>1, <2>2 DEF Preserved, Waiting
<1>5. ASSUME NEW c \in 1 .. cur, GrantStep(c), NEW i \in 1 .. nextAuthID PROVE Preserved(i)
  <2>1. /\ reader[c].id \in 1 .. nextAuthID /\ reader[c].id \notin sendMu /\ i \in IDs
        /\ CompleteAuth(reader[c].id, "granted")
    BY <1>5, ReaderAtWork, MgrInvFacts DEF GrantStep, Complete
  <2>2. /\ ct'[reader[c].id].key = ct[reader[c].id].key
        /\ ct'[reader[c].id].answer = "granted"
        /\ \A j \in IDs \ {reader[c].id} : ct'[j] = ct[j]
    BY <2>1, GrantEffect
  <2> QED BY <2>1, <2>2 DEF Preserved
<1> QED BY <1>3, <1>4, <1>5 DEF AnyStep

-----------------------------------------------------------------------------
(* What a step does to the goroutine that takes it.                        *)

\* The write of flow k moves to pc p; nothing else of it changes, nor of the others.
Moved(k, p) ==
  /\ writer' \in [Keys -> WriterRec]
  /\ \A l \in Keys \ {k} : writer'[l] = writer[l]
  /\ writer'[k].pc = p /\ writer'[k].n = writer[k].n /\ writer'[k].id = writer[k].id

LEMMA SetPc ==
  ASSUME Shape, NEW k \in Keys,
         NEW p \in {"idle", "observe", "lock", "cache", "send", "again"}, NEW b \in BOOLEAN,
         \/ writer' = [writer EXCEPT ![k].pc = p]
         \/ writer' = [writer EXCEPT ![k].pc = p, ![k].again = b]
  PROVE  Moved(k, p)
<1>1. writer \in [Keys -> WriterRec] /\ writer[k] \in WriterRec
  BY DEF Shape
<1>2. PICK r \in WriterRec : /\ r.pc = p /\ r.n = writer[k].n /\ r.id = writer[k].id
                             /\ writer' = [writer EXCEPT ![k] = r]
  <2>1. CASE writer' = [writer EXCEPT ![k].pc = p]
    <3>1. [writer[k] EXCEPT !.pc = p] \in WriterRec
      BY <1>1 DEF WriterRec
    <3>2. PICK r \in WriterRec : r = [writer[k] EXCEPT !.pc = p]
      BY <3>1
    <3> QED BY <1>1, <2>1, <3>2 DEF WriterRec
  <2>2. CASE writer' = [writer EXCEPT ![k].pc = p, ![k].again = b]
    <3>1. [writer[k] EXCEPT !.pc = p, !.again = b] \in WriterRec
      BY <1>1 DEF WriterRec
    <3>2. PICK r \in WriterRec : r = [writer[k] EXCEPT !.pc = p, !.again = b]
      BY <3>1
    <3>3. r.pc = p /\ r.n = writer[k].n /\ r.id = writer[k].id
      BY <1>1, <3>2 DEF WriterRec
    <3>4. writer' = [writer EXCEPT ![k] = r]
      BY <1>1, <2>2, <3>2
    <3> QED BY <3>3, <3>4
  <2> QED BY <2>1, <2>2
<1> QED BY <1>1, <1>2 DEF Moved

LEMMA Returns ==
  ASSUME Shape, NEW k \in Keys
  PROVE  /\ Return(k) => Moved(k, "idle")
         /\ ReturnClosed(k) => \E p \in {"idle", "again"} : Moved(k, p)
         /\ \A e : ReturnError(k, e) => \E p \in {"idle", "again"} : Moved(k, p)
<1>1. writer \in [Keys -> WriterRec] /\ writer[k] \in WriterRec
  BY DEF Shape
<1>2. ASSUME Return(k) PROVE Moved(k, "idle")
  BY <1>2, SetPc DEF Return
<1>3. ASSUME ReturnClosed(k) PROVE \E p \in {"idle", "again"} : Moved(k, p)
  <2>1. PICK p \in {"idle", "again"} : p = IF writer[k].again THEN "idle" ELSE "again"
    OBVIOUS
  <2>2. PICK b \in BOOLEAN : b = ~writer[k].again
    BY <1>1 DEF WriterRec
  <2>3. writer' = [writer EXCEPT ![k].pc = p, ![k].again = b]
    BY <1>1, <1>3, <2>1, <2>2 DEF ReturnClosed
  <2> QED BY <2>3, SetPc
<1> QED BY <1>2, <1>3 DEF ReturnError

\* The steps of a write after it has its conntrack.
LEMMA WriterMoves ==
  ASSUME Shape, NEW k \in Keys
  PROVE  /\ WriteGiveUp(k) \/ WriteSend(k) \/ CacheKept(k) => Moved(k, "idle")
         /\ WriteObserve(k) => Moved(k, "lock")
         /\ WriteCache(k) \/ WriteFail(k) => \E p \in {"idle", "again"} : Moved(k, p)
<1>1. WriteGiveUp(k) \/ WriteSend(k) \/ CacheKept(k) => Moved(k, "idle")
  BY Returns DEF WriteGiveUp, WriteSend, CacheKept
<1>2. ASSUME WriteObserve(k) PROVE Moved(k, "lock")
  BY <1>2, SetPc DEF WriteObserve
<1>3. WriteCache(k) \/ WriteFail(k) => \E p \in {"idle", "again"} : Moved(k, p)
  BY Returns DEF WriteCache, WriteFail
<1> QED BY <1>1, <1>2, <1>3

\* It waits for its lock and sees the answer.
LEMMA LockMoves ==
  ASSUME MgrInv, Shape, Hands, NEW k \in Keys, WriteLock(k)
  PROVE  /\ writer[k].id \in 1 .. nextAuthID /\ writer[k].id \notin sendMu
         /\ \/ /\ Moved(k, "cache") /\ Waiting(writer[k].id)
               /\ sendMu' = sendMu \cup {writer[k].id}
            \/ /\ Moved(k, "send") /\ ct[writer[k].id].answer = "granted"
               /\ sendMu' = sendMu \cup {writer[k].id}
            \/ (\E p \in {"idle", "again"} : Moved(k, p)) /\ sendMu' = sendMu
<1>1. writer[k].id \in 1 .. nextAuthID /\ writer[k].id \notin sendMu
  BY WriterAtWork DEF WriteLock, Writing
<1>2. CASE ct[writer[k].id].answer \in {"waiting", "granted"}
  <2>1. PICK p \in {"cache", "send"} : p = IF Waiting(writer[k].id) THEN "cache" ELSE "send"
    OBVIOUS
  <2>2. writer' = [writer EXCEPT ![k].pc = p] /\ sendMu' = sendMu \cup {writer[k].id}
    BY <1>2, <2>1 DEF WriteLock
  <2>3. Moved(k, p)
    BY <2>2, SetPc
  <2> QED BY <1>1, <1>2, <2>1, <2>2, <2>3 DEF Waiting
<1>3. CASE ct[writer[k].id].answer \notin {"waiting", "granted"}
  <2>1. ReturnError(k, ct[writer[k].id].answer) /\ sendMu' = sendMu
    BY <1>3 DEF WriteLock
  <2> QED BY <1>1, <2>1, Returns
<1> QED BY <1>2, <1>3

\* It begins, or begins again, with the conntrack getOrCreate returns.
LEMMA StartMoves ==
  ASSUME MgrInv, Shape, Hands, NEW k \in Keys, Starts(k)
  PROVE  /\ writer' \in [Keys -> WriterRec]
         /\ \A l \in Keys \ {k} : writer'[l] = writer[l]
         /\ writer'[k].pc = "observe" /\ writer'[k].id = Gotten(k)
         /\ \/ Writing(k, "idle") /\ writer'[k].n = writer[k].n + 1
            \/ Writing(k, "again") /\ writer'[k].n = writer[k].n
         /\ GetOrCreate(k)
         /\ UNCHANGED <<cur, open, sendMu, auth, reader, asked, wire, home>>
<1>1. /\ writer \in [Keys -> WriterRec] /\ writer[k] \in WriterRec
      /\ cur \in Nat /\ cur <= MaxConn /\ MaxSeq \in Nat /\ MaxConn \in Nat
  BY L3TunnelConnAssumption DEF Shape, Conns
<1>2. GetOrCreate(k) /\ UNCHANGED <<cur, open, sendMu, auth, reader, asked, wire, home>>
  BY DEF Starts, WriteStart, WriteAgain
<1>3. Gotten(k) \in IDs
  <2>1. [MgrNext]_mgrVars
    BY <1>2 DEF MgrNext
  <2>2. MgrInv' /\ Gotten(k) \in 1 .. nextAuthID'
    BY <1>2, <2>1, MgrInvStep, GetStays DEF Gets
  <2> QED BY <2>2 DEF MgrInv, TypeOK, IDs
<1>4. CASE WriteStart(k)
  <2>1. PICK c \in writer[k].conn .. cur :
          writer' = [writer EXCEPT ![k] = [pc |-> "observe", n |-> @.n + 1, conn |-> c,
                                           id |-> Gotten(k), again |-> FALSE]]
    BY <1>4 DEF WriteStart
  <2>2. /\ writer[k].n + 1 \in 0 .. MaxSeq /\ c \in Conns
        /\ Writing(k, "idle")
    <3>1. writer[k].conn \in 1 .. MaxConn /\ writer[k].n \in 0 .. MaxSeq
      BY <1>1 DEF WriterRec, Conns
    <3>2. c \in Conns
      BY <1>1, <3>1 DEF Conns
    <3>3. writer[k].n < MaxSeq /\ Writing(k, "idle")
      BY <1>4 DEF WriteStart
    <3> QED BY <1>1, <3>1, <3>2, <3>3
  <2>3. PICK r \in WriterRec : r = [pc |-> "observe", n |-> writer[k].n + 1, conn |-> c,
                                    id |-> Gotten(k), again |-> FALSE]
    BY <1>3, <2>2 DEF WriterRec
  <2>4. writer' = [writer EXCEPT ![k] = r]
    BY <2>1, <2>3
  <2>5. writer'[k] = r
    BY <1>1, <2>4
  <2> QED BY <1>1, <1>2, <2>2, <2>3, <2>4, <2>5
<1>5. CASE WriteAgain(k)
  <2>1. PICK c \in writer[k].conn + 1 .. cur :
          writer' = [writer EXCEPT ![k].pc = "observe", ![k].conn = c, ![k].id = Gotten(k)]
    BY <1>5 DEF WriteAgain
  <2>2. c \in Conns /\ Writing(k, "again")
    BY <1>1, <1>5 DEF WriterRec, WriteAgain, Conns
  <2>3. [writer[k] EXCEPT !.pc = "observe", !.conn = c, !.id = Gotten(k)] \in WriterRec
    BY <1>1, <1>3, <2>2 DEF WriterRec
  <2>4. PICK r \in WriterRec : r = [writer[k] EXCEPT !.pc = "observe", !.conn = c,
                                                     !.id = Gotten(k)]
    BY <2>3
  <2>5. writer' = [writer EXCEPT ![k] = r]
    BY <1>1, <2>1, <2>4
  <2>6. writer'[k] = r /\ r.pc = "observe" /\ r.id = Gotten(k) /\ r.n = writer[k].n
    BY <1>1, <2>4, <2>5 DEF WriterRec
  <2> QED BY <1>1, <1>2, <2>2, <2>5, <2>6
<1> QED BY <1>4, <1>5 DEF Starts

LEMMA SeqFacts ==
  ASSUME NEW S
  PROVE  /\ <<>> \in Seq(S)
         /\ \A s \in Seq(S) : s # <<>> =>
              /\ Tail(s) \in Seq(S) /\ Len(s) \in Nat \ {0} /\ DOMAIN s = 1 .. Len(s)
              /\ Len(Tail(s)) = Len(s) - 1 /\ DOMAIN Tail(s) = 1 .. Len(s) - 1
              /\ Head(s) = s[1] /\ s[1] \in S
              /\ \A x \in 1 .. Len(s) - 1 : Tail(s)[x] = s[x + 1]
<1>1. <<>> \in Seq(S)
  OBVIOUS
<1>2. ASSUME NEW s \in Seq(S), s # <<>>
      PROVE  /\ Tail(s) \in Seq(S) /\ Len(s) \in Nat \ {0} /\ DOMAIN s = 1 .. Len(s)
             /\ Len(Tail(s)) = Len(s) - 1 /\ DOMAIN Tail(s) = 1 .. Len(s) - 1
             /\ Head(s) = s[1] /\ s[1] \in S
             /\ \A x \in 1 .. Len(s) - 1 : Tail(s)[x] = s[x + 1]
  BY <1>2
<1> QED BY <1>1, <1>2

LEMMA LongTail ==
  ASSUME NEW S, NEW s \in Seq(S), Len(s) > 1
  PROVE  Tail(s) # <<>>
OBVIOUS

LEMMA AppendFacts ==
  ASSUME NEW S, NEW s \in Seq(S), NEW e \in S
  PROVE  /\ Append(s, e) \in Seq(S)
         /\ Len(s) \in Nat /\ DOMAIN s = 1 .. Len(s) /\ DOMAIN Append(s, e) = 1 .. Len(s) + 1
         /\ Append(s, e)[Len(s) + 1] = e
         /\ \A x \in 1 .. Len(s) : Append(s, e)[x] = s[x]
OBVIOUS

\* The authLoop of c comes to have jobs s, with or without the first one's request out.
Works(c, s, b) ==
  /\ auth' \in [Conns -> AuthRec]
  /\ \A d \in Conns \ {c} : auth'[d] = auth[d]
  /\ auth'[c].jobs = s /\ auth'[c].sent = b

LEMMA SetAuth ==
  ASSUME Shape, NEW c \in Conns, NEW r \in AuthRec, auth' = [auth EXCEPT ![c] = r]
  PROVE  Works(c, r.jobs, r.sent)
BY DEF Shape, Works

LEMMA AuthMoves ==
  ASSUME MgrInv, Shape, Hands, NEW c \in 1 .. cur
  PROVE  /\ c \in Conns /\ auth[c] \in AuthRec
         /\ Dispatch(c) => auth[c].jobs = <<>> /\ Works(c, BatchSeq, FALSE)
         /\ SendAuth(c) => auth[c].jobs # <<>> /\ Works(c, auth[c].jobs, TRUE)
         /\ SendAuthFail(c) => Works(c, <<>>, FALSE)
         /\ AuthSent(c) => auth[c].jobs # <<>> /\ Works(c, Tail(auth[c].jobs), FALSE)
         /\ AuthExit(c) => Works(c, auth[c].jobs, auth[c].sent)
<1>1. /\ c \in Conns /\ auth \in [Conns -> AuthRec] /\ auth[c] \in AuthRec
      /\ (auth[c].sent => auth[c].jobs # <<>>)
  <2>1. c \in Conns
    BY L3TunnelConnAssumption DEF Shape, Conns
  <2> QED BY <2>1 DEF Shape, Hands, JobsExist
<1>2. ASSUME Dispatch(c) PROVE auth[c].jobs = <<>> /\ Works(c, BatchSeq, FALSE)
  <2>1. auth[c].jobs = <<>> /\ auth[c].sent = FALSE
    BY <1>1, <1>2 DEF Dispatch, Idle, AuthRec
  <2>2. BatchSeq \in Seq(IDs)
    <3>1. /\ Cardinality(Batch) \in Nat /\ Batch \subseteq IDs
          /\ BatchSeq \in [1 .. Cardinality(Batch) -> Batch]
      BY BatchInOrder, MgrInvFacts
    <3>2. BatchSeq \in [1 .. Cardinality(Batch) -> IDs]
      BY <3>1
    <3> QED BY <3>1, <3>2
  <2>3. PICK s \in Seq(IDs) : s = BatchSeq
    BY <2>2
  <2>4. [auth[c] EXCEPT !.jobs = s] \in AuthRec
    BY <1>1 DEF AuthRec
  <2>5. PICK r \in AuthRec : r = [auth[c] EXCEPT !.jobs = s]
    BY <2>4
  <2>6. r.jobs = s /\ r.sent = FALSE
    BY <1>1, <2>1, <2>5 DEF AuthRec
  <2>7. auth' = [auth EXCEPT ![c] = r]
    BY <1>1, <1>2, <2>3, <2>5 DEF Dispatch
  <2>8. Works(c, r.jobs, r.sent)
    BY <1>1, <2>7, SetAuth
  <2> QED BY <2>1, <2>3, <2>6, <2>8
<1>3. ASSUME SendAuth(c) PROVE auth[c].jobs # <<>> /\ Works(c, auth[c].jobs, TRUE)
  <2>1. [auth[c] EXCEPT !.sent = TRUE] \in AuthRec
    BY <1>1 DEF AuthRec
  <2>2. PICK r \in AuthRec : r = [auth[c] EXCEPT !.sent = TRUE]
    BY <2>1
  <2>3. r.jobs = auth[c].jobs /\ r.sent = TRUE
    BY <1>1, <2>2 DEF AuthRec
  <2>4. auth' = [auth EXCEPT ![c] = r] /\ auth[c].jobs # <<>>
    BY <1>1, <1>3, <2>2 DEF SendAuth
  <2>5. Works(c, r.jobs, r.sent)
    BY <1>1, <2>4, SetAuth
  <2> QED BY <2>3, <2>4, <2>5
<1>4. ASSUME SendAuthFail(c) PROVE Works(c, <<>>, FALSE)
  <2>1. PICK r \in AuthRec : r = [runs |-> FALSE, jobs |-> <<>>, sent |-> FALSE]
    BY SeqFacts DEF AuthRec
  <2>2. auth' = [auth EXCEPT ![c] = r]
    BY <1>4, <2>1 DEF SendAuthFail
  <2>3. Works(c, r.jobs, r.sent)
    BY <1>1, <2>2, SetAuth
  <2> QED BY <2>1, <2>3
<1>5. ASSUME AuthSent(c)
      PROVE  auth[c].jobs # <<>> /\ Works(c, Tail(auth[c].jobs), FALSE)
  <2>1. auth[c].jobs \in Seq(IDs) /\ auth[c].jobs # <<>>
    BY <1>1, <1>5 DEF AuthRec, AuthSent
  <2>2. PICK s \in Seq(IDs) : s = Tail(auth[c].jobs)
    BY <2>1, SeqFacts
  <2>3. [auth[c] EXCEPT !.jobs = s, !.sent = FALSE] \in AuthRec
    BY <1>1 DEF AuthRec
  <2>4. PICK r \in AuthRec : r = [auth[c] EXCEPT !.jobs = s, !.sent = FALSE]
    BY <2>3
  <2>5. r.jobs = s /\ r.sent = FALSE
    BY <1>1, <2>4 DEF AuthRec
  <2>6. auth' = [auth EXCEPT ![c] = r]
    BY <1>1, <1>5, <2>2, <2>4 DEF AuthSent
  <2>7. Works(c, r.jobs, r.sent)
    BY <1>1, <2>6, SetAuth
  <2> QED BY <2>1, <2>2, <2>5, <2>7
<1>6. ASSUME AuthExit(c) PROVE Works(c, auth[c].jobs, auth[c].sent)
  <2>1. [auth[c] EXCEPT !.runs = FALSE] \in AuthRec
    BY <1>1 DEF AuthRec
  <2>2. PICK r \in AuthRec : r = [auth[c] EXCEPT !.runs = FALSE]
    BY <2>1
  <2>3. r.jobs = auth[c].jobs /\ r.sent = auth[c].sent
    BY <1>1, <2>2 DEF AuthRec
  <2>4. auth' = [auth EXCEPT ![c] = r]
    BY <1>1, <1>6, <2>2 DEF AuthExit
  <2>5. Works(c, r.jobs, r.sent)
    BY <1>1, <2>4, SetAuth
  <2> QED BY <2>3, <2>5
<1> QED BY <1>1, <1>2, <1>3, <1>4, <1>5, <1>6

\* The readLoop of c comes to pc p, with conntrack i and packets s to send.
Reads(c, p, i, s) ==
  /\ reader' \in [Conns -> ReaderRec]
  /\ \A d \in Conns \ {c} : reader'[d] = reader[d]
  /\ reader'[c].pc = p /\ reader'[c].id = i /\ reader'[c].out = s

LEMMA SetReader ==
  ASSUME Shape, NEW c \in Conns, NEW r \in ReaderRec, reader' = [reader EXCEPT ![c] = r]
  PROVE  Reads(c, r.pc, r.id, r.out)
BY DEF Shape, Reads

LEMMA SetListening ==
  ASSUME Shape, NEW c \in Conns, reader' = [reader EXCEPT ![c] = Listening]
  PROVE  Reads(c, "read", 0, <<>>)
<1>1. PICK r \in ReaderRec : r = Listening
  BY SeqFacts, Members DEF Listening, ReaderRec
<1>2. Reads(c, r.pc, r.id, r.out)
  BY <1>1, SetReader
<1> QED BY <1>1, <1>2 DEF Listening

LEMMA ReaderMoves ==
  ASSUME MgrInv, Shape, Hands, NEW c \in 1 .. cur
  PROVE  /\ c \in Conns /\ reader[c] \in ReaderRec
         /\ Refusal(c) \/ FlushFail(c) => Reads(c, "read", 0, <<>>)
         /\ ReadExit(c) => Reads(c, "exited", reader[c].id, reader[c].out)
         /\ Flush(c) /\ Len(reader[c].out) > 1 =>
              Reads(c, "flush", reader[c].id, Tail(reader[c].out))
         /\ Flush(c) /\ ~(Len(reader[c].out) > 1) => Reads(c, "read", 0, <<>>)
<1>1. c \in Conns /\ reader \in [Conns -> ReaderRec] /\ reader[c] \in ReaderRec
  BY L3TunnelConnAssumption DEF Shape, Conns
<1>2. Refusal(c) \/ FlushFail(c) => Reads(c, "read", 0, <<>>)
  BY <1>1, SetListening DEF Refusal, FlushFail
<1>3. ASSUME ReadExit(c) PROVE Reads(c, "exited", reader[c].id, reader[c].out)
  <2>1. [reader[c] EXCEPT !.pc = "exited"] \in ReaderRec
    BY <1>1 DEF ReaderRec
  <2>2. PICK r \in ReaderRec : r = [reader[c] EXCEPT !.pc = "exited"]
    BY <2>1
  <2>3. r.pc = "exited" /\ r.id = reader[c].id /\ r.out = reader[c].out
    BY <1>1, <2>2 DEF ReaderRec
  <2>4. reader' = [reader EXCEPT ![c] = r]
    BY <1>1, <1>3, <2>2 DEF ReadExit
  <2>5. Reads(c, r.pc, r.id, r.out)
    BY <1>1, <2>4, SetReader
  <2> QED BY <2>3, <2>5
<1>4. ASSUME Flush(c), Len(reader[c].out) > 1
      PROVE  Reads(c, "flush", reader[c].id, Tail(reader[c].out))
  <2>1. reader[c].out \in Seq(Packets) /\ reader[c].pc = "flush" /\ reader[c].out # <<>>
    BY <1>1, <1>4 DEF ReaderRec, Flush, Hands, JobsExist, ReaderHas
  <2>2. PICK s \in Seq(Packets) : s = Tail(reader[c].out)
    BY <1>4, <2>1, SeqFacts
  <2>3. [reader[c] EXCEPT !.out = s] \in ReaderRec
    BY <1>1 DEF ReaderRec
  <2>4. PICK r \in ReaderRec : r = [reader[c] EXCEPT !.out = s]
    BY <2>3
  <2>5. r.pc = "flush" /\ r.id = reader[c].id /\ r.out = s
    BY <1>1, <2>1, <2>4 DEF ReaderRec
  <2>6. reader' = [reader EXCEPT ![c] = r]
    BY <1>1, <1>4, <2>2, <2>4 DEF Flush
  <2>7. Reads(c, r.pc, r.id, r.out)
    BY <1>1, <2>6, SetReader
  <2> QED BY <2>2, <2>5, <2>7
<1>5. Flush(c) /\ ~(Len(reader[c].out) > 1) => Reads(c, "read", 0, <<>>)
  BY <1>1, SetListening DEF Flush
<1> QED BY <1>1, <1>2, <1>3, <1>4, <1>5

\* A response is about a conntrack that exists, or nothing comes of it.
LEMMA ResponseMoves ==
  ASSUME MgrInv, Shape, Hands, NEW c \in 1 .. cur, Responses(c)
  PROVE  /\ reader[c].pc = "read" /\ asked' \in [Conns -> [IDs -> Nat]]
         /\ UNCHANGED <<cur, open, sendMu, writer, auth, wire, home>>
         /\ \/ reader' = reader
            \/ \E j \in 1 .. nextAuthID :
                 Reads(c, "complete", j, <<>>) /\ reader'[c].answer \in {"granted", "denied"}
<1>1. c \in Conns /\ asked \in [Conns -> [IDs -> Nat]] /\ 1 .. nextAuthID \subseteq IDs
  BY L3TunnelConnAssumption, MgrInvFacts DEF Shape, Conns
<1>2. PICK i \in 1 .. nextAuthID : \/ \E delay \in {0, RetryWait} : RespRetry(c, i, delay)
                                   \/ \E e \in {"granted", "denied"} : RespFinal(c, i, e)
  BY DEF Responses
<1>3. /\ reader[c].pc = "read" /\ asked[c][i] > 0
      /\ asked' = [asked EXCEPT ![c][i] = @ - 1]
      /\ UNCHANGED <<cur, open, sendMu, writer, auth, wire, home>>
  BY <1>2 DEF RespRetry, RespFinal
<1>4. asked' \in [Conns -> [IDs -> Nat]]
  <2>1. asked[c] \in [IDs -> Nat] /\ asked[c][i] - 1 \in Nat /\ i \in IDs
    BY <1>1, <1>3
  <2>2. [asked[c] EXCEPT ![i] = asked[c][i] - 1] \in [IDs -> Nat]
    BY <2>1
  <2> QED BY <1>1, <1>3, <2>2
<1>5. CASE \E delay \in {0, RetryWait} : RespRetry(c, i, delay)
  BY <1>3, <1>4, <1>5 DEF RespRetry
<1>6. ASSUME NEW e \in {"granted", "denied"}, RespFinal(c, i, e)
      PROVE  \/ reader' = reader
             \/ \E j \in 1 .. nextAuthID :
                  Reads(c, "complete", j, <<>>) /\ reader'[c].answer \in {"granted", "denied"}
  <2>1. ASSUME NEW j \in Target(i),
               reader' = [reader EXCEPT ![c] = [Listening EXCEPT !.pc = "complete",
                                                     !.id = j, !.answer = e]]
        PROVE  /\ j \in 1 .. nextAuthID
               /\ Reads(c, "complete", j, <<>>) /\ reader'[c].answer \in {"granted", "denied"}
    <3>1. j \in 1 .. nextAuthID /\ j \in IDs
      BY <1>1, TargetExists
    <3>a. Listening \in ReaderRec /\ Listening.out = <<>> /\ e \in Answers
      BY SeqFacts, Members DEF Listening, ReaderRec, Answers, Verdicts
    <3>b. [Listening EXCEPT !.pc = "complete", !.id = j, !.answer = e] \in ReaderRec
      BY <3>1, <3>a DEF ReaderRec
    <3>2. PICK r \in ReaderRec : r = [Listening EXCEPT !.pc = "complete", !.id = j, !.answer = e]
      BY <3>b
    <3>c. r.pc = "complete" /\ r.id = j /\ r.answer = e /\ r.out = <<>>
      BY <3>a, <3>2 DEF ReaderRec
    <3>3. reader' = [reader EXCEPT ![c] = r]
      BY <2>1, <3>2
    <3>4. Reads(c, r.pc, r.id, r.out) /\ reader'[c] = r
      BY <1>1, <3>3, SetReader DEF Shape
    <3> QED BY <3>1, <3>c, <3>4
  <2> QED BY <1>6, <2>1 DEF RespFinal
<1> QED BY <1>2, <1>3, <1>4, <1>5, <1>6

\* What waited for a grant becomes what the readLoop has to send.
LEMMA GrantMoves ==
  ASSUME MgrInv, Shape, Hands, NEW c \in 1 .. cur, GrantStep(c)
  PROVE  /\ c \in Conns /\ reader[c].pc = "complete" /\ reader[c].id \in 1 .. nextAuthID
         /\ reader[c].id \notin sendMu /\ CompleteAuth(reader[c].id, "granted")
         /\ \/ /\ ct[reader[c].id].pending # <<>>
               /\ Reads(c, "flush", reader[c].id, ct[reader[c].id].pending)
               /\ sendMu' = sendMu \cup {reader[c].id}
            \/ /\ ct[reader[c].id].pending = <<>>
               /\ Reads(c, "read", 0, <<>>) /\ sendMu' = sendMu
<1>1. /\ c \in Conns /\ reader \in [Conns -> ReaderRec] /\ reader[c] \in ReaderRec
      /\ reader[c].id \in 1 .. nextAuthID /\ reader[c].pc = "complete"
      /\ ct[reader[c].id] \in ConntrackRec
  BY ReaderAtWork, MgrInvFacts DEF GrantStep, Complete, Shape
<1>2. reader[c].id \notin sendMu /\ CompleteAuth(reader[c].id, "granted")
  BY DEF GrantStep, Complete
<1>3. CASE ct[reader[c].id].pending # <<>>
  <2>1. PICK s \in Seq(Packets) : s = ct[reader[c].id].pending
    BY <1>1 DEF ConntrackRec
  <2>2. [reader[c] EXCEPT !.pc = "flush", !.out = s] \in ReaderRec
    BY <1>1 DEF ReaderRec
  <2>3. PICK r \in ReaderRec : r = [reader[c] EXCEPT !.pc = "flush", !.out = s]
    BY <2>2
  <2>4. r.pc = "flush" /\ r.id = reader[c].id /\ r.out = s
    BY <1>1, <2>3 DEF ReaderRec
  <2>5. reader' = [reader EXCEPT ![c] = r] /\ sendMu' = sendMu \cup {reader[c].id}
    BY <1>1, <1>3, <2>1, <2>3 DEF GrantStep, NoPackets
  <2>6. Reads(c, r.pc, r.id, r.out)
    BY <1>1, <2>5, SetReader
  <2> QED BY <1>1, <1>2, <1>3, <2>1, <2>4, <2>5, <2>6
<1>4. CASE ct[reader[c].id].pending = <<>>
  BY <1>1, <1>2, <1>4, SetListening DEF GrantStep, NoPackets
<1> QED BY <1>3, <1>4

\* Packet n of flow k is written on connection c.
Sends(c, k, n) ==
  /\ wire' \in [Conns -> [Keys -> Seq(Packets)]]
  /\ wire'[c][k] = Append(wire[c][k], n)
  /\ \A d \in Conns, l \in Keys : d # c \/ l # k => wire'[d][l] = wire[d][l]

LEMMA SendEffect ==
  ASSUME Shape, NEW c \in Conns, NEW k \in Keys, NEW n \in Packets,
         wire' = [wire EXCEPT ![c][k] = Append(@, n)]
  PROVE  Sends(c, k, n)
<1>1. wire \in [Conns -> [Keys -> Seq(Packets)]] /\ wire[c] \in [Keys -> Seq(Packets)]
  BY DEF Shape
<1>2. PICK s \in Seq(Packets) : s = Append(wire[c][k], n)
  <2>1. wire[c][k] \in Seq(Packets)
    BY <1>1
  <2> QED BY <2>1, AppendFacts
<1>3. PICK f \in [Keys -> Seq(Packets)] : f = [wire[c] EXCEPT ![k] = s]
  BY <1>1
<1>4. wire' = [wire EXCEPT ![c] = f]
  BY <1>1, <1>2, <1>3
<1>5. wire'[c] = f /\ f[k] = s /\ \A l \in Keys \ {k} : f[l] = wire[c][l]
  BY <1>1, <1>3, <1>4
<1> QED BY <1>1, <1>2, <1>4, <1>5 DEF Sends

\* Conntrack i becomes the home of packet n of flow k.
HomeIs(k, n, i) ==
  /\ home' \in [Keys -> [Packets -> IDs \cup {0}]]
  /\ home'[k][n] = i
  /\ \A l \in Keys, m \in Packets : l # k \/ m # n => home'[l][m] = home[l][m]

LEMMA HomeEffect ==
  ASSUME Shape, NEW k \in Keys, NEW n \in Packets, NEW i \in IDs,
         home' = [home EXCEPT ![k][n] = i]
  PROVE  HomeIs(k, n, i)
<1>1. home \in [Keys -> [Packets -> IDs \cup {0}]] /\ home[k] \in [Packets -> IDs \cup {0}]
  BY DEF Shape
<1>2. PICK f \in [Packets -> IDs \cup {0}] : f = [home[k] EXCEPT ![n] = i]
  BY <1>1
<1>3. home' = [home EXCEPT ![k] = f]
  BY <1>1, <1>2
<1>4. home'[k] = f /\ f[n] = i /\ \A m \in Packets \ {n} : f[m] = home[k][m]
  BY <1>1, <1>2, <1>3
<1> QED BY <1>1, <1>3, <1>4 DEF HomeIs

\* A writer that may send sends its packet, which gets its home.
LEMMA SendMoves ==
  ASSUME MgrInv, Shape, Hands, NEW k \in Keys, WriteSend(k)
  PROVE  /\ \E c \in Conns : Sends(c, k, writer[k].n)
         /\ HomeIs(k, writer[k].n, writer[k].id)
         /\ writer[k].pc = "send" /\ Moved(k, "idle") /\ sendMu' = sendMu \ {writer[k].id}
         /\ writer[k].n \in Packets /\ writer[k].id \in 1 .. nextAuthID
         /\ UNCHANGED <<mgrVars, cur, open, auth, reader, asked>>
<1>1. /\ writer[k].n \in Packets /\ writer[k].id \in 1 .. nextAuthID /\ writer[k].id \in IDs
      /\ writer[k].conn \in Conns
  BY WriterAtWork, MgrInvFacts DEF WriteSend, Writing, WriterRec
<1>2. Sends(writer[k].conn, k, writer[k].n)
  BY <1>1, SendEffect DEF WriteSend
<1>3. HomeIs(k, writer[k].n, writer[k].id)
  BY <1>1, HomeEffect DEF WriteSend
<1>4. Moved(k, "idle")
  BY WriterMoves
<1> QED BY <1>1, <1>2, <1>3, <1>4 DEF WriteSend, Writing

\* A readLoop sends the first packet it has.
LEMMA FlushMoves ==
  ASSUME MgrInv, Shape, Hands, NEW c \in 1 .. cur, Flush(c)
  PROVE  /\ c \in Conns /\ c \in open /\ reader[c].pc = "flush" /\ reader[c].id \in 1 .. nextAuthID
         /\ reader[c].out \in Seq(Packets) /\ reader[c].out # <<>>
         /\ Sends(c, ct[reader[c].id].key, Head(reader[c].out))
         /\ UNCHANGED <<mgrVars, cur, open, writer, auth, asked, home>>
         /\ \/ /\ Reads(c, "flush", reader[c].id, Tail(reader[c].out)) /\ sendMu' = sendMu
               /\ Len(reader[c].out) > 1
            \/ /\ Reads(c, "read", 0, <<>>) /\ sendMu' = sendMu \ {reader[c].id}
               /\ Len(reader[c].out) = 1
<1>1. /\ c \in Conns /\ c \in open /\ reader[c].id \in 1 .. nextAuthID /\ reader[c] \in ReaderRec
      /\ ct[reader[c].id].key \in Keys /\ reader[c].pc = "flush"
  BY ReaderAtWork DEF Flush
<1>2. /\ reader[c].out \in Seq(Packets) /\ reader[c].out # <<>>
      /\ Head(reader[c].out) \in Packets /\ Len(reader[c].out) \in Nat \ {0}
  <2>1. reader[c].out \in Seq(Packets) /\ reader[c].out # <<>>
    BY <1>1 DEF ReaderRec, Hands, JobsExist, ReaderHas
  <2> QED BY <2>1, SeqFacts
<1>3. PICK n \in Packets : n = Head(reader[c].out)
  BY <1>2
<1>4. PICK k \in Keys : k = ct[reader[c].id].key
  BY <1>1
<1>5. wire' = [wire EXCEPT ![c][k] = Append(@, n)]
  BY <1>3, <1>4 DEF Flush
<1>6. Sends(c, k, n)
  BY <1>1, <1>5, SendEffect
<1>7. Len(reader[c].out) > 1 \/ (~(Len(reader[c].out) > 1) /\ Len(reader[c].out) = 1)
  <2>1. \A x \in Nat \ {0} : x > 1 \/ (~(x > 1) /\ x = 1)
    OBVIOUS
  <2> QED BY <1>2, <2>1
<1>8. \/ /\ Reads(c, "flush", reader[c].id, Tail(reader[c].out)) /\ sendMu' = sendMu
         /\ Len(reader[c].out) > 1
      \/ /\ Reads(c, "read", 0, <<>>) /\ sendMu' = sendMu \ {reader[c].id}
         /\ Len(reader[c].out) = 1
  BY <1>7, ReaderMoves DEF Flush
<1> QED BY <1>1, <1>2, <1>3, <1>4, <1>6, <1>8 DEF Flush

-----------------------------------------------------------------------------
(* The types.                                                              *)

LEMMA ShapeStep ==
  ASSUME MgrInv, Shape, Hands, AnyStep
  PROVE  Shape'
<1>0. /\ MaxConn \in Nat \ {0} /\ cur \in Conns /\ cur \in Nat /\ open \subseteq 1 .. cur
      /\ 1 .. cur \subseteq Conns /\ sendMu \subseteq IDs
      /\ 1 .. nextAuthID \subseteq IDs
  BY L3TunnelConnAssumption, MgrInvFacts DEF Shape, Conns
<1>1. CASE \E k \in Keys : Starts(k)
  BY <1>1, StartMoves DEF Shape
<1>2. CASE \E c \in 1 .. cur : Dispatch(c)
  BY <1>2, AuthMoves DEF Shape, Dispatch, Works
<1>3. ASSUME NEW k \in Keys, CacheKept(k) PROVE Shape'
  <2>1. Moved(k, "idle") /\ writer[k].id \in IDs /\ writer[k].n \in Packets
    BY <1>0, <1>3, WriterMoves, WriterAtWork DEF CacheKept, WriteCache, Writing
  <2>2. HomeIs(k, writer[k].n, writer[k].id)
    BY <1>3, <2>1, HomeEffect DEF CacheKept
  <2>3. sendMu' \subseteq IDs /\ UNCHANGED <<cur, open, auth, reader, asked, wire>>
    BY <1>0, <1>3 DEF CacheKept, WriteCache
  <2> QED BY <2>1, <2>2, <2>3 DEF Shape, Moved, HomeIs
<1>4. ASSUME NEW c \in 1 .. cur, GrantStep(c) PROVE Shape'
  <2>1. sendMu' \subseteq IDs /\ reader' \in [Conns -> ReaderRec]
    BY <1>0, <1>4, GrantMoves DEF Reads
  <2> QED BY <1>4, <2>1 DEF Shape, GrantStep, Complete
<1>5. ASSUME PlainStep, NEW k \in Keys,
             \/ WriteGiveUp(k) \/ WriteObserve(k) \/ WriteLock(k)
             \/ CacheRefused(k) \/ WriteSend(k) \/ WriteFail(k)
      PROVE  Shape'
  <2>1. CASE WriteGiveUp(k) \/ WriteObserve(k) \/ CacheRefused(k) \/ WriteFail(k)
    <3>1. writer' \in [Keys -> WriterRec]
      BY <2>1, WriterMoves DEF Moved, CacheRefused
    <3>2. sendMu' \subseteq IDs /\ UNCHANGED <<cur, open, auth, reader, asked, wire, home>>
      BY <1>0, <2>1 DEF WriteGiveUp, WriteObserve, CacheRefused, WriteCache, WriteFail
    <3> QED BY <3>1, <3>2 DEF Shape
  <2>2. CASE WriteLock(k)
    <3>1. writer' \in [Keys -> WriterRec] /\ sendMu' \subseteq IDs
      BY <1>0, <2>2, LockMoves DEF Moved
    <3>2. UNCHANGED <<cur, open, auth, reader, asked, wire, home>>
      BY <2>2 DEF WriteLock
    <3> QED BY <3>1, <3>2 DEF Shape
  <2>3. CASE WriteSend(k)
    <3>1. /\ writer' \in [Keys -> WriterRec] /\ sendMu' \subseteq IDs
          /\ wire' \in [Conns -> [Keys -> Seq(Packets)]]
          /\ home' \in [Keys -> [Packets -> IDs \cup {0}]]
          /\ UNCHANGED <<cur, open, auth, reader, asked>>
      BY <1>0, <2>3, SendMoves DEF Moved, Sends, HomeIs
    <3> QED BY <3>1 DEF Shape
  <2> QED BY <1>5, <2>1, <2>2, <2>3
<1>6. ASSUME PlainStep, NEW c \in 1 .. cur,
             \/ SendAuth(c) \/ SendAuthFail(c) \/ AuthSent(c) \/ AuthExit(c)
             \/ Responses(c) \/ Refusal(c) \/ Flush(c) \/ FlushFail(c)
             \/ ReadExit(c) \/ ConnClose(c)
      PROVE  Shape'
  <2>1. CASE SendAuth(c)
    <3>1. PICK i \in IDs : i = Head(auth[c].jobs)
      <4>1. auth[c].jobs \in Seq(IDs) /\ auth[c].jobs # <<>>
        BY <2>1, AuthMoves DEF AuthRec
      <4> QED BY <4>1, SeqFacts
    <3>2. c \in Conns /\ asked \in [Conns -> [IDs -> Nat]] /\ asked[c] \in [IDs -> Nat]
      BY <1>0 DEF Shape
    <3>3. asked' = [asked EXCEPT ![c] = [asked[c] EXCEPT ![i] = asked[c][i] + 1]]
      BY <2>1, <3>1 DEF SendAuth
    <3>4. asked' \in [Conns -> [IDs -> Nat]]
      BY <3>1, <3>2, <3>3
    <3>5. auth' \in [Conns -> AuthRec]
      BY <2>1, AuthMoves DEF Works
    <3> QED BY <2>1, <3>4, <3>5 DEF Shape, SendAuth
  <2>2. CASE SendAuthFail(c) \/ AuthSent(c) \/ AuthExit(c)
    <3>1. auth' \in [Conns -> AuthRec]
      BY <2>2, AuthMoves DEF Works
    <3>2. open' \subseteq 1 .. cur /\ UNCHANGED <<cur, sendMu, writer, reader, asked, wire, home>>
      BY <1>0, <2>2 DEF SendAuthFail, AuthSent, AuthExit
    <3> QED BY <3>1, <3>2 DEF Shape
  <2>3. CASE Responses(c)
    <3>1. /\ asked' \in [Conns -> [IDs -> Nat]] /\ reader' \in [Conns -> ReaderRec]
          /\ UNCHANGED <<cur, open, sendMu, writer, auth, wire, home>>
      BY <2>3, ResponseMoves DEF Reads, Shape
    <3> QED BY <3>1 DEF Shape
  <2>4. CASE Refusal(c) \/ FlushFail(c) \/ ReadExit(c)
    <3>1. reader' \in [Conns -> ReaderRec]
      BY <2>4, ReaderMoves DEF Reads
    <3>2. /\ open' \subseteq 1 .. cur /\ sendMu' \subseteq IDs
          /\ UNCHANGED <<cur, writer, auth, asked, wire, home>>
      BY <1>0, <2>4 DEF Refusal, Complete, FlushFail, ReadExit
    <3> QED BY <3>1, <3>2 DEF Shape
  <2>5. CASE Flush(c)
    <3>1. /\ reader' \in [Conns -> ReaderRec] /\ sendMu' \subseteq IDs
          /\ wire' \in [Conns -> [Keys -> Seq(Packets)]]
          /\ UNCHANGED <<cur, open, writer, auth, asked, home>>
      BY <1>0, <2>5, FlushMoves DEF Reads, Sends
    <3> QED BY <3>1 DEF Shape
  <2>6. CASE ConnClose(c)
    BY <1>0, <2>6 DEF Shape, ConnClose
  <2> QED BY <1>6, <2>1, <2>2, <2>3, <2>4, <2>5, <2>6
<1>7. CASE Reconnect
  <2>1. cur' \in Conns /\ open' \subseteq 1 .. cur'
    BY <1>0, <1>7 DEF Reconnect, Conns
  <2> QED BY <1>7, <2>1 DEF Shape, Reconnect
<1>8. CASE UNCHANGED connVars
  BY <1>8 DEF Shape, connVars
<1> QED BY <1>1, <1>2, <1>3, <1>4, <1>5, <1>6, <1>7, <1>8 DEF AnyStep, PlainStep

-----------------------------------------------------------------------------
(* What the goroutines have in their hands.                                *)

\* At most one conntrack is created in a step, for a writer, and it is new.
LEMMA StepGrows ==
  ASSUME MgrInv, Shape, Hands, AnyStep
  PROVE  /\ nextAuthID \in Nat /\ nextAuthID' \in Nat /\ nextAuthID <= nextAuthID'
         /\ \/ nextAuthID' = nextAuthID
            \/ /\ nextAuthID' = nextAuthID + 1 /\ ct'[nextAuthID'].key \in Keys
               /\ ct'[nextAuthID'].pending = NoPackets
               /\ ct'[nextAuthID'].answer \in {"waiting", "closed"}
<1>1. nextAuthID \in Nat
  BY MgrInvFacts
<1>2. NoBirth => nextAuthID' = nextAuthID
  BY DEF NoBirth
<1>3. ASSUME NEW k \in Keys, Starts(k)
      PROVE  \/ nextAuthID' = nextAuthID
             \/ /\ nextAuthID' = nextAuthID + 1 /\ ct'[nextAuthID'].key \in Keys
                /\ ct'[nextAuthID'].pending = NoPackets
                /\ ct'[nextAuthID'].answer \in {"waiting", "closed"}
  <2>1. Gets(k)
    BY <1>3, StartMoves, GetStays
  <2> QED BY <2>1 DEF Gets
<1>4. ASSUME NEW c \in 1 .. cur, Dispatch(c) PROVE NoBirth
  BY <1>4, PlainCreatesNothing DEF Dispatch
<1>5. ASSUME NEW k \in Keys, CacheKept(k) PROVE NoBirth
  <2>1. /\ writer[k].id \in 1 .. nextAuthID /\ writer[k].n \in Packets
        /\ CachePacket(writer[k].id, writer[k].n)
    BY <1>5, WriterAtWork DEF CacheKept, WriteCache, Writing
  <2> QED BY <2>1, CacheEffect
<1>6. ASSUME NEW c \in 1 .. cur, GrantStep(c) PROVE NoBirth
  <2>1. reader[c].id \in 1 .. nextAuthID /\ CompleteAuth(reader[c].id, "granted")
    BY <1>6, GrantMoves
  <2> QED BY <2>1, GrantEffect
<1>7. PlainStep => NoBirth
  BY PlainCreatesNothing DEF PlainStep
<1>8. \/ nextAuthID' = nextAuthID
      \/ /\ nextAuthID' = nextAuthID + 1 /\ ct'[nextAuthID'].key \in Keys
         /\ ct'[nextAuthID'].pending = NoPackets
         /\ ct'[nextAuthID'].answer \in {"waiting", "closed"}
  BY <1>2, <1>3, <1>4, <1>5, <1>6, <1>7 DEF AnyStep
<1> QED BY <1>1, <1>8

LEMMA KeysStep ==
  ASSUME MgrInv, Shape, Hands, AnyStep, NEW i \in 1 .. nextAuthID'
  PROVE  ct'[i].key \in Keys
<1>1. i \in 1 .. nextAuthID \/ (i = nextAuthID' /\ ct'[nextAuthID'].key \in Keys)
  BY StepGrows
<1> QED BY <1>1, StepKeeps DEF Preserved, Hands

\* A writer keeps what it has when nothing is created for its flow.
LEMMA WriterKeeps ==
  ASSUME MgrInv, Shape, Hands, Locks, \A i \in 1 .. nextAuthID : Preserved(i), NEW k \in Keys,
         byKey'[k] \in {0, byKey[k]},
         \/ nextAuthID' = nextAuthID
         \/ nextAuthID' = nextAuthID + 1 /\ ct'[nextAuthID'].key # k,
         writer'[k].id = writer[k].id, writer'[k].n = writer[k].n,
         writer'[k].pc # "idle" => writer[k].pc # "idle",
         writer'[k].pc = "send" =>
           writer[k].pc = "send" \/ ct[writer[k].id].answer = "granted",
         writer'[k].pc = "cache" =>
           writer[k].pc = "cache" \/ ct'[writer[k].id].answer # "granted"
  PROVE  WriterHas(k)'
<1>1. writer[k] \in WriterRec /\ nextAuthID \in Nat /\ 1 .. nextAuthID \subseteq IDs
  BY MgrInvFacts DEF Shape
<1>2. PICK i \in 0 .. nextAuthID : i = writer[k].id
  BY <1>1 DEF Hands, WriterHas, WriterRec, IDs
<1>3. /\ i # 0 => ct[i].key = k
      /\ byKey[k] \in {0, i}
      /\ \A j \in 1 .. nextAuthID : ct[j].key = k => j <= i
      /\ writer[k].pc # "idle" => i # 0 /\ writer[k].n # 0
      /\ writer[k].pc = "send" => ct[i].answer = "granted"
      /\ writer[k].pc = "cache" => ct[i].answer # "granted"
  BY <1>2 DEF Hands, WriterHas
<1>4. \A j \in 1 .. nextAuthID : ct'[j].key = ct[j].key
  BY DEF Preserved
<1>5. i # 0 => i \in 1 .. nextAuthID /\ ct'[i].key = k
  BY <1>2, <1>3, <1>4
<1>6. writer'[k].pc = "send" => ct'[i].answer = "granted"
  BY <1>2, <1>3, <1>5 DEF Preserved
<1>7. writer'[k].pc = "cache" => ct'[i].answer # "granted"
  <2>1. CASE writer[k].pc = "cache"
    <3>1. i \in IDs /\ Holds(k, i)
      BY <1>1, <1>2, <1>3, <1>5, <2>1 DEF Holds, Writing
    <3>2. i \in sendMu
      BY <3>1 DEF Locks
    <3> QED BY <1>3, <1>5, <2>1, <3>2 DEF Preserved
  <2> QED BY <1>2, <2>1
<1>8. ASSUME NEW j \in 1 .. nextAuthID', ct'[j].key = k PROVE j <= i
  <2>1. j \in 1 .. nextAuthID
    BY <1>1, <1>8
  <2> QED BY <1>3, <1>4, <1>8, <2>1
<1>9. i <= nextAuthID' /\ byKey'[k] \in {0, i}
  BY <1>1, <1>3
<1> QED BY <1>2, <1>3, <1>5, <1>6, <1>7, <1>8, <1>9 DEF WriterHas

LEMMA WritersStep ==
  ASSUME MgrInv, Shape, Hands, Locks, AnyStep, NEW k \in Keys
  PROVE  WriterHas(k)'
<1>1. (\A i \in 1 .. nextAuthID : Preserved(i)) /\ nextAuthID \in Nat /\ 1 .. nextAuthID \subseteq IDs
  BY StepKeeps, MgrInvFacts
<1>2. ASSUME NoBirth, writer'[k] = writer[k] PROVE WriterHas(k)'
  BY <1>1, <1>2, WriterKeeps DEF NoBirth
<1>3. ASSUME NEW l \in Keys, Starts(l) PROVE WriterHas(k)'
  <2>1. /\ writer' \in [Keys -> WriterRec]
        /\ \A m \in Keys \ {l} : writer'[m] = writer[m]
        /\ writer'[l].pc = "observe" /\ writer'[l].id = Gotten(l)
        /\ \/ Writing(l, "idle") /\ writer'[l].n = writer[l].n + 1
           \/ Writing(l, "again") /\ writer'[l].n = writer[l].n
    BY <1>3, StartMoves
  <2>2. Gets(l)
    BY <1>3, StartMoves, GetStays
  <2>3. CASE l # k
    <3>1. writer'[k] = writer[k] /\ byKey'[k] \in {0, byKey[k]}
      BY <2>1, <2>2, <2>3 DEF Gets
    <3>2. nextAuthID' = nextAuthID \/ (nextAuthID' = nextAuthID + 1 /\ ct'[nextAuthID'].key # k)
      BY <2>2, <2>3 DEF Gets
    <3> QED BY <1>1, <3>1, <3>2, WriterKeeps
  <2>4. CASE l = k
    <3>1. PICK i \in 1 .. nextAuthID' : i = Gotten(k)
      BY <2>2, <2>4 DEF Gets
    <3>2. /\ byKey'[k] \in {0, i} /\ ct'[i].key = k
          /\ \/ nextAuthID' = nextAuthID /\ i = byKey[k]
             \/ nextAuthID' = nextAuthID + 1 /\ i = nextAuthID'
      BY <2>2, <2>4, <3>1 DEF Gets
    <3>3. /\ byKey[k] \in {0, writer[k].id} /\ writer[k] \in WriterRec
          /\ \A j \in 1 .. nextAuthID : ct[j].key = k => j <= writer[k].id
          /\ \A j \in 1 .. nextAuthID : ct'[j].key = ct[j].key
      BY <1>1 DEF Hands, WriterHas, Shape, Preserved
    <3>4. ASSUME NEW j \in 1 .. nextAuthID', ct'[j].key = k PROVE j <= i
      <4>1. CASE nextAuthID' = nextAuthID /\ i = byKey[k]
        <5>1. i = writer[k].id /\ ct[j].key = k
          BY <3>1, <3>3, <3>4, <4>1
        <5> QED BY <3>3, <3>4, <4>1, <5>1
      <4>2. CASE nextAuthID' = nextAuthID + 1 /\ i = nextAuthID'
        BY <1>1, <4>2
      <4> QED BY <3>2, <4>1, <4>2
    <3>5. writer'[k].n # 0 /\ i # 0 /\ i <= nextAuthID'
      <4>1. writer[k].n \in Nat /\ i # 0 /\ i <= nextAuthID'
        BY <1>1, <3>3, L3TunnelConnAssumption DEF WriterRec
      <4>2. Writing(k, "again") => writer[k].n # 0
        BY DEF Hands, WriterHas, Writing
      <4> QED BY <2>1, <2>4, <4>1, <4>2
    <3>6. writer'[k].id = i /\ writer'[k].pc = "observe"
      BY <2>1, <2>4, <3>1
    <3> QED BY <3>2, <3>4, <3>5, <3>6 DEF WriterHas
  <2> QED BY <2>3, <2>4
<1>4. ASSUME NEW c \in 1 .. cur, Dispatch(c) PROVE WriterHas(k)'
  BY <1>2, <1>4, PlainCreatesNothing DEF Dispatch
<1>5. ASSUME NEW c \in 1 .. cur, GrantStep(c) PROVE WriterHas(k)'
  <2>1. NoBirth
    BY <1>5, GrantMoves, GrantEffect
  <2> QED BY <1>2, <1>5, <2>1 DEF GrantStep, Complete
<1>6. ASSUME NEW l \in Keys, NEW p \in {"idle", "lock", "again"}, NoBirth, Moved(l, p),
             writer[l].pc # "idle"
      PROVE  WriterHas(k)'
  <2>1. CASE l = k
    BY <1>1, <1>6, <2>1, WriterKeeps DEF NoBirth, Moved
  <2>2. CASE l # k
    BY <1>2, <1>6, <2>2 DEF Moved
  <2> QED BY <2>1, <2>2
<1>7. ASSUME NEW l \in Keys, CacheKept(l) PROVE WriterHas(k)'
  <2>1. writer[l].pc = "cache" /\ Moved(l, "idle")
    BY <1>7, WriterMoves DEF CacheKept, WriteCache, Writing
  <2>2. NoBirth
    BY <1>7, <2>1, WriterAtWork, CacheEffect DEF CacheKept
  <2> QED BY <1>6, <2>1, <2>2
<1>8. ASSUME PlainStep, NEW l \in Keys,
             \/ WriteGiveUp(l) \/ WriteObserve(l) \/ WriteLock(l)
             \/ CacheRefused(l) \/ WriteSend(l) \/ WriteFail(l)
      PROVE  WriterHas(k)'
  <2>1. NoBirth /\ writer[l].pc # "idle"
    BY <1>8, PlainCreatesNothing DEF PlainStep, WriteGiveUp, WriteObserve, WriteLock, CacheRefused,
       WriteCache, WriteSend, WriteFail, Writing
  <2>2. CASE WriteLock(l)
    <3>1. UNCHANGED mgrVars
      BY <2>2 DEF WriteLock
    <3>2. CASE \E p \in {"idle", "again"} : Moved(l, p)
      BY <1>6, <2>1, <3>2
    <3>3. CASE Moved(l, "cache") /\ Waiting(writer[l].id)
      <4>1. CASE l = k
        <5>1. ct'[writer[k].id].answer # "granted"
          BY <3>1, <3>3, <4>1 DEF mgrVars, Waiting
        <5> QED BY <1>1, <2>1, <3>3, <4>1, <5>1, WriterKeeps DEF NoBirth, Moved
      <4>2. CASE l # k
        BY <1>2, <2>1, <3>3, <4>2 DEF Moved
      <4> QED BY <4>1, <4>2
    <3>4. CASE Moved(l, "send") /\ ct[writer[l].id].answer = "granted"
      <4>1. CASE l = k
        BY <1>1, <2>1, <3>4, <4>1, WriterKeeps DEF NoBirth, Moved
      <4>2. CASE l # k
        BY <1>2, <2>1, <3>4, <4>2 DEF Moved
      <4> QED BY <4>1, <4>2
    <3> QED BY <2>2, <3>2, <3>3, <3>4, LockMoves
  <2>3. CASE ~WriteLock(l)
    <3>1. \E p \in {"idle", "lock", "again"} : Moved(l, p)
      BY <1>8, <2>3, WriterMoves DEF CacheRefused
    <3> QED BY <1>6, <2>1, <3>1
  <2> QED BY <2>2, <2>3
<1>9. ASSUME PlainStep, NEW c \in 1 .. cur,
             \/ SendAuth(c) \/ SendAuthFail(c) \/ AuthSent(c) \/ AuthExit(c)
             \/ Responses(c) \/ Refusal(c) \/ Flush(c) \/ FlushFail(c)
             \/ ReadExit(c) \/ ConnClose(c)
      PROVE  WriterHas(k)'
  <2>1. NoBirth
    BY <1>9, PlainCreatesNothing DEF PlainStep
  <2>2. writer' = writer
    <3>1. Responses(c) => writer' = writer
      BY ResponseMoves
    <3> QED BY <1>9, <3>1 DEF SendAuth, SendAuthFail, AuthSent, AuthExit, Refusal, Complete,
            Flush, FlushFail, ReadExit, ConnClose
  <2> QED BY <1>2, <2>1, <2>2
<1>10. ASSUME PlainStep, Reconnect \/ UNCHANGED connVars PROVE WriterHas(k)'
  <2>1. NoBirth
    BY <1>10, PlainCreatesNothing DEF PlainStep
  <2>2. writer' = writer
    BY <1>10 DEF Reconnect, connVars
  <2> QED BY <1>2, <2>1, <2>2
<1> QED BY <1>3, <1>4, <1>5, <1>7, <1>8, <1>9, <1>10 DEF AnyStep, PlainStep

\* Who leaves what alone.
WriterActs(k) ==
  \/ WriteGiveUp(k) \/ WriteObserve(k) \/ WriteLock(k)
  \/ CacheRefused(k) \/ WriteSend(k) \/ WriteFail(k)
AuthActs(c) == SendAuth(c) \/ SendAuthFail(c) \/ AuthSent(c) \/ AuthExit(c)
ReaderActs(c) == Responses(c) \/ Refusal(c) \/ Flush(c) \/ FlushFail(c) \/ ReadExit(c)

LEMMA PlainSteps ==
  ASSUME PlainStep
  PROVE  \/ \E k \in Keys : WriterActs(k)
         \/ \E c \in 1 .. cur : AuthActs(c)
         \/ \E c \in 1 .. cur : ReaderActs(c)
         \/ \E c \in 1 .. cur : ConnClose(c)
         \/ Reconnect
         \/ UNCHANGED connVars
BY DEF PlainStep, WriterActs, AuthActs, ReaderActs

LEMMA LeftAlone ==
  ASSUME MgrInv, Shape, Hands
  PROVE  /\ \A k \in Keys : Starts(k) \/ CacheKept(k) \/ WriterActs(k) =>
              UNCHANGED <<cur, open, auth, reader>>
         /\ \A k \in Keys : Starts(k) => UNCHANGED <<sendMu, wire, home>>
         /\ \A k \in Keys : WriterActs(k) /\ ~WriteSend(k) => UNCHANGED <<wire, home>>
         /\ \A c \in 1 .. cur : Dispatch(c) \/ AuthActs(c) =>
              UNCHANGED <<cur, sendMu, writer, reader, wire, home>>
         /\ \A c \in 1 .. cur : GrantStep(c) \/ ReaderActs(c) =>
              UNCHANGED <<cur, writer, auth, home>>
         /\ \A c \in 1 .. cur : ReaderActs(c) /\ ~Flush(c) => wire' = wire
         /\ \A c \in 1 .. cur : GrantStep(c) => UNCHANGED <<open, wire>>
         /\ \A c \in 1 .. cur : ConnClose(c) =>
              UNCHANGED <<cur, sendMu, writer, auth, reader, wire, home>>
         /\ Reconnect => UNCHANGED <<sendMu, writer, auth, reader, wire, home>>
         /\ UNCHANGED connVars =>
              UNCHANGED <<cur, open, sendMu, writer, auth, reader, wire, home>>
<1>1. ASSUME NEW k \in Keys, Starts(k) \/ CacheKept(k) \/ WriterActs(k)
      PROVE  UNCHANGED <<cur, open, auth, reader>>
  BY <1>1 DEF Starts, WriteStart, WriteAgain, CacheKept, WriteCache, WriterActs, WriteGiveUp,
     WriteObserve, WriteLock, CacheRefused, WriteSend, WriteFail
<1>2. ASSUME NEW k \in Keys, Starts(k) PROVE UNCHANGED <<sendMu, wire, home>>
  BY <1>2 DEF Starts, WriteStart, WriteAgain
<1>3. ASSUME NEW k \in Keys, WriterActs(k), ~WriteSend(k) PROVE UNCHANGED <<wire, home>>
  BY <1>3 DEF WriterActs, WriteGiveUp, WriteObserve, WriteLock, CacheRefused, WriteCache, WriteFail
<1>4. ASSUME NEW c \in 1 .. cur, Dispatch(c) \/ AuthActs(c)
      PROVE  UNCHANGED <<cur, sendMu, writer, reader, wire, home>>
  BY <1>4 DEF Dispatch, AuthActs, SendAuth, SendAuthFail, AuthSent, AuthExit
<1>5. ASSUME NEW c \in 1 .. cur, GrantStep(c) \/ ReaderActs(c)
      PROVE  UNCHANGED <<cur, writer, auth, home>>
  BY <1>5, ResponseMoves DEF GrantStep, Complete, ReaderActs, Refusal, Flush, FlushFail, ReadExit
<1>6. ASSUME NEW c \in 1 .. cur, ReaderActs(c), ~Flush(c) PROVE wire' = wire
  BY <1>6, ResponseMoves DEF Complete, ReaderActs, Refusal, FlushFail, ReadExit
<1>7. ASSUME NEW c \in 1 .. cur, GrantStep(c) PROVE UNCHANGED <<open, wire>>
  BY <1>7 DEF GrantStep, Complete
<1>8. ASSUME NEW c \in 1 .. cur, ConnClose(c)
      PROVE  UNCHANGED <<cur, sendMu, writer, auth, reader, wire, home>>
  BY <1>8 DEF ConnClose
<1>9. Reconnect => UNCHANGED <<sendMu, writer, auth, reader, wire, home>>
  BY DEF Reconnect
<1>10. UNCHANGED connVars => UNCHANGED <<cur, open, sendMu, writer, auth, reader, wire, home>>
  BY DEF connVars
<1> QED BY <1>1, <1>2, <1>3, <1>4, <1>5, <1>6, <1>7, <1>8, <1>9, <1>10

LEMMA JobsStep ==
  ASSUME MgrInv, Shape, Hands, AnyStep, NEW c \in Conns
  PROVE  JobsExist(c)'
<1>1. nextAuthID <= nextAuthID' /\ nextAuthID \in Nat /\ nextAuthID' \in Nat
  BY StepGrows
<1>2. /\ \A x \in DOMAIN auth[c].jobs : auth[c].jobs[x] \in 1 .. nextAuthID
      /\ auth[c].sent => auth[c].jobs # <<>>
      /\ auth[c] \in AuthRec
  BY DEF Hands, JobsExist, Shape
<1>3. ASSUME NEW s, NEW b, auth'[c].jobs = s, auth'[c].sent = b, b => s # <<>>,
             \A x \in DOMAIN s : s[x] \in 1 .. nextAuthID
      PROVE  JobsExist(c)'
  <2>1. \A x \in DOMAIN s : s[x] \in 1 .. nextAuthID'
    BY <1>1, <1>3
  <2> QED BY <1>3, <2>1 DEF JobsExist
<1>4. ASSUME auth'[c] = auth[c] PROVE JobsExist(c)'
  BY <1>2, <1>3, <1>4
<1>5. ASSUME NEW d \in 1 .. cur, Dispatch(d) PROVE JobsExist(c)'
  <2>1. Works(d, BatchSeq, FALSE)
    BY <1>5, AuthMoves
  <2>2. CASE d = c
    <3>1. /\ BatchSeq \in [1 .. Cardinality(Batch) -> Batch]
          /\ Batch \subseteq 1 .. nextAuthID
      BY BatchInOrder, MgrInvFacts
    <3>2. \A x \in DOMAIN BatchSeq : BatchSeq[x] \in 1 .. nextAuthID
      BY <3>1
    <3> QED BY <1>3, <2>1, <2>2, <3>2 DEF Works
  <2> QED BY <1>4, <2>1, <2>2 DEF Works
<1>6. ASSUME NEW d \in 1 .. cur, AuthActs(d) PROVE JobsExist(c)'
  <2>1. CASE d # c
    BY <1>4, <1>6, <2>1, AuthMoves DEF AuthActs, Works
  <2>2. CASE d = c
    <3>1. CASE SendAuth(c)
      BY <1>2, <1>3, <2>2, <3>1, AuthMoves DEF Works
    <3>2. CASE SendAuthFail(c)
      <4>1. auth'[c].jobs = <<>> /\ auth'[c].sent = FALSE
        BY <2>2, <3>2, AuthMoves DEF Works
      <4> QED BY <1>3, <4>1
    <3>3. CASE AuthSent(c)
      <4>1. /\ auth'[c].jobs = Tail(auth[c].jobs) /\ auth'[c].sent = FALSE
            /\ auth[c].jobs \in Seq(IDs) /\ auth[c].jobs # <<>>
        BY <1>2, <2>2, <3>3, AuthMoves DEF Works, AuthRec
      <4>2. \A x \in DOMAIN Tail(auth[c].jobs) : Tail(auth[c].jobs)[x] \in 1 .. nextAuthID
        BY <1>2, <4>1, SeqFacts
      <4> QED BY <1>3, <4>1, <4>2
    <3>4. CASE AuthExit(c)
      BY <1>2, <1>3, <2>2, <3>4, AuthMoves DEF Works
    <3> QED BY <1>6, <2>2, <3>1, <3>2, <3>3, <3>4 DEF AuthActs
  <2> QED BY <2>1, <2>2
<1>7. ASSUME auth' = auth PROVE JobsExist(c)'
  BY <1>4, <1>7
<1> QED BY <1>5, <1>6, <1>7, LeftAlone, PlainSteps DEF AnyStep

LEMMA ReadersStep ==
  ASSUME MgrInv, Shape, Hands, Locks, AnyStep, NEW c \in Conns
  PROVE  ReaderHas(c)'
<1>1. nextAuthID <= nextAuthID' /\ nextAuthID \in Nat /\ nextAuthID' \in Nat
  BY StepGrows
<1>2. cur \in Nat /\ (cur' = cur \/ cur' = cur + 1)
  <2>1. cur \in Nat
    BY L3TunnelConnAssumption DEF Shape, Conns
  <2>2. Reconnect => cur' = cur + 1
    BY DEF Reconnect
  <2> QED BY <2>1, <2>2, LeftAlone, PlainSteps DEF AnyStep
<1>3. \A i \in 1 .. nextAuthID : Preserved(i)
  BY StepKeeps
<1>4. ASSUME NEW i, NEW s, reader'[c].id = i, reader'[c].out = s,
             reader'[c].pc \in {"complete", "flush"} => i \in 1 .. nextAuthID /\ c <= cur,
             reader'[c].pc = "complete" => reader'[c].answer \in {"granted", "denied"},
             reader'[c].pc = "flush" => ct'[i].answer = "granted" /\ s # <<>>
      PROVE  ReaderHas(c)'
  <2>1. reader'[c].pc \in {"complete", "flush"} => i \in 1 .. nextAuthID' /\ c <= cur'
    BY <1>1, <1>2, <1>4, L3TunnelConnAssumption DEF Conns
  <2> QED BY <1>4, <2>1 DEF ReaderHas
<1>5. /\ reader[c].pc \in {"complete", "flush"} => reader[c].id \in 1 .. nextAuthID /\ c <= cur
      /\ reader[c].pc = "complete" => reader[c].answer \in {"granted", "denied"}
      /\ reader[c].pc = "flush" =>
           /\ ct[reader[c].id].answer = "granted" /\ reader[c].out # <<>>
           /\ ct'[reader[c].id].answer = "granted"
  BY <1>3 DEF Hands, ReaderHas, Preserved
<1>6. ASSUME reader'[c] = reader[c] PROVE ReaderHas(c)'
  BY <1>4, <1>5, <1>6
<1>7. ASSUME NEW i, NEW s, NEW p \in {"read", "exited"}, Reads(c, p, i, s) PROVE ReaderHas(c)'
  BY <1>4, <1>7 DEF Reads
<1>8. ASSUME NEW d \in 1 .. cur, GrantStep(d) PROVE ReaderHas(c)'
  <2>1. CASE d # c
    BY <1>6, <1>8, <2>1, GrantMoves DEF Reads
  <2>2. CASE d = c
    <3>1. /\ reader[c].id \in 1 .. nextAuthID
          /\ \/ /\ ct[reader[c].id].pending # <<>>
                /\ Reads(c, "flush", reader[c].id, ct[reader[c].id].pending)
             \/ Reads(c, "read", 0, <<>>)
          /\ CompleteAuth(reader[c].id, "granted")
      BY <1>8, <2>2, GrantMoves
    <3>2. ct'[reader[c].id].answer = "granted" /\ c <= cur
      BY <2>2, <3>1, <1>2, GrantEffect
    <3>3. CASE Reads(c, "read", 0, <<>>)
      BY <1>7, <3>3
    <3>4. CASE Reads(c, "flush", reader[c].id, ct[reader[c].id].pending)
               /\ ct[reader[c].id].pending # <<>>
      BY <1>4, <3>1, <3>2, <3>4 DEF Reads
    <3> QED BY <3>1, <3>3, <3>4
  <2> QED BY <2>1, <2>2
<1>9. ASSUME NEW d \in 1 .. cur, ReaderActs(d) PROVE ReaderHas(c)'
  <2>1. CASE Responses(d)
    <3>1. CASE reader' = reader
      BY <1>6, <3>1
    <3>2. ASSUME NEW j \in 1 .. nextAuthID, Reads(d, "complete", j, <<>>),
                 reader'[d].answer \in {"granted", "denied"}
          PROVE  ReaderHas(c)'
      <4>1. CASE d = c
        BY <1>2, <1>4, <3>2, <4>1 DEF Reads
      <4>2. CASE d # c
        BY <1>6, <3>2, <4>2 DEF Reads
      <4> QED BY <4>1, <4>2
    <3> QED BY <2>1, <3>1, <3>2, ResponseMoves
  <2>2. CASE Refusal(d) \/ FlushFail(d) \/ ReadExit(d)
    <3>1. \E p \in {"read", "exited"} : \E i, s : Reads(d, p, i, s)
      BY <2>2, ReaderMoves
    <3>2. CASE d = c
      BY <1>7, <3>1, <3>2
    <3>3. CASE d # c
      BY <1>6, <3>1, <3>3 DEF Reads
    <3> QED BY <3>2, <3>3
  <2>3. CASE Flush(d)
    <3>1. CASE d # c
      BY <1>6, <2>3, <3>1, FlushMoves DEF Reads
    <3>2. CASE d = c
      <4>1. \/ /\ Reads(c, "flush", reader[c].id, Tail(reader[c].out))
               /\ Len(reader[c].out) > 1
            \/ Reads(c, "read", 0, <<>>)
        BY <2>3, <3>2, FlushMoves
      <4>2. /\ reader[c].pc = "flush" /\ reader[c].out \in Seq(Packets)
            /\ reader[c].out # <<>>
        BY <2>3, <3>2, FlushMoves
      <4>3. CASE Reads(c, "flush", reader[c].id, Tail(reader[c].out)) /\ Len(reader[c].out) > 1
        <5>2. Tail(reader[c].out) # <<>>
          BY <4>2, <4>3, LongTail
        <5> QED BY <1>4, <1>5, <4>2, <4>3, <5>2 DEF Reads
      <4> QED BY <1>7, <4>1, <4>3
    <3> QED BY <3>1, <3>2
  <2> QED BY <1>9, <2>1, <2>2, <2>3 DEF ReaderActs
<1>10. ASSUME reader' = reader PROVE ReaderHas(c)'
  BY <1>6, <1>10
<1> QED BY <1>8, <1>9, <1>10, LeftAlone, PlainSteps DEF AnyStep

LEMMA HandsStep ==
  ASSUME MgrInv, Shape, Hands, Locks, AnyStep
  PROVE  Hands'
BY KeysStep, WritersStep, JobsStep, ReadersStep DEF Hands

-----------------------------------------------------------------------------
(* sendMu excludes.                                                        *)

LEMMA LocksKept ==
  ASSUME Locks, sendMu' = sendMu,
         \A k \in Keys, i \in IDs : Holds(k, i)' <=> Holds(k, i),
         \A c \in Conns, i \in IDs : Flushes(c, i)' <=> Flushes(c, i)
  PROVE  Locks'
BY DEF Locks

LEMMA WriterTakes ==
  ASSUME Locks, NEW k \in Keys, NEW i \in IDs, i \notin sendMu, sendMu' = sendMu \cup {i},
         \A l \in Keys, j \in IDs : Holds(l, j)' <=> (Holds(l, j) \/ (l = k /\ j = i)),
         \A c \in Conns, j \in IDs : Flushes(c, j)' <=> Flushes(c, j)
  PROVE  Locks'
BY DEF Locks

LEMMA WriterGives ==
  ASSUME Locks, NEW k \in Keys, NEW i \in IDs, Holds(k, i), sendMu' = sendMu \ {i},
         \A l \in Keys, j \in IDs : Holds(l, j)' <=> (Holds(l, j) /\ ~(l = k /\ j = i)),
         \A c \in Conns, j \in IDs : Flushes(c, j)' <=> Flushes(c, j)
  PROVE  Locks'
BY DEF Locks

LEMMA ReaderTakes ==
  ASSUME Locks, NEW c \in Conns, NEW i \in IDs, i \notin sendMu, sendMu' = sendMu \cup {i},
         \A l \in Keys, j \in IDs : Holds(l, j)' <=> Holds(l, j),
         \A d \in Conns, j \in IDs : Flushes(d, j)' <=> (Flushes(d, j) \/ (d = c /\ j = i))
  PROVE  Locks'
BY DEF Locks

LEMMA ReaderGives ==
  ASSUME Locks, NEW c \in Conns, NEW i \in IDs, Flushes(c, i), sendMu' = sendMu \ {i},
         \A l \in Keys, j \in IDs : Holds(l, j)' <=> Holds(l, j),
         \A d \in Conns, j \in IDs : Flushes(d, j)' <=> (Flushes(d, j) /\ ~(d = c /\ j = i))
  PROVE  Locks'
BY DEF Locks

LEMMA LocksStep ==
  ASSUME MgrInv, Shape, Hands, Locks, AnyStep
  PROVE  Locks'
<1>0. 1 .. nextAuthID \subseteq IDs
  BY MgrInvFacts
<1>1. writer' = writer => \A k \in Keys, i \in IDs : Holds(k, i)' <=> Holds(k, i)
  BY DEF Holds, Writing
<1>2. reader' = reader => \A c \in Conns, i \in IDs : Flushes(c, i)' <=> Flushes(c, i)
  BY DEF Flushes
<1>3. ASSUME writer' = writer, reader' = reader, sendMu' = sendMu PROVE Locks'
  BY <1>1, <1>2, <1>3, LocksKept
<1>4. ASSUME NEW k \in Keys, NEW p, Moved(k, p), NEW i, writer[k].id = i,
             p \notin {"cache", "send"}
      PROVE  \A l \in Keys, j \in IDs :
               Holds(l, j)' <=> (Holds(l, j) /\ ~(l = k /\ j = i))
  BY <1>4 DEF Holds, Writing, Moved
<1>5. ASSUME NEW k \in Keys, NEW p \in {"cache", "send"}, Moved(k, p), NEW i, writer[k].id = i,
             ~(Writing(k, "cache") \/ Writing(k, "send"))
      PROVE  \A l \in Keys, j \in IDs : Holds(l, j)' <=> (Holds(l, j) \/ (l = k /\ j = i))
  BY <1>5 DEF Holds, Writing, Moved
<1>6. ASSUME NEW k \in Keys, NEW p \in {"idle", "lock", "again"}, Moved(k, p), sendMu' = sendMu,
             ~(Writing(k, "cache") \/ Writing(k, "send")), reader' = reader
      PROVE  Locks'
  <2>1. PICK i : i = writer[k].id
    OBVIOUS
  <2>2. \A l \in Keys, j \in IDs : Holds(l, j)' <=> (Holds(l, j) /\ ~(l = k /\ j = i))
    BY <1>4, <1>6, <2>1
  <2>3. \A j \in IDs : ~Holds(k, j)
    BY <1>6 DEF Holds
  <2>4. \A l \in Keys, j \in IDs : Holds(l, j)' <=> Holds(l, j)
    BY <2>2, <2>3
  <2> QED BY <1>2, <1>6, <2>4, LocksKept
<1>7. ASSUME NEW k \in Keys, NEW p \in {"idle", "again"}, Moved(k, p),
             sendMu' = sendMu \ {writer[k].id},
             writer[k].pc = "cache" \/ writer[k].pc = "send", reader' = reader
      PROVE  Locks'
  <2>1. PICK i \in IDs : i = writer[k].id
    BY <1>0, <1>7, WriterAtWork
  <2>2. \A l \in Keys, j \in IDs : Holds(l, j)' <=> (Holds(l, j) /\ ~(l = k /\ j = i))
    BY <1>4, <1>7, <2>1
  <2>3. Holds(k, i)
    BY <1>7, <2>1 DEF Holds, Writing
  <2> QED BY <1>2, <1>7, <2>1, <2>2, <2>3, WriterGives
<1>8. ASSUME NEW k \in Keys, Starts(k) PROVE Locks'
  <2>1. /\ \A l \in Keys \ {k} : writer'[l] = writer[l]
        /\ writer'[k].pc = "observe" /\ (Writing(k, "idle") \/ Writing(k, "again"))
        /\ reader' = reader /\ sendMu' = sendMu
    BY <1>8, StartMoves
  <2>2. ASSUME NEW l \in Keys, NEW j \in IDs PROVE Holds(l, j)' <=> Holds(l, j)
    <3>1. CASE l = k
      BY <2>1, <3>1 DEF Holds, Writing
    <3>2. CASE l # k
      BY <2>1, <3>2 DEF Holds, Writing
    <3> QED BY <3>1, <3>2
  <2> QED BY <1>2, <2>1, <2>2, LocksKept
<1>9. ASSUME NEW k \in Keys, CacheKept(k) PROVE Locks'
  <2>1. /\ Moved(k, "idle") /\ sendMu' = sendMu \ {writer[k].id}
        /\ writer[k].pc = "cache" /\ reader' = reader
    BY <1>9, WriterMoves DEF CacheKept, WriteCache, Writing
  <2> QED BY <1>7, <2>1
<1>10. ASSUME NEW k \in Keys, WriterActs(k) PROVE Locks'
  <2>0. reader' = reader
    BY <1>10, LeftAlone
  <2>1. CASE WriteGiveUp(k) \/ WriteObserve(k)
    <3>1. /\ Moved(k, "idle") \/ Moved(k, "lock")
          /\ sendMu' = sendMu /\ ~(Writing(k, "cache") \/ Writing(k, "send"))
      BY <2>1, WriterMoves DEF WriteGiveUp, WriteObserve, Writing
    <3> QED BY <1>6, <2>0, <3>1
  <2>2. CASE CacheRefused(k) \/ WriteSend(k) \/ WriteFail(k)
    <3>1. /\ \E p \in {"idle", "again"} : Moved(k, p)
          /\ sendMu' = sendMu \ {writer[k].id}
          /\ writer[k].pc = "cache" \/ writer[k].pc = "send"
      BY <2>2, WriterMoves DEF CacheRefused, WriteCache, WriteSend, WriteFail, Writing
    <3> QED BY <1>7, <2>0, <3>1
  <2>3. CASE WriteLock(k)
    <3>1. ~(Writing(k, "cache") \/ Writing(k, "send"))
      BY <2>3 DEF WriteLock, Writing
    <3>2. PICK i \in IDs : i = writer[k].id
      BY <1>0, <2>3, LockMoves
    <3>3. i \notin sendMu
      BY <2>3, <3>2, LockMoves
    <3>4. ASSUME NEW p \in {"cache", "send"}, Moved(k, p), sendMu' = sendMu \cup {i}
          PROVE  Locks'
      <4>1. \A l \in Keys, j \in IDs : Holds(l, j)' <=> (Holds(l, j) \/ (l = k /\ j = i))
        BY <1>5, <3>1, <3>2, <3>4
      <4> QED BY <1>2, <2>0, <3>3, <3>4, <4>1, WriterTakes
    <3>5. ASSUME NEW p \in {"idle", "again"}, Moved(k, p), sendMu' = sendMu PROVE Locks'
      BY <1>6, <2>0, <3>1, <3>5
    <3> QED BY <2>3, <3>2, <3>4, <3>5, LockMoves
  <2> QED BY <1>10, <2>1, <2>2, <2>3 DEF WriterActs
<1>11. ASSUME NEW c \in Conns, NEW p, NEW i, NEW s, Reads(c, p, i, s), p # "flush",
              NEW j, reader[c].id = j
       PROVE  \A d \in Conns, l \in IDs :
                Flushes(d, l)' <=> (Flushes(d, l) /\ ~(d = c /\ l = j))
  BY <1>11 DEF Flushes, Reads
<1>12. ASSUME NEW c \in Conns, NEW p, NEW i, NEW s, Reads(c, p, i, s), p # "flush",
              reader[c].pc # "flush", writer' = writer, sendMu' = sendMu
       PROVE  Locks'
  <2>1. \A d \in Conns, l \in IDs : Flushes(d, l)' <=> Flushes(d, l)
    BY <1>12 DEF Flushes, Reads
  <2> QED BY <1>1, <1>12, <2>1, LocksKept
<1>13. ASSUME NEW c \in Conns, NEW s, Reads(c, "read", 0, s), reader[c].pc = "flush",
              NEW i \in IDs, i = reader[c].id, writer' = writer, sendMu' = sendMu \ {i}
       PROVE  Locks'
  <2>1. Flushes(c, i)
    BY <1>13 DEF Flushes
  <2>2. \A d \in Conns, l \in IDs : Flushes(d, l)' <=> (Flushes(d, l) /\ ~(d = c /\ l = i))
    BY <1>11, <1>13
  <2> QED BY <1>1, <1>13, <2>1, <2>2, ReaderGives
<1>14. ASSUME NEW c \in 1 .. cur, GrantStep(c) PROVE Locks'
  <2>1. /\ c \in Conns /\ reader[c].pc = "complete" /\ writer' = writer
        /\ reader[c].id \in IDs /\ reader[c].id \notin sendMu
    BY <1>0, <1>14, GrantMoves, LeftAlone
  <2>2. PICK i \in IDs : i = reader[c].id
    BY <2>1
  <2>3. ASSUME NEW s, Reads(c, "flush", i, s), sendMu' = sendMu \cup {i}
        PROVE  Locks'
    <3>1. \A d \in Conns, l \in IDs : Flushes(d, l)' <=> (Flushes(d, l) \/ (d = c /\ l = i))
      BY <2>1, <2>3 DEF Flushes, Reads
    <3> QED BY <1>1, <2>1, <2>2, <2>3, <3>1, ReaderTakes
  <2>4. ASSUME Reads(c, "read", 0, <<>>), sendMu' = sendMu PROVE Locks'
    BY <1>12, <2>1, <2>4
  <2> QED BY <1>14, <2>2, <2>3, <2>4, GrantMoves
<1>15. ASSUME NEW c \in 1 .. cur, ReaderActs(c) PROVE Locks'
  <2>0. writer' = writer /\ c \in Conns
    BY <1>15, LeftAlone, ReaderMoves
  <2>1. CASE Responses(c)
    <3>1. reader[c].pc # "flush" /\ sendMu' = sendMu
      BY <2>1, ResponseMoves
    <3>2. CASE reader' = reader
      BY <1>3, <2>0, <3>1, <3>2
    <3>3. CASE \E j \in 1 .. nextAuthID : Reads(c, "complete", j, <<>>)
      BY <1>12, <2>0, <3>1, <3>3
    <3> QED BY <2>1, <3>2, <3>3, ResponseMoves
  <2>2. CASE Refusal(c)
    <3>1. Reads(c, "read", 0, <<>>) /\ reader[c].pc # "flush" /\ sendMu' = sendMu
      BY <2>2, ReaderMoves DEF Refusal, Complete
    <3> QED BY <1>12, <2>0, <3>1
  <2>3. CASE ReadExit(c)
    <3>1. /\ Reads(c, "exited", reader[c].id, reader[c].out)
          /\ reader[c].pc # "flush" /\ sendMu' = sendMu
      BY <2>3, ReaderMoves DEF ReadExit
    <3> QED BY <1>12, <2>0, <3>1
  <2>4. CASE FlushFail(c)
    <3>1. /\ Reads(c, "read", 0, <<>>) /\ reader[c].pc = "flush"
          /\ sendMu' = sendMu \ {reader[c].id}
      BY <2>4, ReaderMoves DEF FlushFail
    <3>2. reader[c].id \in IDs
      BY <1>0, <3>1, ReaderAtWork
    <3> QED BY <1>13, <2>0, <3>1, <3>2
  <2>5. CASE Flush(c)
    <3>1. reader[c].pc = "flush" /\ reader[c].id \in IDs
      BY <1>0, <2>5, FlushMoves
    <3>2. CASE Reads(c, "flush", reader[c].id, Tail(reader[c].out)) /\ sendMu' = sendMu
      <4>1. \A d \in Conns, l \in IDs : Flushes(d, l)' <=> Flushes(d, l)
        BY <2>0, <3>1, <3>2 DEF Flushes, Reads
      <4> QED BY <1>1, <2>0, <3>2, <4>1, LocksKept
    <3>3. CASE Reads(c, "read", 0, <<>>) /\ sendMu' = sendMu \ {reader[c].id}
      BY <1>13, <2>0, <3>1, <3>3
    <3> QED BY <2>5, <3>2, <3>3, FlushMoves
  <2> QED BY <1>15, <2>1, <2>2, <2>3, <2>4, <2>5 DEF ReaderActs
<1>16. ASSUME NEW c \in 1 .. cur, Dispatch(c) \/ AuthActs(c) \/ ConnClose(c) PROVE Locks'
  BY <1>3, <1>16, LeftAlone
<1>17. ASSUME Reconnect \/ UNCHANGED connVars PROVE Locks'
  BY <1>3, <1>17, LeftAlone
<1> QED BY <1>8, <1>9, <1>10, <1>14, <1>15, <1>16, <1>17, PlainSteps DEF AnyStep

\* What the runs check of it.
LEMMA LocksExclude ==
  ASSUME Locks
  PROVE  OneHolder
<1> SUFFICES ASSUME NEW i \in IDs
             PROVE  Cardinality(Holders(i)) = IF i \in sendMu THEN 1 ELSE 0
  BY DEF OneHolder
<1>1. Holders(i) = {k \in Keys : Holds(k, i)} \cup {c \in Conns : Flushes(c, i)}
  BY DEF Holders, Holds, Flushes
<1>2. CASE i \notin sendMu
  <2>1. Holders(i) = {}
    BY <1>1, <1>2 DEF Locks
  <2> QED BY <1>2, <2>1, FS_EmptySet
<1>3. CASE i \in sendMu
  <2>1. \E h : Holders(i) = {h}
    <3>1. CASE \E k \in Keys : Holds(k, i)
      <4>1. PICK k \in Keys : Holds(k, i)
        BY <3>1
      <4>2. (\A l \in Keys : Holds(l, i) => l = k) /\ \A c \in Conns : ~Flushes(c, i)
        BY <4>1 DEF Locks
      <4>3. Holders(i) = {k}
        BY <1>1, <4>1, <4>2
      <4> QED BY <4>3
    <3>2. CASE ~\E k \in Keys : Holds(k, i)
      <4>1. PICK c \in Conns : Flushes(c, i)
        BY <1>3, <3>2 DEF Locks
      <4>2. \A d \in Conns : Flushes(d, i) => d = c
        BY <4>1 DEF Locks
      <4>3. Holders(i) = {c}
        BY <1>1, <3>2, <4>1, <4>2
      <4> QED BY <4>3
    <3> QED BY <3>1, <3>2
  <2> QED BY <1>3, <2>1, FS_Singleton
<1> QED BY <1>2, <1>3

-----------------------------------------------------------------------------
(* Who takes care of what was marked.                                      *)

\* Once a connection is lost, not all are open again.
LEMMA StillOpen ==
  ASSUME MgrInv, Shape, Hands, AnyStep, open' = 1 .. cur'
  PROVE  /\ open = 1 .. cur
         /\ \A c \in 1 .. cur : ~SendAuthFail(c) /\ ~FlushFail(c) /\ ~ConnClose(c)
<1>1. cur \in Nat \ {0} /\ open \subseteq 1 .. cur
  BY L3TunnelConnAssumption DEF Shape, Conns
<1>2. ASSUME Reconnect PROVE open = 1 .. cur
  <2>1. cur' = cur + 1 /\ open' = open \cup {cur + 1}
    BY <1>2 DEF Reconnect
  <2>2. ASSUME NEW c \in 1 .. cur PROVE c \in open
    <3>1. c \in open' /\ c # cur + 1
      BY <1>1, <2>1
    <3> QED BY <2>1, <3>1
  <2> QED BY <1>1, <2>2
<1>3. ASSUME NEW c \in 1 .. cur, SendAuthFail(c) \/ FlushFail(c) \/ ConnClose(c) PROVE FALSE
  <2>1. cur' = cur /\ open' = open \ {c}
    BY <1>3 DEF SendAuthFail, FlushFail, ConnClose
  <2> QED BY <2>1
<1>4. Reconnect \/ (open' = open /\ cur' = cur)
  <2>1. ASSUME NEW c \in 1 .. cur, Dispatch(c) \/ AuthActs(c) PROVE open' = open
    BY <1>3, <2>1 DEF Dispatch, AuthActs, SendAuth, AuthSent, AuthExit
  <2>2. ASSUME NEW c \in 1 .. cur, ReaderActs(c) PROVE open' = open
    BY <1>3, <2>2, ResponseMoves DEF ReaderActs, Refusal, Complete, Flush, ReadExit
  <2>3. ASSUME NEW k \in Keys, Starts(k) \/ CacheKept(k) \/ WriterActs(k) PROVE open' = open
    BY <2>3, LeftAlone
  <2>4. ASSUME NEW c \in 1 .. cur, GrantStep(c) PROVE open' = open
    BY <2>4, LeftAlone
  <2>5. UNCHANGED connVars => open' = open
    BY LeftAlone
  <2>6. Reconnect \/ open' = open
    BY <1>3, <2>1, <2>2, <2>3, <2>4, <2>5, PlainSteps DEF AnyStep
  <2>7. Reconnect \/ cur' = cur
    BY LeftAlone, PlainSteps DEF AnyStep
  <2> QED BY <2>6, <2>7
<1> QED BY <1>2, <1>3, <1>4

LEMMA CareStep ==
  ASSUME MgrInv, Shape, Hands, Care, AnyStep
  PROVE  Care'
<1> SUFFICES ASSUME open' = 1 .. cur', NEW i \in IDs, Marked(i)'
             PROVE  \E c \in Conns : \E x \in DOMAIN auth'[c].jobs : auth'[c].jobs[x] = i
  BY DEF Care
<1>1. /\ open = 1 .. cur
      /\ \A c \in 1 .. cur : ~SendAuthFail(c) /\ ~FlushFail(c) /\ ~ConnClose(c)
  BY StillOpen
<1>2. Marked(i) => \E c \in Conns : \E x \in DOMAIN auth[c].jobs : auth[c].jobs[x] = i
  BY <1>1 DEF Care
<1>3. (\E k \in Keys : Starts(k)) => Marked(i)
  BY MarkedBefore, StartMoves
<1>4. (\E k \in Keys : CacheKept(k)) => Marked(i)
  <2>1. ASSUME NEW k \in Keys, CacheKept(k) PROVE Marked(i)
    <3>1. /\ writer[k].id \in 1 .. nextAuthID /\ writer[k].n \in Packets
          /\ CachePacket(writer[k].id, writer[k].n)
      BY <2>1, WriterAtWork DEF CacheKept, WriteCache, Writing
    <3> QED BY <3>1, MarkedBefore
  <2> QED BY <2>1
<1>5. (\E c \in 1 .. cur : GrantStep(c)) => Marked(i)
  BY MarkedBefore, GrantMoves
<1>6. PlainStep => Marked(i) /\ ~MarkAuthSent(i)
  BY MarkedBefore DEF PlainStep
<1>7. ASSUME Marked(i), auth' = auth
      PROVE  \E c \in Conns : \E x \in DOMAIN auth'[c].jobs : auth'[c].jobs[x] = i
  BY <1>2, <1>7
<1>8. ASSUME NEW c \in 1 .. cur, Dispatch(c)
      PROVE  \E d \in Conns : \E x \in DOMAIN auth'[d].jobs : auth'[d].jobs[x] = i
  <2>1. c \in Conns /\ auth[c].jobs = <<>> /\ Works(c, BatchSeq, FALSE)
    BY <1>8, AuthMoves
  <2>2. CASE Marked(i)
    <3>1. PICK d \in Conns : \E x \in DOMAIN auth[d].jobs : auth[d].jobs[x] = i
      BY <1>2, <2>2
    <3>2. d # c
      BY <2>1, <3>1
    <3> QED BY <2>1, <3>1, <3>2 DEF Works
  <2>3. CASE i \in Batch
    <3>1. PICK x \in 1 .. Cardinality(Batch) : BatchSeq[x] = i
      BY <2>3, BatchInOrder
    <3>2. x \in DOMAIN BatchSeq
      BY BatchInOrder
    <3> QED BY <2>1, <3>1, <3>2 DEF Works
  <2> QED BY <1>8, <2>2, <2>3, MarkedByBatch DEF Dispatch
<1>9. ASSUME PlainStep, NEW c \in 1 .. cur, AuthActs(c)
      PROVE  \E d \in Conns : \E x \in DOMAIN auth'[d].jobs : auth'[d].jobs[x] = i
  <2>0. PICK d \in Conns : \E x \in DOMAIN auth[d].jobs : auth[d].jobs[x] = i
    BY <1>2, <1>6, <1>9
  <2>1. PICK x \in DOMAIN auth[d].jobs : auth[d].jobs[x] = i
    BY <2>0
  <2>2. CASE d # c
    <3>1. auth'[d] = auth[d]
      BY <1>9, <2>2, AuthMoves DEF AuthActs, Works
    <3> QED BY <2>1, <3>1
  <2>3. CASE d = c /\ (SendAuth(c) \/ AuthExit(c))
    <3>1. auth'[c].jobs = auth[c].jobs
      BY <2>3, AuthMoves DEF Works
    <3> QED BY <2>1, <2>3, <3>1
  <2>4. CASE d = c /\ AuthSent(c)
    <3>1. /\ auth'[c].jobs = Tail(auth[c].jobs) /\ auth[c].jobs # <<>>
          /\ auth[c].jobs \in Seq(IDs) /\ c \in Conns
      BY <2>4, AuthMoves DEF Works, AuthRec
    <3>2. PICK s \in Seq(IDs) : s = auth[c].jobs
      BY <3>1
    <3>3. /\ s # <<>> /\ Len(s) \in Nat \ {0} /\ DOMAIN s = 1 .. Len(s)
          /\ DOMAIN Tail(s) = 1 .. Len(s) - 1 /\ Head(s) = s[1]
          /\ \A y \in 1 .. Len(s) - 1 : Tail(s)[y] = s[y + 1]
      BY <3>1, <3>2, SeqFacts
    <3>4. x # 1
      <4>1. ASSUME x = 1 PROVE FALSE
        <5>1. i = Head(auth[c].jobs)
          BY <2>1, <2>4, <3>2, <3>3, <4>1
        <5>2. MarkAuthSent(i) \/ ~(i \in byID /\ Waiting(i))
          BY <2>4, <5>1 DEF AuthSent
        <5> QED BY <1>6, <1>9, <5>2 DEF Marked
      <4> QED BY <4>1
    <3>5. PICK y \in 1 .. Len(s) - 1 : x = y + 1
      <4>1. x \in 1 .. Len(s)
        BY <2>1, <2>4, <3>2, <3>3
        <4>2. \A l \in Nat : \A z \in 1 .. l : z # 1 => z - 1 \in 1 .. l - 1 /\ z = (z - 1) + 1
        OBVIOUS
      <4> QED BY <3>3, <3>4, <4>1, <4>2
    <3>6. Tail(s)[y] = i /\ y \in DOMAIN Tail(s)
      BY <2>1, <2>4, <3>2, <3>3, <3>5
    <3> QED BY <3>1, <3>2, <3>6
  <2> QED BY <1>1, <1>9, <2>2, <2>3, <2>4 DEF AuthActs
<1>10. ASSUME PlainStep, NEW c \in 1 .. cur, ReaderActs(c) PROVE auth' = auth
  BY <1>10, LeftAlone
<1>11. CASE PlainStep
  BY <1>1, <1>6, <1>7, <1>9, <1>10, <1>11, LeftAlone, PlainSteps
<1> QED BY <1>3, <1>4, <1>5, <1>7, <1>8, <1>11, LeftAlone DEF AnyStep

\* What the runs check of it.
LEMMA NobodyIsForgotten ==
  ASSUME MgrInv, Shape, Care
  PROVE  CaredFor
<1> SUFFICES ASSUME open = 1 .. cur, NEW i \in byID, ct[i].pending # NoPackets
             PROVE  \/ ct[i].started = 0
                    \/ ct[i].deadline # 0
                    \/ \E c \in Conns : \E x \in DOMAIN auth[c].jobs : auth[c].jobs[x] = i
  BY DEF CaredFor, NobodyForgotten
<1>1. i \in 1 .. nextAuthID /\ i \in IDs
  BY MgrInvFacts
<1>2. Waiting(i)
  BY <1>1 DEF MgrInv, AnswerConsistent
<1> QED BY <1>1, <1>2 DEF Care, Marked

-----------------------------------------------------------------------------
(* Where the packets are, and in which order they leave.                   *)

\* A step that moves no packet: none is cached, sent, authorised or taken by a readLoop;
\* a readLoop only drops what it has when its connection is closed.
Still ==
  /\ \A i \in 1 .. nextAuthID : Stays(i)
  /\ wire' = wire /\ home' = home /\ (cur' = 1 => cur = 1)
  /\ \A k \in Keys, n \in Packets : Unwritten(k, n)' => Unwritten(k, n)
  /\ \A c \in Conns : reader'[c].pc = "flush" => reader'[c] = reader[c]
  /\ \A c \in Conns : reader[c].pc = "flush" => reader'[c] = reader[c] \/ open' # 1 .. cur'

LEMMA StillSteps ==
  ASSUME MgrInv, Shape, Hands, AnyStep,
         \/ \E k \in Keys : Starts(k) \/ (WriterActs(k) /\ ~WriteSend(k))
         \/ \E c \in 1 .. cur : Dispatch(c) \/ AuthActs(c) \/ ConnClose(c)
         \/ \E c \in 1 .. cur : ReaderActs(c) /\ ~Flush(c)
         \/ Reconnect \/ UNCHANGED connVars,
         PlainStep \/ (\E k \in Keys : Starts(k)) \/ \E c \in 1 .. cur : Dispatch(c)
  PROVE  Still
<1>1. \A i \in 1 .. nextAuthID : Stays(i)
  <2>1. Quiet
    BY StartMoves DEF Quiet, PlainStep, Dispatch
  <2> QED BY <2>1, QuietStays
<1>2. wire' = wire /\ home' = home /\ (cur' = 1 => cur = 1)
  <2>1. Reconnect => cur' = cur + 1
    BY DEF Reconnect
  <2>2. cur \in Nat \ {0} /\ (Reconnect \/ cur' = cur)
    BY LeftAlone, L3TunnelConnAssumption DEF Shape, Conns
  <2> QED BY <2>1, <2>2, LeftAlone
<1>3. \A k \in Keys : writer[k] \in WriterRec /\ writer[k].n \in Nat
  BY L3TunnelConnAssumption DEF Shape, WriterRec
<1>4. ASSUME NEW k \in Keys, NEW n \in Packets, Unwritten(k, n)' PROVE Unwritten(k, n)
  <2>0. n \in Nat /\ (n > writer'[k].n \/ (n = writer'[k].n /\ writer'[k].pc # "idle"))
    BY <1>4, L3TunnelConnAssumption DEF Unwritten, Writing
  <2>1. ASSUME writer'[k] = writer[k] PROVE Unwritten(k, n)
    BY <2>0, <2>1 DEF Unwritten, Writing
  <2>2. ASSUME NEW l \in Keys, Starts(l) PROVE Unwritten(k, n)
    <3>1. CASE l = k
      <4>1. \/ Writing(k, "idle") /\ writer'[k].n = writer[k].n + 1
            \/ Writing(k, "again") /\ writer'[k].n = writer[k].n
        BY <2>2, <3>1, StartMoves
      <4>2. CASE Writing(k, "idle") /\ writer'[k].n = writer[k].n + 1
        <5>1. n > writer[k].n
          BY <1>3, <2>0, <4>2
        <5> QED BY <5>1 DEF Unwritten
      <4>3. CASE Writing(k, "again") /\ writer'[k].n = writer[k].n
        BY <2>0, <4>3 DEF Unwritten, Writing
      <4> QED BY <4>1, <4>2, <4>3
    <3>2. CASE l # k
      BY <2>1, <2>2, <3>2, StartMoves
    <3> QED BY <3>1, <3>2
  <2>3. ASSUME NEW l \in Keys, WriterActs(l) PROVE Unwritten(k, n)
    <3>1. \E p : Moved(l, p)
      BY <2>3, WriterMoves, LockMoves DEF WriterActs, CacheRefused
    <3>2. writer[l].pc # "idle"
      BY <2>3 DEF WriterActs, WriteGiveUp, WriteObserve, WriteLock, CacheRefused, WriteCache,
         WriteSend, WriteFail, Writing
    <3>3. CASE l = k
      <4>1. writer'[k].n = writer[k].n
        BY <3>1, <3>3 DEF Moved
      <4> QED BY <2>0, <3>2, <3>3, <4>1 DEF Unwritten, Writing
    <3>4. CASE l # k
      BY <2>1, <3>1, <3>4 DEF Moved
    <3> QED BY <3>3, <3>4
  <2>4. ASSUME writer' = writer PROVE Unwritten(k, n)
    BY <2>1, <2>4
  <2> QED BY <2>2, <2>3, <2>4, LeftAlone
<1>5. ASSUME NEW c \in Conns
      PROVE  /\ reader'[c].pc = "flush" => reader'[c] = reader[c]
             /\ reader[c].pc = "flush" => reader'[c] = reader[c] \/ open' # 1 .. cur'
  <2>1. ASSUME NEW d \in 1 .. cur, ReaderActs(d), ~Flush(d)
        PROVE  /\ reader'[c].pc = "flush" => reader'[c] = reader[c]
               /\ reader[c].pc = "flush" => reader'[c] = reader[c] \/ open' # 1 .. cur'
    <3>1. CASE Responses(d)
      <4>1. CASE reader' = reader
        BY <4>1
      <4>2. ASSUME NEW j, Reads(d, "complete", j, <<>>)
            PROVE  /\ reader'[c].pc = "flush" => reader'[c] = reader[c]
                   /\ reader[c].pc = "flush" => reader'[c] = reader[c]
        <5>1. reader[d].pc = "read"
          BY <3>1, ResponseMoves
        <5> QED BY <4>2, <5>1 DEF Reads
      <4> QED BY <3>1, <4>1, <4>2, ResponseMoves
    <3>2. CASE Refusal(d) \/ ReadExit(d)
      <4>1. reader[d].pc # "flush"
        BY <3>2 DEF Refusal, Complete, ReadExit
      <4>2. \E p \in {"read", "exited"} : \E i, s : Reads(d, p, i, s)
        BY <3>2, ReaderMoves
      <4> QED BY <4>1, <4>2 DEF Reads
    <3>3. CASE FlushFail(d)
      <4>1. Reads(d, "read", 0, <<>>)
        BY <3>3, ReaderMoves
      <4>2. open' # 1 .. cur'
        BY <3>3, StillOpen
      <4> QED BY <4>1, <4>2 DEF Reads
    <3> QED BY <2>1, <3>1, <3>2, <3>3 DEF ReaderActs
  <2>2. ASSUME reader' = reader
        PROVE  /\ reader'[c].pc = "flush" => reader'[c] = reader[c]
               /\ reader[c].pc = "flush" => reader'[c] = reader[c] \/ open' # 1 .. cur'
    BY <2>2
  <2> QED BY <2>1, <2>2, LeftAlone
<1> QED BY <1>1, <1>2, <1>4, <1>5 DEF Still

LEMMA StillHomes ==
  ASSUME MgrInv, Shape, Hands, Homes, AnyStep, Still
  PROVE  Homes'
<1>0. /\ nextAuthID \in Nat /\ nextAuthID' \in Nat /\ nextAuthID <= nextAuthID'
      /\ \/ nextAuthID' = nextAuthID
         \/ /\ nextAuthID' = nextAuthID + 1 /\ ct'[nextAuthID'].key \in Keys
            /\ ct'[nextAuthID'].pending = NoPackets
            /\ ct'[nextAuthID'].answer \in {"waiting", "closed"}
      /\ wire' = wire /\ home' = home
      /\ home \in [Keys -> [Packets -> IDs \cup {0}]]
      /\ wire \in [Conns -> [Keys -> Seq(Packets)]]
      /\ reader \in [Conns -> ReaderRec]
  BY StepGrows DEF Still, Shape
<1>1. \A i \in 1 .. nextAuthID :
        /\ ct'[i].key = ct[i].key
        /\ ct'[i].answer = "granted" <=> ct[i].answer = "granted"
        /\ Waiting(i)' => Waiting(i) /\ ct'[i].pending = ct[i].pending
        /\ ct'[i].pending = ct[i].pending \/ ct'[i].pending = NoPackets
  BY DEF Still, Stays, Waiting
<1>2. ASSUME NEW k \in Keys, NEW n \in Packets PROVE HomeOf(k, n)'
  <2>1. PICK i \in IDs \cup {0} : i = home[k][n]
    BY <1>0
  <2>2. /\ Unwritten(k, n) => i = 0
        /\ i # 0 =>
             /\ i <= nextAuthID /\ ct[i].key = k
             /\ \A m \in Packets : m < n => home[k][m] <= i
             /\ Waiting(i) => \E x \in DOMAIN ct[i].pending : ct[i].pending[x] = n
             /\ ct[i].answer = "granted" => Sent(k, n) \/ InOut(n, i) \/ open # 1 .. cur
    BY <2>1 DEF Homes, HomeOf
  <2>3. Unwritten(k, n)' => i = 0
    BY <2>2 DEF Still
  <2>4. CASE i # 0
    <3>1. i \in 1 .. nextAuthID /\ i <= nextAuthID'
      BY <1>0, <2>2, <2>4 DEF IDs
    <3>2. ct'[i].key = k /\ (Waiting(i)' => \E x \in DOMAIN ct'[i].pending : ct'[i].pending[x] = n)
      BY <1>1, <2>2, <2>4, <3>1
    <3>3. ASSUME ct'[i].answer = "granted", open' = 1 .. cur'
          PROVE  Sent(k, n)' \/ InOut(n, i)'
      <4>1. Sent(k, n) \/ InOut(n, i)
        BY <1>1, <2>2, <2>4, <3>1, <3>3, StillOpen
      <4>2. Sent(k, n) => Sent(k, n)'
        BY <1>0 DEF Sent
      <4>3. InOut(n, i) => InOut(n, i)'
        BY <3>3 DEF InOut, Flushes, Still
      <4> QED BY <4>1, <4>2, <4>3
    <3> QED BY <1>0, <2>1, <2>2, <2>3, <2>4, <3>1, <3>2, <3>3 DEF HomeOf
  <2>5. CASE i = 0
    BY <1>0, <2>1, <2>5 DEF HomeOf
  <2> QED BY <2>4, <2>5
<1>3. ASSUME NEW i \in 1 .. nextAuthID' PROVE PendingAtHome(i)'
  <2>1. CASE i \in 1 .. nextAuthID /\ ct'[i].pending = ct[i].pending
    <3>1. PendingAtHome(i) /\ ct'[i].key = ct[i].key
      BY <1>1, <2>1 DEF Homes
    <3> QED BY <1>0, <2>1, <3>1 DEF PendingAtHome, Increasing
  <2>2. CASE ct'[i].pending = <<>>
    BY <2>2 DEF PendingAtHome, Increasing
  <2>3. i \in 1 .. nextAuthID \/ (i = nextAuthID' /\ nextAuthID' = nextAuthID + 1)
    BY <1>0
  <2> QED BY <1>0, <1>1, <2>1, <2>2, <2>3 DEF NoPackets
<1>4. ASSUME NEW c \in Conns PROVE OutAtHome(c)'
  <2> SUFFICES ASSUME reader'[c].pc = "flush" PROVE OutAtHome(c)'
    BY DEF OutAtHome
  <2>1. reader'[c] = reader[c] /\ OutAtHome(c) /\ reader[c].id \in 1 .. nextAuthID
    BY DEF Still, Homes, Hands, ReaderHas
  <2>2. ct'[reader[c].id].key = ct[reader[c].id].key
    BY <1>1, <2>1
  <2> QED BY <1>0, <2>1, <2>2 DEF OutAtHome, Increasing
<1>5. ASSUME NEW c \in Conns, NEW k \in Keys PROVE WireAtHome(c, k)'
  <2> SUFFICES ASSUME NEW x \in DOMAIN wire[c][k]
               PROVE  /\ home[k][wire[c][k][x]] # 0
                      /\ ct'[home[k][wire[c][k][x]]].answer = "granted"
    BY <1>0 DEF WireAtHome
  <2>1. PICK n \in Packets : n = wire[c][k][x]
    <3>1. wire[c][k] \in Seq(Packets)
      BY <1>0
    <3> QED BY <3>1
  <2>2. PICK i \in IDs \cup {0} : i = home[k][n]
    BY <1>0
  <2>3. i # 0 /\ ct[i].answer = "granted"
    BY <2>1, <2>2 DEF Homes, WireAtHome
  <2>4. i \in 1 .. nextAuthID
    BY <1>0, <2>2, <2>3 DEF Homes, HomeOf, IDs
  <2> QED BY <1>1, <2>1, <2>2, <2>3, <2>4
<1>6. LastGrant'
  <2> SUFFICES ASSUME cur' = 1, reader'[1].pc = "flush", NEW j \in 1 .. nextAuthID',
                      ct'[j].key = ct'[reader'[1].id].key, ct'[j].answer = "granted"
               PROVE  j <= reader'[1].id
    BY DEF LastGrant
  <2>1. 1 \in Conns /\ cur \in Nat \ {0}
    BY L3TunnelConnAssumption DEF Conns, Shape
  <2>2. reader'[1] = reader[1] /\ reader[1].id \in 1 .. nextAuthID
    BY <2>1 DEF Still, Hands, ReaderHas
  <2>3. cur = 1
    <3>1. Reconnect => cur' = cur + 1
      BY DEF Reconnect
    <3>2. cur' = cur \/ Reconnect
      BY LeftAlone, PlainSteps DEF AnyStep
    <3> QED BY <2>1, <3>1, <3>2
  <2>4. j \in 1 .. nextAuthID
    BY <1>0
  <2>5. ct[j].key = ct[reader[1].id].key /\ ct[j].answer = "granted"
    BY <1>1, <2>2, <2>4
  <2> QED BY <2>2, <2>3, <2>4, <2>5 DEF Homes, LastGrant
<1> QED BY <1>2, <1>3, <1>4, <1>5, <1>6 DEF Homes

\* Members of the sequences, and what Homes says of them.
LEMMA SentIsHome ==
  ASSUME MgrInv, Shape, Homes, NEW c \in Conns, NEW k \in Keys, NEW x \in DOMAIN wire[c][k],
         NEW n, n = wire[c][k][x]
  PROVE  /\ n \in Packets /\ home[k][n] \in 1 .. nextAuthID
         /\ ct[home[k][n]].answer = "granted" /\ ct[home[k][n]].key = k
         /\ ~Unwritten(k, n)
<1>1. n \in Packets
  <2>1. wire[c][k] \in Seq(Packets)
    BY DEF Shape
  <2> QED BY <2>1
<1>2. home[k][n] # 0 /\ ct[home[k][n]].answer = "granted"
  BY DEF Homes, WireAtHome
<1>3. home[k][n] \in IDs \cup {0} /\ nextAuthID \in Nat
  BY <1>1, MgrInvFacts DEF Shape
<1>4. home[k][n] <= nextAuthID /\ ct[home[k][n]].key = k /\ ~Unwritten(k, n)
  BY <1>1, <1>2 DEF Homes, HomeOf
<1> QED BY <1>1, <1>2, <1>3, <1>4 DEF IDs

LEMMA PendingIsHome ==
  ASSUME MgrInv, Shape, Homes, Hands, NEW i \in 1 .. nextAuthID, NEW x \in DOMAIN ct[i].pending,
         NEW n, n = ct[i].pending[x], NEW k, k = ct[i].key
  PROVE  n \in Packets /\ k \in Keys /\ home[k][n] = i /\ ~Unwritten(k, n)
<1>1. n \in Packets
  <2>1. ct[i].pending \in Seq(Packets)
    BY MgrInvFacts DEF ConntrackRec
  <2> QED BY <2>1
<1>2. k \in Keys /\ home[k][n] = i
  BY DEF Homes, PendingAtHome, Hands
<1> QED BY <1>1, <1>2 DEF Homes, HomeOf

LEMMA OutIsHome ==
  ASSUME MgrInv, Shape, Homes, Hands, NEW c \in Conns, reader[c].pc = "flush",
         NEW x \in DOMAIN reader[c].out, NEW n, n = reader[c].out[x],
         NEW i, i = reader[c].id, NEW k, k = ct[i].key
  PROVE  /\ n \in Packets /\ k \in Keys /\ i \in 1 .. nextAuthID /\ home[k][n] = i
         /\ ct[i].answer = "granted" /\ ~Unwritten(k, n)
<1>1. n \in Packets
  <2>1. reader[c].out \in Seq(Packets)
    BY DEF Shape, ReaderRec
  <2> QED BY <2>1
<1>2. /\ i \in 1 .. nextAuthID /\ k \in Keys /\ ct[i].answer = "granted"
      /\ home[k][n] = i
  BY DEF Homes, OutAtHome, Hands, ReaderHas
<1> QED BY <1>1, <1>2 DEF Homes, HomeOf

\* A packet that gets a home had none, and is the last written of its flow.
LEMMA NewHome ==
  ASSUME MgrInv, Shape, Hands, Homes, NEW k \in Keys, writer[k].pc # "idle",
         HomeIs(k, writer[k].n, writer[k].id), Moved(k, "idle")
  PROVE  /\ home[k][writer[k].n] = 0
         /\ \A l \in Keys, m \in Packets : home[l][m] # 0 => home'[l][m] = home[l][m]
         /\ \A l \in Keys, m \in Packets : Unwritten(l, m)' => Unwritten(l, m) /\ home'[l][m] = 0
         /\ \A m \in Packets : ~Unwritten(k, m) => m < writer[k].n
         /\ \A l \in Keys, m, p \in Packets :
              p < m /\ home'[l][m] # 0 => home'[l][p] <= home'[l][m]
<1>1. /\ writer[k].n \in Packets /\ writer[k].id \in 1 .. nextAuthID /\ writer[k].id \in IDs
      /\ nextAuthID \in Nat /\ home \in [Keys -> [Packets -> IDs \cup {0}]]
  BY WriterAtWork, MgrInvFacts DEF Shape
<1>2. PICK n \in Packets, i \in IDs : n = writer[k].n /\ i = writer[k].id
  BY <1>1
<1>3. /\ home'[k][n] = i
      /\ \A l \in Keys, m \in Packets : l # k \/ m # n => home'[l][m] = home[l][m]
  BY <1>2 DEF HomeIs
<1>4. \A l \in Keys, m \in Packets :
        /\ Unwritten(l, m) => home[l][m] = 0
        /\ home[l][m] # 0 =>
             /\ home[l][m] <= nextAuthID /\ ct[home[l][m]].key = l
             /\ \A p \in Packets : p < m => home[l][p] <= home[l][m]
  BY DEF Homes, HomeOf
<1>5. home[k][n] = 0
  BY <1>2, <1>4 DEF Unwritten, Writing
<1>6. Packets \subseteq Nat
  BY L3TunnelConnAssumption
<1>7. \A m \in Packets : ~Unwritten(k, m) => m < n
  BY <1>2, <1>6 DEF Unwritten, Writing
<1>8. ASSUME NEW l \in Keys, NEW m \in Packets, Unwritten(l, m)'
      PROVE  Unwritten(l, m) /\ home'[l][m] = 0
  <2>1. CASE l = k
    <3>1. m > n
      BY <1>2, <2>1, <1>8 DEF Moved, Unwritten, Writing
    <3>2. Unwritten(k, m) /\ m # n
      BY <1>2, <1>6, <3>1 DEF Unwritten
    <3> QED BY <1>3, <1>4, <2>1, <3>2
  <2>2. CASE l # k
    BY <1>3, <1>4, <1>8, <2>2 DEF Moved, Unwritten, Writing
  <2> QED BY <2>1, <2>2
<1>9. ASSUME NEW l \in Keys, NEW m \in Packets, NEW p \in Packets, p < m, home'[l][m] # 0
      PROVE  home'[l][p] <= home'[l][m]
  <2>1. CASE l = k /\ m = n
    <3>1. home'[l][m] = i /\ home'[l][p] = home[k][p]
      BY <1>3, <1>6, <1>9, <2>1
    <3>2. PICK h \in IDs \cup {0} : h = home[k][p]
      BY <1>1
    <3>3. h # 0 => h <= i
      <4>1. h # 0 => h \in 1 .. nextAuthID /\ ct[h].key = k
        BY <1>1, <1>4, <3>2 DEF IDs
      <4> QED BY <1>2, <4>1 DEF Hands, WriterHas
    <3> QED BY <3>1, <3>2, <3>3 DEF IDs
  <2>2. CASE l = k /\ p = n
    <3>1. Unwritten(k, m) /\ m # n
      BY <1>2, <1>6, <1>9, <2>2 DEF Unwritten
    <3>2. home'[k][m] = 0
      BY <1>3, <1>4, <3>1
    <3> QED BY <1>9, <2>2, <3>2
  <2>3. CASE l # k \/ (m # n /\ p # n)
    BY <1>3, <1>4, <1>9, <2>3
  <2> QED BY <2>1, <2>2, <2>3
<1> QED BY <1>2, <1>3, <1>5, <1>7, <1>8, <1>9

LEMMA CacheHomes ==
  ASSUME MgrInv, Shape, Hands, Homes, FlowOrder, NEW k \in Keys, CacheKept(k)
  PROVE  Homes' /\ FlowOrder'
<1>1. /\ writer[k].pc = "cache" /\ Moved(k, "idle") /\ CachePacket(writer[k].id, writer[k].n)
      /\ UNCHANGED <<cur, open, reader, wire>>
  BY WriterMoves DEF CacheKept, WriteCache, Writing
<1>2. PICK n \in Packets, i \in 1 .. nextAuthID :
        n = writer[k].n /\ i = writer[k].id /\ ct[i].key = k /\ i \in IDs
  BY <1>1, WriterAtWork, MgrInvFacts
<1>3. HomeIs(k, n, i)
  BY <1>2, HomeEffect DEF CacheKept
<1>4. /\ Waiting(i) /\ nextAuthID' = nextAuthID
      /\ ct'[i].pending = Append(ct[i].pending, n)
      /\ ct'[i].key = ct[i].key /\ ct'[i].answer = "waiting"
      /\ \A j \in IDs \ {i} : ct'[j] = ct[j]
  <2>1. CachePacket(i, n)
    BY <1>1, <1>2
  <2>2. /\ Waiting(i) /\ NoBirth
        /\ ct'[i].pending = Append(ct[i].pending, n)
        /\ ct'[i].key = ct[i].key /\ ct'[i].answer = "waiting"
        /\ \A j \in IDs \ {i} : ct'[j] = ct[j]
    BY <2>1, CacheEffect
  <2> QED BY <2>2 DEF NoBirth
<1>5. /\ home[k][n] = 0 /\ home'[k][n] = i
      /\ \A l \in Keys, m \in Packets : l # k \/ m # n => home'[l][m] = home[l][m]
      /\ \A l \in Keys, m \in Packets : home[l][m] # 0 => home'[l][m] = home[l][m]
      /\ \A l \in Keys, m \in Packets : Unwritten(l, m)' => Unwritten(l, m) /\ home'[l][m] = 0
      /\ \A m \in Packets : ~Unwritten(k, m) => m < n
      /\ \A l \in Keys, m, p \in Packets :
           p < m /\ home'[l][m] # 0 => home'[l][p] <= home'[l][m]
  BY <1>1, <1>2, <1>3, NewHome DEF HomeIs
<1>6. /\ \A j \in 1 .. nextAuthID :
           ct'[j].key = ct[j].key /\ ct'[j].answer = ct[j].answer /\ j \in IDs
      /\ 0 \notin IDs /\ nextAuthID \in Nat
      /\ home \in [Keys -> [Packets -> IDs \cup {0}]]
  BY <1>4, MgrInvFacts DEF Waiting, Shape
<1>7. PICK s \in Seq(Packets) : s = ct[i].pending
  BY <1>6, MgrInvFacts DEF ConntrackRec
<1>8. PICK t : t = Append(s, n)
  OBVIOUS
<1>9. /\ Len(s) \in Nat /\ DOMAIN s = 1 .. Len(s) /\ DOMAIN t = 1 .. Len(s) + 1
      /\ t[Len(s) + 1] = n /\ \A x \in 1 .. Len(s) : t[x] = s[x]
  BY <1>8, AppendFacts
<1>10. ASSUME NEW l \in Keys, NEW m \in Packets PROVE HomeOf(l, m)'
  <2>1. PICK h \in IDs \cup {0} : h = home'[l][m]
    BY <1>3 DEF HomeIs
  <2>2. CASE l = k /\ m = n
    <3>1. h = i /\ ct'[i].pending[Len(s) + 1] = n /\ Len(s) + 1 \in DOMAIN ct'[i].pending
      BY <1>4, <1>5, <1>7, <1>8, <1>9, <2>1, <2>2
    <3>2. h <= nextAuthID' /\ ct'[h].key = l /\ ct'[h].answer # "granted" /\ h # 0
      <4>1. i <= nextAuthID' /\ i # 0
        BY <1>2, <1>4, <1>6
      <4>2. ct'[i].key = k /\ ct'[i].answer # "granted"
        BY <1>2, <1>4
      <4> QED BY <2>2, <3>1, <4>1, <4>2
    <3> QED BY <1>5, <2>1, <2>2, <3>1, <3>2 DEF HomeOf
  <2>3. CASE l # k \/ m # n
    <3>1. h = home[l][m]
      BY <1>5, <2>1, <2>3
    <3>2. h # 0 =>
            /\ h <= nextAuthID /\ ct[h].key = l
            /\ Waiting(h) => \E x \in DOMAIN ct[h].pending : ct[h].pending[x] = m
            /\ ct[h].answer = "granted" => Sent(l, m) \/ InOut(m, h) \/ open # 1 .. cur
      BY <3>1 DEF Homes, HomeOf
    <3>3. h # 0 => h \in 1 .. nextAuthID
      BY <1>6, <3>2 DEF IDs
    <3>4. h # 0 => h <= nextAuthID' /\ ct'[h].key = l
      BY <1>4, <1>6, <3>2, <3>3
    <3>5. ASSUME h # 0, Waiting(h)' PROVE \E x \in DOMAIN ct'[h].pending : ct'[h].pending[x] = m
      <4>1. Waiting(h)
        BY <1>6, <3>3, <3>5 DEF Waiting
      <4>2. PICK x \in DOMAIN ct[h].pending : ct[h].pending[x] = m
        BY <3>2, <3>5, <4>1
      <4>3. CASE h = i
        <5>1. x \in 1 .. Len(s) /\ t[x] = m /\ x \in DOMAIN t
          BY <1>7, <1>9, <4>2, <4>3
        <5> QED BY <1>4, <1>7, <1>8, <4>3, <5>1
      <4>4. CASE h # i
        BY <1>4, <1>6, <3>3, <3>5, <4>2, <4>4
      <4> QED BY <4>3, <4>4
    <3>6. ASSUME h # 0, ct'[h].answer = "granted"
          PROVE  Sent(l, m)' \/ InOut(m, h)' \/ open' # 1 .. cur'
      <4>1. Sent(l, m) \/ InOut(m, h) \/ open # 1 .. cur
        BY <1>6, <3>2, <3>3, <3>6
      <4> QED BY <1>1, <4>1 DEF Sent, InOut, Flushes
    <3> QED BY <1>5, <2>1, <3>4, <3>5, <3>6 DEF HomeOf
  <2> QED BY <2>2, <2>3
<1>11. ASSUME NEW j \in 1 .. nextAuthID' PROVE PendingAtHome(j)'
  <2>0. j \in 1 .. nextAuthID /\ PendingAtHome(j)
    BY <1>4, <1>11 DEF Homes
  <2>1. CASE j = i
    <3>1. ct'[j].pending = t /\ ct'[j].key = k
      BY <1>2, <1>4, <1>7, <1>8, <2>1
    <3>2. ASSUME NEW x \in 1 .. Len(s)
          PROVE  s[x] \in Packets /\ s[x] < n /\ home[k][s[x]] = i
      <4>1. PICK m : m = s[x]
        OBVIOUS
      <4>2. m \in Packets /\ home[k][m] = i /\ ~Unwritten(k, m)
        <5>1. x \in DOMAIN ct[i].pending /\ m = ct[i].pending[x] /\ k = ct[i].key
          BY <1>2, <1>7, <1>9, <4>1
        <5> QED BY <5>1, PendingIsHome
      <4> QED BY <1>5, <4>1, <4>2
    <3>3. \A x, y \in 1 .. Len(s) : x < y => s[x] < s[y]
      BY <1>7, <1>9, <2>0, <2>1 DEF PendingAtHome, Increasing
    <3>4. ASSUME NEW x \in DOMAIN t, NEW y \in DOMAIN t, x < y PROVE t[x] < t[y]
      <4>1. x \in 1 .. Len(s) /\ (y \in 1 .. Len(s) \/ y = Len(s) + 1)
        BY <1>9, <3>4
      <4> QED BY <1>9, <3>2, <3>3, <3>4, <4>1
    <3>5. ASSUME NEW x \in DOMAIN t PROVE home'[k][t[x]] = i
      <4>1. x \in 1 .. Len(s) \/ x = Len(s) + 1
        BY <1>9
      <4>2. CASE x \in 1 .. Len(s)
        <5>1. t[x] = s[x] /\ s[x] \in Packets /\ home[k][s[x]] = i /\ i # 0
          BY <1>6, <1>9, <3>2, <4>2
        <5> QED BY <1>5, <5>1
      <4> QED BY <1>5, <1>9, <4>1, <4>2
    <3> QED BY <2>1, <3>1, <3>4, <3>5 DEF PendingAtHome, Increasing
  <2>2. CASE j # i
    <3>1. ct'[j] = ct[j]
      BY <1>4, <1>6, <2>0, <2>2
    <3>2. ASSUME NEW x \in DOMAIN ct[j].pending PROVE home'[ct[j].key][ct[j].pending[x]] = j
      <4>1. PICK m, l : m = ct[j].pending[x] /\ l = ct[j].key
        OBVIOUS
      <4>2. m \in Packets /\ l \in Keys /\ home[l][m] = j /\ j # 0
        BY <1>6, <2>0, <4>1, PendingIsHome
      <4> QED BY <1>5, <4>1, <4>2
    <3> QED BY <2>0, <3>1, <3>2 DEF PendingAtHome, Increasing
  <2> QED BY <2>1, <2>2
<1>12. ASSUME NEW c \in Conns, NEW l \in Keys, NEW x \in DOMAIN wire[c][l]
       PROVE  /\ home'[l][wire[c][l][x]] = home[l][wire[c][l][x]]
              /\ home[l][wire[c][l][x]] \in 1 .. nextAuthID
              /\ ct[home[l][wire[c][l][x]]].answer = "granted"
  <2>1. PICK m : m = wire[c][l][x]
    OBVIOUS
  <2>2. m \in Packets /\ home[l][m] \in 1 .. nextAuthID /\ ct[home[l][m]].answer = "granted"
    BY <2>1, SentIsHome
  <2> QED BY <1>5, <1>6, <2>1, <2>2
<1>13. ASSUME NEW c \in Conns PROVE OutAtHome(c)'
  <2> SUFFICES ASSUME reader[c].pc = "flush" PROVE OutAtHome(c)'
    BY <1>1 DEF OutAtHome
  <2>1. PICK r, l : r = reader[c].id /\ l = ct[r].key
    OBVIOUS
  <2>2. /\ OutAtHome(c) /\ r \in 1 .. nextAuthID /\ l \in Keys
        /\ ct'[r].key = l
    BY <1>6, <2>1 DEF Homes, Hands, ReaderHas
  <2>3. \A x \in DOMAIN reader[c].out : home'[l][reader[c].out[x]] = r
    <3>1. ASSUME NEW x \in DOMAIN reader[c].out PROVE home'[l][reader[c].out[x]] = r
      <4>1. PICK m : m = reader[c].out[x]
        OBVIOUS
      <4>2. m \in Packets /\ home[l][m] = r /\ r # 0
        BY <1>6, <2>1, <2>2, <4>1, OutIsHome
      <4> QED BY <1>5, <2>2, <4>1, <4>2
    <3> QED BY <3>1
  <2>4. /\ \A x, y \in DOMAIN reader[c].out : x < y => reader[c].out[x] < reader[c].out[y]
        /\ \A x \in DOMAIN reader[c].out, y \in DOMAIN wire[c][l] :
             home[l][wire[c][l][y]] = r => wire[c][l][y] < reader[c].out[x]
    BY <2>1, <2>2 DEF OutAtHome, Increasing
  <2>5. \A x \in DOMAIN reader[c].out, y \in DOMAIN wire[c][l] :
             home'[l][wire[c][l][y]] = r => wire[c][l][y] < reader[c].out[x]
    BY <1>12, <2>2, <2>4
  <2>6. reader'[c] = reader[c] /\ wire'[c] = wire[c]
    BY <1>1
  <2> QED BY <2>1, <2>2, <2>3, <2>4, <2>5, <2>6 DEF OutAtHome, Increasing
<1>14. ASSUME NEW c \in Conns, NEW l \in Keys PROVE WireAtHome(c, l)'
  BY <1>1, <1>6, <1>12 DEF WireAtHome
<1>15. LastGrant'
  <2>1. 1 \in Conns
    BY L3TunnelConnAssumption DEF Conns
  <2>2. reader[1].pc = "flush" => reader[1].id \in 1 .. nextAuthID
    BY <2>1 DEF Hands, ReaderHas
  <2> QED BY <1>1, <1>4, <1>6, <2>2 DEF Homes, LastGrant
<1>16. FlowOrder'
  BY <1>1, <1>12 DEF FlowOrder
<1> QED BY <1>10, <1>11, <1>13, <1>14, <1>15, <1>16 DEF Homes

\* What a packet added at the end of a wire does to it.
LEMMA SentOnWire ==
  ASSUME Shape, NEW c \in Conns, NEW k \in Keys, NEW n \in Packets, Sends(c, k, n)
  PROVE  /\ Len(wire[c][k]) \in Nat /\ DOMAIN wire[c][k] = 1 .. Len(wire[c][k])
         /\ DOMAIN wire'[c][k] = 1 .. Len(wire[c][k]) + 1
         /\ wire'[c][k][Len(wire[c][k]) + 1] = n
         /\ \A x \in 1 .. Len(wire[c][k]) : wire'[c][k][x] = wire[c][k][x]
         /\ \A l \in Keys : \A m : Sent(l, m) => Sent(l, m)'
         /\ Sent(k, n)'
<1>1. PICK s \in Seq(Packets) : s = wire[c][k]
  BY DEF Shape
<1>2. PICK t : t = wire'[c][k]
  OBVIOUS
<1>3. t = Append(s, n) /\ \A d \in Conns, l \in Keys : d # c \/ l # k => wire'[d][l] = wire[d][l]
  BY <1>1, <1>2 DEF Sends
<1>4. /\ Len(s) \in Nat /\ DOMAIN s = 1 .. Len(s) /\ DOMAIN t = 1 .. Len(s) + 1
      /\ t[Len(s) + 1] = n /\ \A x \in 1 .. Len(s) : t[x] = s[x]
  BY <1>3, AppendFacts
<1>5. ASSUME NEW l \in Keys, NEW m, Sent(l, m) PROVE Sent(l, m)'
  <2>1. PICK d \in Conns : \E x \in DOMAIN wire[d][l] : wire[d][l][x] = m
    BY <1>5 DEF Sent
  <2>2. CASE d # c \/ l # k
    BY <1>3, <2>1, <2>2 DEF Sent
  <2>3. CASE d = c /\ l = k
    <3>1. PICK x \in 1 .. Len(s) : s[x] = m
      BY <1>1, <1>4, <2>1, <2>3
    <3>2. x \in DOMAIN t /\ t[x] = m
      BY <1>4, <3>1
    <3> QED BY <1>2, <2>3, <3>2 DEF Sent
  <2> QED BY <2>2, <2>3
<1>6. Sent(k, n)'
  <2>1. Len(s) + 1 \in DOMAIN t
    BY <1>4
  <2> QED BY <1>2, <1>4, <2>1 DEF Sent
<1> QED BY <1>1, <1>2, <1>4, <1>5, <1>6

\* A packet on the wire after that was there before or is the one added.
LEMMA OnWire ==
  ASSUME Shape, NEW c \in Conns, NEW k \in Keys, NEW n \in Packets, Sends(c, k, n),
         NEW y \in DOMAIN wire'[c][k]
  PROVE  \/ y \in DOMAIN wire[c][k] /\ wire'[c][k][y] = wire[c][k][y]
         \/ wire'[c][k][y] = n
<1>1. PICK s, t : s = wire[c][k] /\ t = wire'[c][k]
  OBVIOUS
<1>2. /\ Len(s) \in Nat /\ DOMAIN s = 1 .. Len(s) /\ DOMAIN t = 1 .. Len(s) + 1
      /\ t[Len(s) + 1] = n /\ \A x \in 1 .. Len(s) : t[x] = s[x]
  BY <1>1, SentOnWire
<1>3. y \in 1 .. Len(s) \/ y = Len(s) + 1
  BY <1>1, <1>2
<1> QED BY <1>1, <1>2, <1>3

\* Order on a wire, in two parts.
OrderOn(c, k) ==
  \A x, y \in DOMAIN wire[c][k] :
    /\ x # y => wire[c][k][x] # wire[c][k][y]
    /\ x < y /\ ((c = 1 /\ cur = 1) \/ home[k][wire[c][k][x]] = home[k][wire[c][k][y]]) =>
         wire[c][k][x] < wire[c][k][y]

LEMMA FlowOrderParts == FlowOrder <=> \A c \in Conns, k \in Keys : OrderOn(c, k)
BY DEF FlowOrder, OrderOn

\* A packet sent after all that belongs before it keeps the order.
LEMMA OrderKept ==
  ASSUME Shape, FlowOrder, NEW c \in Conns, NEW k \in Keys, NEW n \in Packets, Sends(c, k, n),
         cur' = cur,
         \A x \in DOMAIN wire[c][k] :
           /\ wire[c][k][x] # n
           /\ home'[k][wire[c][k][x]] = home[k][wire[c][k][x]]
           /\ (c = 1 /\ cur = 1) \/ home[k][wire[c][k][x]] = home'[k][n] => wire[c][k][x] < n,
         \A d \in Conns, l \in Keys : \A x \in DOMAIN wire[d][l] :
           home'[l][wire[d][l][x]] = home[l][wire[d][l][x]]
  PROVE  FlowOrder'
<1>1. ASSUME NEW d \in Conns, NEW l \in Keys PROVE OrderOn(d, l)'
  <2>0. OrderOn(d, l)
    BY FlowOrderParts
  <2>1. CASE d # c \/ l # k
    <3>1. wire'[d][l] = wire[d][l]
      BY <2>1 DEF Sends
    <3> QED BY <2>0, <3>1 DEF OrderOn
  <2>2. CASE d = c /\ l = k
    <3>1. PICK s, t, h, g : s = wire[c][k] /\ t = wire'[c][k] /\ h = home[k] /\ g = home'[k]
      OBVIOUS
    <3>2. /\ Len(s) \in Nat /\ DOMAIN s = 1 .. Len(s) /\ DOMAIN t = 1 .. Len(s) + 1
          /\ t[Len(s) + 1] = n /\ \A x \in 1 .. Len(s) : t[x] = s[x]
      BY <3>1, SentOnWire
    <3>3. \A x \in 1 .. Len(s) :
            s[x] # n /\ g[s[x]] = h[s[x]] /\ ((c = 1 /\ cur = 1) \/ h[s[x]] = g[n] => s[x] < n)
      BY <3>1, <3>2
    <3>4. \A x, y \in 1 .. Len(s) :
            /\ x # y => s[x] # s[y]
            /\ x < y /\ ((c = 1 /\ cur = 1) \/ h[s[x]] = h[s[y]]) => s[x] < s[y]
      <4>1. OrderOn(c, k)
        BY <2>0, <2>2
      <4>2. \A x, y \in DOMAIN s :
              /\ x # y => s[x] # s[y]
              /\ x < y /\ ((c = 1 /\ cur = 1) \/ h[s[x]] = h[s[y]]) => s[x] < s[y]
        BY <3>1, <4>1, Zenon DEF OrderOn
      <4> QED BY <3>2, <4>2
    <3>5. ASSUME NEW x \in DOMAIN t, NEW y \in DOMAIN t
          PROVE  /\ x # y => t[x] # t[y]
                 /\ x < y /\ ((c = 1 /\ cur = 1) \/ g[t[x]] = g[t[y]]) => t[x] < t[y]
      <4>1. /\ x \in 1 .. Len(s) \/ x = Len(s) + 1
            /\ y \in 1 .. Len(s) \/ y = Len(s) + 1
        BY <3>2
      <4>2. CASE x \in 1 .. Len(s) /\ y \in 1 .. Len(s)
        BY <3>2, <3>3, <3>4, <4>2
      <4>3. CASE x \in 1 .. Len(s) /\ y = Len(s) + 1
        BY <3>2, <3>3, <4>3
      <4>4. CASE x = Len(s) + 1 /\ y \in 1 .. Len(s)
        <5>1. ~(x < y) /\ t[x] # t[y]
          BY <3>2, <3>3, <4>4
        <5> QED BY <5>1
      <4>5. CASE x = Len(s) + 1 /\ y = Len(s) + 1
        <5>1. x = y /\ ~(x < y)
          BY <3>2, <4>5
        <5> QED BY <5>1
      <4> QED BY <4>1, <4>2, <4>3, <4>4, <4>5
    <3> QED BY <2>2, <3>1, <3>5 DEF OrderOn
  <2> QED BY <2>1, <2>2
<1> QED BY <1>1 DEF FlowOrder, OrderOn

\* An authorised writer sends its packet.
LEMMA SendHomes ==
  ASSUME MgrInv, Shape, Hands, Locks, Homes, FlowOrder, NEW k \in Keys, WriteSend(k)
  PROVE  Homes' /\ FlowOrder'
<1>1. /\ writer[k].pc = "send" /\ Moved(k, "idle")
      /\ UNCHANGED <<cur, open, reader>> /\ UNCHANGED mgrVars
  BY SendMoves
<1>2. PICK n \in Packets, i \in 1 .. nextAuthID :
        n = writer[k].n /\ i = writer[k].id /\ ct[i].key = k /\ i \in IDs
        /\ ct[i].answer = "granted"
  BY <1>1, WriterAtWork, MgrInvFacts DEF Hands, WriterHas
<1>3. PICK c \in Conns : Sends(c, k, n)
  BY <1>2, SendMoves
<1>4. HomeIs(k, n, i)
  BY <1>2, SendMoves
<1>5. /\ home[k][n] = 0 /\ home'[k][n] = i
      /\ \A l \in Keys, m \in Packets : l # k \/ m # n => home'[l][m] = home[l][m]
      /\ \A l \in Keys, m \in Packets : home[l][m] # 0 => home'[l][m] = home[l][m]
      /\ \A l \in Keys, m \in Packets : Unwritten(l, m)' => Unwritten(l, m) /\ home'[l][m] = 0
      /\ \A m \in Packets : ~Unwritten(k, m) => m < n
      /\ \A l \in Keys, m, p \in Packets :
           p < m /\ home'[l][m] # 0 => home'[l][p] <= home'[l][m]
  BY <1>1, <1>2, <1>4, NewHome DEF HomeIs
<1>6. /\ ct' = ct /\ nextAuthID' = nextAuthID /\ 0 \notin IDs /\ nextAuthID \in Nat
      /\ 1 .. nextAuthID \subseteq IDs
      /\ home \in [Keys -> [Packets -> IDs \cup {0}]]
  BY <1>1, MgrInvFacts DEF mgrVars, Shape
<1>7. /\ \A l \in Keys : \A m : Sent(l, m) => Sent(l, m)'
      /\ Sent(k, n)'
  BY <1>3, SentOnWire
<1>8. ASSUME NEW l \in Keys, NEW m \in Packets PROVE HomeOf(l, m)'
  <2>1. PICK h \in IDs \cup {0} : h = home'[l][m]
    BY <1>4 DEF HomeIs
  <2>2. CASE l = k /\ m = n
    <3>1. h = i /\ h # 0 /\ h <= nextAuthID' /\ ct'[h].key = l /\ ct'[h].answer = "granted"
      BY <1>2, <1>5, <1>6, <2>1, <2>2
    <3>2. ~Waiting(h)'
      BY <3>1 DEF Waiting
    <3> QED BY <1>5, <1>7, <2>1, <2>2, <3>1, <3>2 DEF HomeOf
  <2>3. CASE l # k \/ m # n
    <3>1. h = home[l][m]
      BY <1>5, <2>1, <2>3
    <3>2. h # 0 =>
            /\ h <= nextAuthID /\ ct[h].key = l
            /\ Waiting(h) => \E x \in DOMAIN ct[h].pending : ct[h].pending[x] = m
            /\ ct[h].answer = "granted" => Sent(l, m) \/ InOut(m, h) \/ open # 1 .. cur
      BY <3>1 DEF Homes, HomeOf
    <3>3. h # 0 => (Waiting(h)' => \E x \in DOMAIN ct'[h].pending : ct'[h].pending[x] = m)
      BY <1>6, <3>2 DEF Waiting
    <3>4. ASSUME h # 0, ct'[h].answer = "granted"
          PROVE  Sent(l, m)' \/ InOut(m, h)' \/ open' # 1 .. cur'
      BY <1>1, <1>6, <1>7, <3>2, <3>4 DEF InOut, Flushes
    <3> QED BY <1>5, <1>6, <2>1, <3>2, <3>3, <3>4 DEF HomeOf
  <2> QED BY <2>2, <2>3
<1>9. ASSUME NEW j \in 1 .. nextAuthID' PROVE PendingAtHome(j)'
  <2>1. j \in 1 .. nextAuthID /\ PendingAtHome(j)
    BY <1>6, <1>9 DEF Homes
  <2>2. ASSUME NEW x \in DOMAIN ct[j].pending PROVE home'[ct[j].key][ct[j].pending[x]] = j
    <3>1. PICK m, l : m = ct[j].pending[x] /\ l = ct[j].key
      OBVIOUS
    <3>2. m \in Packets /\ l \in Keys /\ home[l][m] = j /\ j # 0
      BY <1>6, <2>1, <3>1, PendingIsHome
    <3> QED BY <1>5, <3>1, <3>2
  <2> QED BY <1>6, <2>1, <2>2 DEF PendingAtHome, Increasing
<1>10. ASSUME NEW d \in Conns, NEW l \in Keys, NEW x \in DOMAIN wire[d][l]
       PROVE  /\ home'[l][wire[d][l][x]] = home[l][wire[d][l][x]]
              /\ home[l][wire[d][l][x]] \in 1 .. nextAuthID
              /\ ct[home[l][wire[d][l][x]]].answer = "granted"
              /\ l = k => wire[d][l][x] < n /\ wire[d][l][x] # n
  <2>1. PICK m : m = wire[d][l][x]
    OBVIOUS
  <2>2. /\ m \in Packets /\ home[l][m] \in 1 .. nextAuthID /\ ct[home[l][m]].answer = "granted"
        /\ ~Unwritten(l, m)
    BY <2>1, SentIsHome
  <2>3. l = k => m < n /\ m # n
    BY <1>5, <1>6, <2>2
  <2> QED BY <1>5, <1>6, <2>1, <2>2, <2>3
<1>11. ASSUME NEW d \in Conns PROVE OutAtHome(d)'
  <2> SUFFICES ASSUME reader[d].pc = "flush" PROVE OutAtHome(d)'
    BY <1>1 DEF OutAtHome
  <2>1. PICK r, l : r = reader[d].id /\ l = ct[r].key
    OBVIOUS
  <2>2. OutAtHome(d) /\ r \in 1 .. nextAuthID /\ l \in Keys
    BY <2>1 DEF Homes, Hands, ReaderHas
  <2>3. r # i
    <3>1. ~(Holds(k, i) /\ Flushes(d, i))
      BY <1>2 DEF Locks
    <3> QED BY <1>1, <1>2, <2>1, <3>1 DEF Holds, Flushes, Writing
  <2>4. ASSUME NEW x \in DOMAIN reader[d].out PROVE home'[l][reader[d].out[x]] = r
    <3>1. PICK m : m = reader[d].out[x]
      OBVIOUS
    <3>2. m \in Packets /\ home[l][m] = r /\ r # 0
      BY <1>6, <2>1, <2>2, <3>1, OutIsHome
    <3> QED BY <1>5, <2>2, <3>1, <3>2
  <2>5. /\ \A x, y \in DOMAIN reader[d].out : x < y => reader[d].out[x] < reader[d].out[y]
        /\ \A x \in DOMAIN reader[d].out, y \in DOMAIN wire[d][l] :
             home[l][wire[d][l][y]] = r => wire[d][l][y] < reader[d].out[x]
    BY <2>1, <2>2 DEF OutAtHome, Increasing
  <2>6. ASSUME NEW x \in DOMAIN reader[d].out, NEW y \in DOMAIN wire'[d][l],
               home'[l][wire'[d][l][y]] = r
        PROVE  wire'[d][l][y] < reader[d].out[x]
    <3>1. CASE d = c /\ l = k
      <4>1. \/ y \in DOMAIN wire[d][l] /\ wire'[d][l][y] = wire[d][l][y]
            \/ wire'[d][l][y] = n
        BY <1>3, <3>1, OnWire
      <4>2. wire'[d][l][y] # n
        BY <1>5, <2>3, <2>6, <3>1
      <4> QED BY <1>10, <2>2, <2>5, <2>6, <4>1, <4>2
    <3>2. CASE d # c \/ l # k
      <4>1. wire'[d][l] = wire[d][l]
        BY <1>3, <2>2, <3>2 DEF Sends
      <4> QED BY <1>10, <2>2, <2>5, <2>6, <4>1
    <3> QED BY <3>1, <3>2
  <2>7. reader'[d] = reader[d] /\ ct'[r].key = l
    BY <1>1, <1>6, <2>1
  <2> QED BY <2>1, <2>4, <2>5, <2>6, <2>7 DEF OutAtHome, Increasing
<1>12. ASSUME NEW d \in Conns, NEW l \in Keys PROVE WireAtHome(d, l)'
  <2> SUFFICES ASSUME NEW y \in DOMAIN wire'[d][l]
               PROVE  /\ home'[l][wire'[d][l][y]] # 0
                      /\ ct'[home'[l][wire'[d][l][y]]].answer = "granted"
    BY DEF WireAtHome
  <2>1. CASE d = c /\ l = k
    <3>1. \/ y \in DOMAIN wire[d][l] /\ wire'[d][l][y] = wire[d][l][y]
          \/ wire'[d][l][y] = n
      BY <1>3, <2>1, OnWire
    <3>2. CASE wire'[d][l][y] = n
      BY <1>2, <1>5, <1>6, <2>1, <3>2
    <3>3. CASE y \in DOMAIN wire[d][l] /\ wire'[d][l][y] = wire[d][l][y]
      BY <1>6, <1>10, <3>3
    <3> QED BY <3>1, <3>2, <3>3
  <2>2. CASE d # c \/ l # k
    <3>1. wire'[d][l] = wire[d][l]
      BY <1>3, <2>2 DEF Sends
    <3> QED BY <1>6, <1>10, <3>1
  <2> QED BY <2>1, <2>2
<1>13. LastGrant'
  BY <1>1, <1>6 DEF Homes, LastGrant
<1>14. FlowOrder'
  BY <1>1, <1>3, <1>10, OrderKept
<1> QED BY <1>8, <1>9, <1>11, <1>12, <1>13, <1>14 DEF Homes

\* What waited for a grant goes to the readLoop that brings it.
LEMMA GrantHomes ==
  ASSUME MgrInv, Shape, Hands, Homes, FlowOrder, NEW c \in 1 .. cur, GrantStep(c)
  PROVE  Homes' /\ FlowOrder'
<1>1. /\ c \in Conns /\ reader[c].pc = "complete" /\ reader[c].id \in 1 .. nextAuthID
      /\ CompleteAuth(reader[c].id, "granted")
      /\ UNCHANGED <<cur, writer, home>> /\ UNCHANGED <<open, wire>>
  BY GrantMoves, LeftAlone
<1>2. PICK i \in 1 .. nextAuthID, k \in Keys, s \in Seq(Packets) :
        i = reader[c].id /\ k = ct[i].key /\ i \in IDs /\ s = ct[i].pending
  <2>1. reader[c].id \in IDs /\ ct[reader[c].id] \in ConntrackRec
    BY <1>1, MgrInvFacts
  <2>2. ct[reader[c].id].key \in Keys /\ ct[reader[c].id].pending \in Seq(Packets)
    BY <1>1, <2>1 DEF Hands, ConntrackRec
  <2> QED BY <1>1, <2>1, <2>2
<1>3. /\ Waiting(i) /\ i \in byID /\ nextAuthID' = nextAuthID
      /\ ct'[i].answer = "granted" /\ ct'[i].pending = NoPackets /\ ct'[i].key = k
      /\ \A j \in IDs \ {i} : ct'[j] = ct[j]
  BY <1>1, <1>2, GrantEffect DEF NoBirth
<1>4. /\ \A d \in Conns \ {c} : reader'[d] = reader[d]
      /\ \/ /\ s # <<>> /\ reader'[c].pc = "flush" /\ reader'[c].id = i
            /\ reader'[c].out = s
         \/ s = <<>> /\ reader'[c].pc = "read"
  BY <1>2, GrantMoves DEF Reads
<1>5. /\ 0 \notin IDs /\ nextAuthID \in Nat /\ 1 .. nextAuthID \subseteq IDs
      /\ home \in [Keys -> [Packets -> IDs \cup {0}]]
      /\ \A j \in 1 .. nextAuthID : ct'[j].key = ct[j].key
      /\ \A j \in 1 .. nextAuthID : ct[j].answer = "granted" => j # i /\ ct'[j].answer = "granted"
  BY <1>2, <1>3, MgrInvFacts DEF Shape, Waiting
<1>6. ASSUME NEW l \in Keys, NEW m \in Packets PROVE HomeOf(l, m)'
  <2>1. PICK h \in IDs \cup {0} : h = home[l][m]
    BY <1>5
  <2>2. /\ Unwritten(l, m) => h = 0
        /\ h # 0 =>
             /\ h <= nextAuthID /\ ct[h].key = l
             /\ \A p \in Packets : p < m => home[l][p] <= h
             /\ Waiting(h) => \E x \in DOMAIN ct[h].pending : ct[h].pending[x] = m
             /\ ct[h].answer = "granted" => Sent(l, m) \/ InOut(m, h) \/ open # 1 .. cur
    BY <2>1 DEF Homes, HomeOf
  <2>3. h # 0 => h \in 1 .. nextAuthID
    BY <1>5, <2>2 DEF IDs
  <2>4. Unwritten(l, m)' => h = 0
    BY <1>1, <2>2 DEF Unwritten, Writing
  <2>5. ASSUME h # 0, Waiting(h)' PROVE \E x \in DOMAIN ct'[h].pending : ct'[h].pending[x] = m
    <3>1. h # i
      BY <1>3, <2>5 DEF Waiting
    <3>2. ct'[h] = ct[h]
      BY <1>3, <1>5, <2>3, <2>5, <3>1
    <3> QED BY <2>2, <2>5, <3>2 DEF Waiting
  <2>6. ASSUME h # 0, ct'[h].answer = "granted"
        PROVE  Sent(l, m)' \/ InOut(m, h)' \/ open' # 1 .. cur'
    <3>1. CASE h = i
      <4>1. PICK x \in DOMAIN s : s[x] = m
        BY <1>2, <1>3, <2>2, <2>6, <3>1
      <4>2. s # <<>>
        BY <4>1
      <4>3. Flushes(c, h)' /\ x \in DOMAIN reader'[c].out /\ reader'[c].out[x] = m
        BY <1>4, <3>1, <4>1, <4>2 DEF Flushes
      <4> QED BY <1>1, <4>3 DEF InOut
    <3>2. CASE h # i
      <4>1. ct[h].answer = "granted"
        BY <1>3, <1>5, <2>3, <2>6, <3>2
      <4>2. Sent(l, m) => Sent(l, m)'
        BY <1>1 DEF Sent
      <4>3. InOut(m, h) => InOut(m, h)'
        BY <1>1, <1>4 DEF InOut, Flushes
      <4> QED BY <1>1, <2>2, <2>6, <4>1, <4>2, <4>3
    <3> QED BY <3>1, <3>2
  <2>7. h # 0 => h <= nextAuthID' /\ ct'[h].key = l
    BY <1>3, <1>5, <2>2, <2>3
  <2> QED BY <1>1, <2>1, <2>2, <2>4, <2>5, <2>6, <2>7 DEF HomeOf
<1>7. ASSUME NEW j \in 1 .. nextAuthID' PROVE PendingAtHome(j)'
  <2>1. CASE j = i
    BY <1>3, <2>1 DEF PendingAtHome, Increasing, NoPackets
  <2>2. CASE j # i
    <3>1. j \in 1 .. nextAuthID /\ ct'[j] = ct[j] /\ PendingAtHome(j)
      BY <1>3, <1>5, <1>7, <2>2 DEF Homes
    <3> QED BY <1>1, <3>1 DEF PendingAtHome, Increasing
  <2> QED BY <2>1, <2>2
<1>8. ASSUME NEW d \in Conns PROVE OutAtHome(d)'
  <2>1. CASE d # c
    <3> SUFFICES ASSUME reader[d].pc = "flush" PROVE OutAtHome(d)'
      BY <1>4, <2>1 DEF OutAtHome
    <3>1. reader'[d] = reader[d] /\ OutAtHome(d) /\ ct'[reader[d].id].key = ct[reader[d].id].key
      BY <1>4, <1>5, <2>1 DEF Homes, Hands, ReaderHas
    <3> QED BY <1>1, <3>1 DEF OutAtHome, Increasing
  <2>2. CASE d = c
    <3> SUFFICES ASSUME reader'[c].pc = "flush" PROVE OutAtHome(c)'
      BY <2>2 DEF OutAtHome
    <3>1. reader'[c].id = i /\ reader'[c].out = s /\ ct'[i].key = k
      BY <1>3, <1>4
    <3>2. /\ \A x, y \in DOMAIN s : x < y => s[x] < s[y]
          /\ \A x \in DOMAIN s : home'[k][s[x]] = i
      BY <1>1, <1>2 DEF Homes, PendingAtHome, Increasing
    <3>3. \A y \in DOMAIN wire'[c][k] : home'[k][wire'[c][k][y]] # i
      BY <1>1, <1>3 DEF Homes, WireAtHome, Waiting
    <3> QED BY <3>1, <3>2, <3>3 DEF OutAtHome, Increasing
  <2> QED BY <2>1, <2>2
<1>9. ASSUME NEW d \in Conns, NEW l \in Keys PROVE WireAtHome(d, l)'
  <2> SUFFICES ASSUME NEW x \in DOMAIN wire[d][l]
               PROVE  /\ home[l][wire[d][l][x]] # 0
                      /\ ct'[home[l][wire[d][l][x]]].answer = "granted"
    BY <1>1 DEF WireAtHome
  <2>1. PICK m : m = wire[d][l][x]
    OBVIOUS
  <2>2. home[l][m] \in 1 .. nextAuthID /\ ct[home[l][m]].answer = "granted"
    BY <2>1, SentIsHome
  <2> QED BY <1>5, <2>1, <2>2
<1>10. LastGrant'
  <2> SUFFICES ASSUME cur' = 1, reader'[1].pc = "flush", NEW j \in 1 .. nextAuthID',
                      ct'[j].key = ct'[reader'[1].id].key, ct'[j].answer = "granted"
               PROVE  j <= reader'[1].id
    BY DEF LastGrant
  <2>1. c = 1 /\ reader'[1].id = i /\ j \in 1 .. nextAuthID
    BY <1>1, <1>3, <1>4
  <2>2. ct[j].key = k
    BY <1>2, <1>5, <2>1
  <2>3. byKey[k] = i
    BY <1>2, <1>3 DEF MgrInv, IndexesAgree
  <2>4. WriterHas(k)
    BY DEF Hands
  <2>5. j <= writer[k].id /\ byKey[k] \in {0, writer[k].id}
    BY <2>1, <2>2, <2>4 DEF WriterHas
  <2>6. i # 0
    BY <1>2
  <2> QED BY <2>1, <2>3, <2>5, <2>6
<1>11. FlowOrder'
  BY <1>1 DEF FlowOrder
<1> QED BY <1>6, <1>7, <1>8, <1>9, <1>10, <1>11 DEF Homes

\* A readLoop sends what waited, packet by packet.
LEMMA FlushHomes ==
  ASSUME MgrInv, Shape, Hands, Homes, FlowOrder, NEW c \in 1 .. cur, Flush(c)
  PROVE  Homes' /\ FlowOrder'
<1>1. /\ c \in Conns /\ c \in open /\ reader[c].pc = "flush" /\ reader[c].id \in 1 .. nextAuthID
      /\ reader[c].out \in Seq(Packets) /\ reader[c].out # <<>>
      /\ Sends(c, ct[reader[c].id].key, Head(reader[c].out))
      /\ UNCHANGED mgrVars /\ UNCHANGED <<cur, open, writer, home>>
  BY FlushMoves
<1>2. PICK i \in 1 .. nextAuthID, k \in Keys, s \in Seq(Packets) :
        i = reader[c].id /\ k = ct[i].key /\ i \in IDs /\ s = reader[c].out
        /\ ct[i].answer = "granted"
  BY <1>1, MgrInvFacts DEF Hands, ReaderHas
<1>3. PICK n \in Packets : n = Head(s)
  BY <1>1, <1>2, SeqFacts
<1>a. PICK t : t = Tail(s)
  OBVIOUS
<1>4. /\ Len(s) \in Nat \ {0} /\ DOMAIN s = 1 .. Len(s) /\ DOMAIN t = 1 .. Len(s) - 1
      /\ n = s[1] /\ 1 \in DOMAIN s /\ \A x \in 1 .. Len(s) - 1 : t[x] = s[x + 1]
  <2>1. s # <<>>
    BY <1>1, <1>2
  <2>2. /\ Len(s) \in Nat \ {0} /\ DOMAIN s = 1 .. Len(s) /\ DOMAIN t = 1 .. Len(s) - 1
        /\ n = s[1] /\ \A x \in 1 .. Len(s) - 1 : t[x] = s[x + 1]
    BY <1>3, <1>a, <2>1, SeqFacts
  <2> QED BY <2>2
<1>5. Sends(c, k, n)
  BY <1>1, <1>2, <1>3
<1>6. /\ \A d \in Conns \ {c} : reader'[d] = reader[d]
      /\ \/ /\ reader'[c].pc = "flush" /\ reader'[c].id = i /\ reader'[c].out = t
            /\ Len(s) > 1
         \/ reader'[c].pc = "read" /\ Len(s) = 1
  BY <1>2, <1>3, <1>a, FlushMoves DEF Reads
<1>7. /\ ct' = ct /\ nextAuthID' = nextAuthID /\ nextAuthID \in Nat /\ 0 \notin IDs
      /\ home' = home /\ home \in [Keys -> [Packets -> IDs \cup {0}]]
      /\ 1 .. nextAuthID \subseteq IDs /\ Packets \subseteq Nat
  BY <1>1, MgrInvFacts, L3TunnelConnAssumption DEF mgrVars, Shape
<1>8. /\ \A x, y \in DOMAIN s : x < y => s[x] < s[y]
      /\ \A x \in DOMAIN s : home[k][s[x]] = i
      /\ \A x \in DOMAIN s, y \in DOMAIN wire[c][k] :
           home[k][wire[c][k][y]] = i => wire[c][k][y] < s[x]
  BY <1>1, <1>2 DEF Homes, OutAtHome, Increasing
<1>9. ASSUME NEW l \in Keys, NEW m \in Packets PROVE HomeOf(l, m)'
  <2>1. PICK h \in IDs \cup {0} : h = home[l][m]
    BY <1>7
  <2>2. /\ Unwritten(l, m) => h = 0
        /\ h # 0 =>
             /\ h <= nextAuthID /\ ct[h].key = l
             /\ \A p \in Packets : p < m => home[l][p] <= h
             /\ Waiting(h) => \E x \in DOMAIN ct[h].pending : ct[h].pending[x] = m
             /\ ct[h].answer = "granted" => Sent(l, m) \/ InOut(m, h) \/ open # 1 .. cur
    BY <2>1 DEF Homes, HomeOf
  <2>3. Unwritten(l, m)' => h = 0
    BY <1>1, <2>2 DEF Unwritten, Writing
  <2>4. Sent(l, m) => Sent(l, m)'
    BY <1>1, <1>5, SentOnWire
  <2>5. ASSUME h # 0, InOut(m, h) PROVE Sent(l, m)' \/ InOut(m, h)'
    <3>1. PICK d \in Conns : Flushes(d, h) /\ \E x \in DOMAIN reader[d].out : reader[d].out[x] = m
      BY <2>5 DEF InOut
    <3>2. CASE d # c
      BY <1>6, <3>1, <3>2 DEF InOut, Flushes
    <3>3. CASE d = c
      <4>1. h = i /\ l = k
        BY <1>2, <2>2, <2>5, <3>1, <3>3 DEF Flushes
      <4>2. PICK x \in 1 .. Len(s) : s[x] = m
        BY <1>2, <1>4, <3>1, <3>3
      <4>3. CASE x = 1
        <5>1. Sent(k, n)'
          BY <1>1, <1>5, SentOnWire
        <5> QED BY <1>4, <4>1, <4>2, <4>3, <5>1
      <4>4. CASE x # 1
        <5>1. x - 1 \in DOMAIN t /\ t[x - 1] = m /\ Len(s) # 1
          BY <1>4, <4>2, <4>4
        <5>2. Flushes(c, h)' /\ reader'[c].out = t
          BY <1>6, <4>1, <5>1 DEF Flushes
        <5> QED BY <1>1, <5>1, <5>2 DEF InOut
      <4> QED BY <4>3, <4>4
    <3> QED BY <3>2, <3>3
  <2>6. h # 0 => (Waiting(h)' => \E x \in DOMAIN ct'[h].pending : ct'[h].pending[x] = m)
    BY <1>7, <2>2 DEF Waiting
  <2>7. h # 0 /\ ct'[h].answer = "granted" => Sent(l, m)' \/ InOut(m, h)' \/ open' # 1 .. cur'
    BY <1>1, <1>7, <2>2, <2>4, <2>5
  <2> QED BY <1>7, <2>1, <2>2, <2>3, <2>6, <2>7 DEF HomeOf
<1>10. ASSUME NEW j \in 1 .. nextAuthID' PROVE PendingAtHome(j)'
  BY <1>7 DEF Homes, PendingAtHome, Increasing
<1>11. ASSUME NEW d \in Conns PROVE OutAtHome(d)'
  <2>1. CASE d # c
    <3> SUFFICES ASSUME reader[d].pc = "flush" PROVE OutAtHome(d)'
      BY <1>6, <2>1 DEF OutAtHome
    <3>1. OutAtHome(d) /\ reader'[d] = reader[d] /\ ct[reader[d].id].key \in Keys
      BY <1>6, <2>1 DEF Homes, Hands, ReaderHas
    <3>2. wire'[d][ct[reader[d].id].key] = wire[d][ct[reader[d].id].key]
      BY <1>5, <2>1, <3>1 DEF Sends
    <3> QED BY <1>7, <3>1, <3>2 DEF OutAtHome, Increasing
  <2>2. CASE d = c
    <3> SUFFICES ASSUME reader'[c].pc = "flush" PROVE OutAtHome(c)'
      BY <2>2 DEF OutAtHome
    <3>1. reader'[c].id = i /\ reader'[c].out = t /\ ct'[i].key = k
      BY <1>2, <1>6, <1>7
    <3>2. ASSUME NEW x \in DOMAIN t, NEW y \in DOMAIN t, x < y PROVE t[x] < t[y]
      <4>1. /\ x + 1 \in DOMAIN s /\ y + 1 \in DOMAIN s /\ x + 1 < y + 1
            /\ t[x] = s[x + 1] /\ t[y] = s[y + 1]
        BY <1>4, <3>2
      <4> QED BY <1>8, <4>1
    <3>3. ASSUME NEW x \in DOMAIN t
          PROVE  /\ home'[k][t[x]] = i
                 /\ \A y \in DOMAIN wire'[c][k] :
                      home'[k][wire'[c][k][y]] = i => wire'[c][k][y] < t[x]
      <4>1. x + 1 \in DOMAIN s /\ t[x] = s[x + 1] /\ 1 < x + 1
        BY <1>4
      <4>2. home[k][t[x]] = i /\ n < t[x]
        BY <1>4, <1>8, <4>1
      <4>3. \A y \in DOMAIN wire[c][k] :
              home[k][wire[c][k][y]] = i => wire[c][k][y] < t[x]
        BY <1>8, <4>1
      <4>4. ASSUME NEW y \in DOMAIN wire'[c][k], home[k][wire'[c][k][y]] = i
            PROVE  wire'[c][k][y] < t[x]
        <5>1. \/ y \in DOMAIN wire[c][k] /\ wire'[c][k][y] = wire[c][k][y]
              \/ wire'[c][k][y] = n
          BY <1>1, <1>5, OnWire
        <5> QED BY <4>2, <4>3, <4>4, <5>1
      <4> QED BY <1>7, <4>2, <4>4
    <3> QED BY <3>1, <3>2, <3>3 DEF OutAtHome, Increasing
  <2> QED BY <2>1, <2>2
<1>12. ASSUME NEW d \in Conns, NEW l \in Keys PROVE WireAtHome(d, l)'
  <2> SUFFICES ASSUME NEW y \in DOMAIN wire'[d][l]
               PROVE  /\ home[l][wire'[d][l][y]] # 0
                      /\ ct[home[l][wire'[d][l][y]]].answer = "granted"
    BY <1>7 DEF WireAtHome
  <2>1. CASE d = c /\ l = k
    <3>1. \/ y \in DOMAIN wire[d][l] /\ wire'[d][l][y] = wire[d][l][y]
          \/ wire'[d][l][y] = n
      BY <1>5, <2>1, OnWire
    <3>2. home[l][n] = i /\ i # 0
      BY <1>2, <1>4, <1>7, <1>8, <2>1
    <3>3. WireAtHome(d, l)
      BY DEF Homes
    <3> QED BY <1>2, <3>1, <3>2, <3>3 DEF WireAtHome
  <2>2. CASE d # c \/ l # k
    <3>1. wire'[d][l] = wire[d][l]
      BY <1>5, <2>2 DEF Sends
    <3> QED BY <3>1 DEF Homes, WireAtHome
  <2> QED BY <2>1, <2>2
<1>13. LastGrant'
  <2>1. reader'[1].pc = "flush" /\ 1 \in Conns => reader[1].pc = "flush" /\ reader'[1].id = reader[1].id
    BY <1>1, <1>2, <1>6
  <2>2. 1 \in Conns
    BY L3TunnelConnAssumption DEF Conns
  <2> QED BY <1>1, <1>7, <2>1, <2>2 DEF Homes, LastGrant
<1>14. FlowOrder'
  <2>1. ASSUME NEW x \in DOMAIN wire[c][k]
        PROVE  /\ wire[c][k][x] # n
               /\ (c = 1 /\ cur = 1) \/ home[k][wire[c][k][x]] = home'[k][n] => wire[c][k][x] < n
    <3>1. PICK m : m = wire[c][k][x]
      OBVIOUS
    <3>2. PICK j : j = home[k][m]
      OBVIOUS
    <3>3. /\ m \in Packets /\ j \in 1 .. nextAuthID /\ ct[j].answer = "granted"
          /\ ct[j].key = k
      BY <1>1, <3>1, <3>2, SentIsHome
    <3>a. m \in Nat /\ n \in Nat
      BY <1>7, <3>3
    <3>4. home[k][n] = i /\ (j = i => m < n)
      BY <1>4, <1>8, <3>1, <3>2
    <3>5. m # n
      BY <3>2, <3>3, <3>4, <3>a
    <3>6. ASSUME c = 1, cur = 1 PROVE m < n
      <4>2. j <= i
        BY <1>1, <1>2, <3>3, <3>6 DEF Homes, LastGrant
      <4>3. n < m => i <= j
        <5>1. HomeOf(k, m)
          BY <3>3 DEF Homes
        <5>2. j # 0
          BY <3>3
        <5> QED BY <3>2, <3>4, <5>1, <5>2 DEF HomeOf
      <4> QED BY <3>3, <3>4, <3>5, <3>a, <4>2, <4>3
    <3> QED BY <1>7, <3>1, <3>2, <3>4, <3>5, <3>6
  <2>2. \A d \in Conns, l \in Keys : \A x \in DOMAIN wire[d][l] :
          home'[l][wire[d][l][x]] = home[l][wire[d][l][x]]
    BY <1>7
  <2> QED BY <1>1, <1>5, <1>7, <2>1, <2>2, OrderKept
<1> QED BY <1>9, <1>10, <1>11, <1>12, <1>13, <1>14 DEF Homes

LEMMA HomesStep ==
  ASSUME MgrInv, Shape, Hands, Locks, Homes, FlowOrder, AnyStep
  PROVE  Homes' /\ FlowOrder'
<1>1. ASSUME Still PROVE Homes' /\ FlowOrder'
  <2>1. Homes'
    BY <1>1, StillHomes
  <2>2. wire' = wire /\ home' = home /\ (cur' = 1 => cur = 1)
    BY <1>1 DEF Still
  <2> QED BY <2>1, <2>2 DEF FlowOrder
<1>2. ASSUME NEW k \in Keys, CacheKept(k) PROVE Homes' /\ FlowOrder'
  BY <1>2, CacheHomes
<1>3. ASSUME NEW c \in 1 .. cur, GrantStep(c) PROVE Homes' /\ FlowOrder'
  BY <1>3, GrantHomes
<1>4. ASSUME NEW k \in Keys, WriteSend(k) PROVE Homes' /\ FlowOrder'
  BY <1>4, SendHomes
<1>5. ASSUME NEW c \in 1 .. cur, Flush(c) PROVE Homes' /\ FlowOrder'
  BY <1>5, FlushHomes
<1>6. CASE (\E k \in Keys : Starts(k)) \/ \E c \in 1 .. cur : Dispatch(c)
  <2>1. Still
    BY <1>6, StillSteps
  <2> QED BY <1>1, <2>1
<1>7. CASE PlainStep
  <2>1. \/ \E k \in Keys : WriterActs(k) /\ ~WriteSend(k)
        \/ \E c \in 1 .. cur : AuthActs(c) \/ ConnClose(c)
        \/ \E c \in 1 .. cur : ReaderActs(c) /\ ~Flush(c)
        \/ Reconnect \/ UNCHANGED connVars
        \/ \E k \in Keys : WriteSend(k)
        \/ \E c \in 1 .. cur : Flush(c)
    BY <1>7, PlainSteps
  <2>2. ASSUME \/ \E k \in Keys : WriterActs(k) /\ ~WriteSend(k)
               \/ \E c \in 1 .. cur : AuthActs(c) \/ ConnClose(c)
               \/ \E c \in 1 .. cur : ReaderActs(c) /\ ~Flush(c)
               \/ Reconnect \/ UNCHANGED connVars
        PROVE  Still
    <3>1. \/ \E k \in Keys : Starts(k) \/ (WriterActs(k) /\ ~WriteSend(k))
          \/ \E c \in 1 .. cur : Dispatch(c) \/ AuthActs(c) \/ ConnClose(c)
          \/ \E c \in 1 .. cur : ReaderActs(c) /\ ~Flush(c)
          \/ Reconnect \/ UNCHANGED connVars
      BY <2>2
    <3> QED BY <1>7, <3>1, StillSteps
  <2> QED BY <1>1, <1>4, <1>5, <2>1, <2>2
<1> QED BY <1>2, <1>3, <1>6, <1>7 DEF AnyStep

-----------------------------------------------------------------------------
(* The induction.                                                          *)

LEMMA ConnInit ==
  ASSUME Init
  PROVE  ConnInv
<1>1. MgrInv
  <2>1. MgrInit
    BY DEF Init
  <2>2. TypeOK
    <3>1. 0 \in 0 .. MaxID /\ {} \in SUBSET IDs
      OBVIOUS
    <3> QED BY <2>1, <3>1, UnbornType DEF MgrInit, TypeOK
  <2>3. IndexesAgree /\ ListInOrder /\ now # 0
    BY <2>1 DEF MgrInit, IndexesAgree, ListInOrder
  <2>4. AnswerConsistent
    BY <2>1 DEF MgrInit, AnswerConsistent
  <2> QED BY <2>2, <2>3, <2>4 DEF MgrInv
<1>2. /\ 1 \in Conns /\ <<>> \in Seq(IDs) /\ <<>> \in Seq(Packets) /\ <<>> \in Seq(Packets)
      /\ "waiting" \in Answers /\ 0 \in 0 .. MaxSeq
  BY L3TunnelConnAssumption DEF Conns, Answers
<1>3. Listening \in ReaderRec
  BY <1>2 DEF Listening, ReaderRec
<1>4. Shape
  BY <1>2, <1>3 DEF Init, Shape, WriterRec, AuthRec
<1>5. /\ nextAuthID = 0 /\ 1 .. 0 = {} /\ byID = {} /\ DOMAIN <<>> = {}
      /\ \A k \in Keys : byKey[k] = 0
  BY DEF Init, MgrInit
<1>6. /\ \A k \in Keys : writer[k].pc = "idle" /\ writer[k].id = 0
      /\ \A c \in Conns : /\ auth[c].jobs = <<>> /\ ~auth[c].sent
                          /\ reader[c].pc = "read"
      /\ \A c \in Conns, k \in Keys : wire[c][k] = <<>>
      /\ \A k \in Keys, n \in Packets : home[k][n] = 0
      /\ sendMu = {}
  BY DEF Init, Listening
<1>7. Hands
  BY <1>5, <1>6 DEF Hands, WriterHas, JobsExist, ReaderHas
<1>8. Locks
  BY <1>6 DEF Locks, Holds, Flushes, Writing
<1>9. Homes
  <2>1. 1 \in Conns
    BY <1>2
  <2> QED BY <1>5, <1>6, <2>1 DEF Homes, HomeOf, OutAtHome, WireAtHome, LastGrant
<1>10. FlowOrder
  BY <1>5, <1>6 DEF FlowOrder
<1>11. Care
  BY <1>5 DEF Care, Marked
<1> QED BY <1>1, <1>4, <1>7, <1>8, <1>9, <1>10, <1>11 DEF ConnInv

LEMMA ConnStep == ConnInv /\ [Next]_vars => ConnInv' /\ [MgrNext]_mgrVars
<1> SUFFICES ASSUME MgrInv, Shape, Hands, Locks, Homes, FlowOrder, Care, [Next]_vars
             PROVE  ConnInv' /\ [MgrNext]_mgrVars
  BY DEF ConnInv
<1>1. AnyStep
  BY StepKinds
<1>2. [MgrNext]_mgrVars
  BY <1>1, CallsAllowed
<1>3. MgrInv'
  BY <1>2, MgrInvStep
<1>4. Shape' /\ Hands' /\ Locks' /\ Care'
  BY <1>1, ShapeStep, HandsStep, LocksStep, CareStep
<1>5. Homes' /\ FlowOrder'
  BY <1>1, HomesStep
<1> QED BY <1>2, <1>3, <1>4, <1>5 DEF ConnInv

\* The invariant holds in every state.
LEMMA ConnInvariant == Spec => []ConnInv /\ [][MgrNext]_mgrVars
<1>1. Init => ConnInv
  BY ConnInit
<1> QED BY <1>1, ConnStep, PTL DEF Spec

-----------------------------------------------------------------------------
(* What it means for the goroutines.                                       *)

\* Whatever the writers and the loops of all connections do, in every interleaving, the
\* table sees calls of its methods as Conntrack describes them: a method is only called
\* on a conntrack that exists, with a packet of its flow (WritePacket, nextAuthBatch,
\* sendAuthRequest, handleAuthResp, completeAuthentication).  So every theorem about
\* the table alone is one about the table in use.
THEOREM CallersObey == Spec => MgrSpec
<1>1. Init => MgrInit
  BY DEF Init
<1> QED BY <1>1, ConnInvariant, PTL DEF Spec, MgrSpec

\* Each conntrack is answered at most once and its packets are given up or sent as that
\* answer says, with all the goroutines at work (completeAuth, expireAuth, close).
THEOREM PromiseKept == Spec => AnswersOnce
BY CallersObey, Implements, PTL

\* No conntrack in the table has used up its attempts, with all the goroutines at work.
THEOREM BudgetKept == Spec => []TimeoutBudget
BY CallersObey, BudgetCorrect, PTL

\* The types, and the discipline of sendMu: it is held by one goroutine at a time, and
\* released on every path, failures and lost connections included.
THEOREM ConnTypeCorrect == Spec => []ConnTypeOK
<1>1. ConnInv => ConnTypeOK
  <2> SUFFICES ASSUME ConnInv PROVE ConnTypeOK
    OBVIOUS
  <2>1. TypeOK /\ OneHolder
    BY LocksExclude DEF ConnInv, MgrInv
  <2>2. Shape
    BY DEF ConnInv
  <2>3. open \subseteq 1 .. cur
    BY <2>2, L3TunnelConnAssumption DEF Shape, Conns
  <2>4. ASSUME NEW c \in Conns
        PROVE  /\ auth[c].jobs \in Seq(IDs)
               /\ reader[c].pc \in {"read", "complete", "flush", "exited"}
               /\ reader[c].out \in Seq(Packets)
    <3>1. auth[c] \in AuthRec /\ reader[c] \in ReaderRec
      BY <2>2 DEF Shape
    <3> QED BY <3>1 DEF AuthRec, ReaderRec
  <2> QED BY <2>1, <2>2, <2>3, <2>4 DEF Shape, WriterRec, ConnTypeOK
<1> QED BY <1>1, ConnInvariant, PTL

\* No packet leaves twice on a connection, and what leaves is in the order written, for
\* the packets of one conntrack always and for those of a flow until its connection is
\* replaced, whoever sends them (WritePacket, completeAuthentication).
THEOREM FlowOrderCorrect == Spec => []FlowOrder
<1>1. ConnInv => FlowOrder
  BY DEF ConnInv
<1> QED BY <1>1, ConnInvariant, PTL

\* cachePacket never finds authorised what WritePacket found not to be, since sendMu is
\* held between the two and by completeAuthentication: no packet is dropped with success.
THEOREM NoDropCorrect == Spec => []NoSilentDrop
<1>1. ConnInv => NoSilentDrop
  <2> SUFFICES ASSUME ConnInv, NEW k \in Keys, Writing(k, "cache")
               PROVE  CacheVerdict(writer[k].id) # "granted"
    BY DEF NoSilentDrop
  <2>1. ct[writer[k].id].answer # "granted"
    BY DEF ConnInv, Hands, WriterHas, Writing
  <2> QED BY <2>1 DEF CacheVerdict
<1> QED BY <1>1, ConnInvariant, PTL

\* A packet that was accepted waits until its conntrack is answered; it is sent if the
\* answer is a grant, unless a connection was lost, and never sent if it is another.
THEOREM AnswerObeyedCorrect == Spec => []AnswerObeyed
<1>1. ConnInv => AnswerObeyed
  <2> SUFFICES ASSUME MgrInv, Shape, Homes PROVE AnswerObeyed
    BY DEF ConnInv
  <2>1. CachedIsSent
    <3> SUFFICES ASSUME NEW k \in Keys, NEW n \in Packets, home[k][n] # 0
                 PROVE  /\ Waiting(home[k][n]) => \E x \in DOMAIN ct[home[k][n]].pending :
                             ct[home[k][n]].pending[x] = n
                        /\ ct[home[k][n]].answer = "granted" =>
                             Sent(k, n) \/ InOut(n, home[k][n]) \/ open # 1 .. cur
      BY DEF CachedIsSent, Sent, InOut, Flushes
    <3> QED BY DEF Homes, HomeOf
  <2>2. RefusedNotSent
    <3> SUFFICES ASSUME NEW k \in Keys, NEW n \in Packets, ct[home[k][n]].answer # "granted",
                        NEW c \in Conns, NEW x \in DOMAIN wire[c][k], wire[c][k][x] = n
                 PROVE  FALSE
      BY DEF RefusedNotSent
    <3> QED BY SentIsHome
  <2> QED BY <2>1, <2>2 DEF AnswerObeyed
<1> QED BY <1>1, ConnInvariant, PTL

\* As long as no connection is lost, a conntrack with packets waiting is offered to the
\* next batch, has a deadline, or is some authLoop's job (nextAuthBatch, markAuthSent).
THEOREM CaredForCorrect == Spec => []CaredFor
<1>1. ConnInv => CaredFor
  BY NobodyIsForgotten DEF ConnInv
<1> QED BY <1>1, ConnInvariant, PTL

=============================================================================

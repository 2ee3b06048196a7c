--------------------------- MODULE ConntrackProofs ---------------------------
(***************************************************************************)
(* What Conntrack guarantees for every number of flows, conntracks and     *)
(* packets, every limit and every timing: its indexes, the answers it      *)
(* gives, its promise AuthOnce, its LRU list and its limit.                *)
(***************************************************************************)
EXTENDS Conntrack, FiniteSetTheorems, WellFoundedInduction, TLAPS

USE ConntrackAssumption

-----------------------------------------------------------------------------
(* Types of the helpers.                                                   *)

\* Constants that occur in conntracks.
LEMMA Members ==
  /\ \A e \in {"waiting", "granted", "timeout", "evicted", "closed"} :
       e \in Answers
  /\ Verdicts \subseteq Answers \ {"waiting"}
  /\ 0 \in Flag /\ 1 \in Flag
  /\ NoPackets \in Seq(Packets)
  /\ NoKey \in KeyOrNone /\ Keys \subseteq KeyOrNone
BY DEF Answers, Verdicts, Flag, NoPackets, KeyOrNone

\* A conntrack not created yet is a conntrack.
LEMMA UnbornType == Unborn \in ConntrackRec
BY Members DEF Unborn, ConntrackRec

\* Assigning a field of a conntrack leaves a conntrack.
LEMMA FieldUpdate ==
  ASSUME NEW r \in ConntrackRec
  PROVE  /\ \A v \in KeyOrNone : [r EXCEPT !.key = v] \in ConntrackRec
         /\ \A v \in Answers : [r EXCEPT !.answer = v] \in ConntrackRec
         /\ \A v \in Flag : [r EXCEPT !.started = v] \in ConntrackRec
         /\ \A v \in Nat : [r EXCEPT !.timeouts = v] \in ConntrackRec
         /\ \A v \in Nat : [r EXCEPT !.deadline = v] \in ConntrackRec
         /\ \A v \in Nat : [r EXCEPT !.retryAt = v] \in ConntrackRec
         /\ \A v \in Seq(Packets) : [r EXCEPT !.pending = v] \in ConntrackRec
         /\ \A v \in Nat : [r EXCEPT !.expiresAt = v] \in ConntrackRec
<1>1. \A v \in KeyOrNone : [r EXCEPT !.key = v] \in ConntrackRec
  BY DEF ConntrackRec
<1>2. \A v \in Answers : [r EXCEPT !.answer = v] \in ConntrackRec
  BY DEF ConntrackRec
<1>3. \A v \in Flag : [r EXCEPT !.started = v] \in ConntrackRec
  BY DEF ConntrackRec
<1>4. \A v \in Nat : [r EXCEPT !.timeouts = v] \in ConntrackRec
  BY DEF ConntrackRec
<1>5. \A v \in Nat : [r EXCEPT !.deadline = v] \in ConntrackRec
  BY DEF ConntrackRec
<1>6. \A v \in Nat : [r EXCEPT !.retryAt = v] \in ConntrackRec
  BY DEF ConntrackRec
<1>7. \A v \in Seq(Packets) : [r EXCEPT !.pending = v] \in ConntrackRec
  BY DEF ConntrackRec
<1>8. \A v \in Nat : [r EXCEPT !.expiresAt = v] \in ConntrackRec
  BY DEF ConntrackRec
<1> QED BY <1>1, <1>2, <1>3, <1>4, <1>5, <1>6, <1>7, <1>8

\* The fields of a conntrack have their types.
LEMMA FieldType ==
  ASSUME NEW r \in ConntrackRec
  PROVE  /\ r.key \in KeyOrNone
         /\ r.answer \in Answers
         /\ r.timeouts \in Nat
         /\ r.pending \in Seq(Packets)
BY DEF ConntrackRec

\* A conntrack that has just been created is a conntrack.
LEMMA FreshType ==
  ASSUME TypeOK, NEW k \in Keys
  PROVE  Fresh(k) \in ConntrackRec
<1>1. [Unborn EXCEPT !.key = k] \in ConntrackRec
  BY UnbornType, FieldUpdate, Members
<1>2. now + DefaultTTL \in Nat
  BY DEF TypeOK
<1> QED BY <1>1, <1>2, FieldUpdate DEF Fresh

\* Settling a conntrack leaves a conntrack, which holds no packets and has an
\* answer: the one it had, if any.
LEMMA SettleProps ==
  ASSUME NEW r \in ConntrackRec, NEW e \in Answers
  PROVE  /\ Settle(r, e) \in ConntrackRec
         /\ Settle(r, e).pending = NoPackets
         /\ Settle(r, e).answer = IF r.answer = "waiting" THEN e ELSE r.answer
         /\ Settle(r, e).key = r.key
         /\ Settle(r, e).timeouts = r.timeouts
<1> DEFINE s == [r EXCEPT !.pending = NoPackets]
           a == IF r.answer = "waiting" THEN e ELSE r.answer
<1>1. s \in ConntrackRec /\ s.answer = r.answer /\ s.pending = NoPackets
      /\ s.key = r.key /\ s.timeouts = r.timeouts
  BY FieldUpdate, Members DEF ConntrackRec
<1>2. a \in Answers
  BY FieldType
<1>3. Settle(r, e) = [s EXCEPT !.answer = a]
  BY <1>1 DEF Settle
<1> HIDE DEF s, a
<1>4. [s EXCEPT !.answer = a] \in ConntrackRec
  BY <1>1, <1>2, FieldUpdate
<1>5. /\ [s EXCEPT !.answer = a].pending = s.pending
      /\ [s EXCEPT !.answer = a].answer = a
      /\ [s EXCEPT !.answer = a].key = s.key
      /\ [s EXCEPT !.answer = a].timeouts = s.timeouts
  BY <1>1 DEF ConntrackRec
<1> QED BY <1>1, <1>3, <1>4, <1>5 DEF a

\* Rescheduling a conntrack leaves a conntrack, with its packets and answer.
LEMMA RescheduledProps ==
  ASSUME NEW r \in ConntrackRec, NEW t \in Nat
  PROVE  /\ Rescheduled(r, t) \in ConntrackRec
         /\ Rescheduled(r, t).pending = r.pending
         /\ Rescheduled(r, t).answer = r.answer
         /\ Rescheduled(r, t).key = r.key
         /\ Rescheduled(r, t).timeouts = r.timeouts
<1> DEFINE s == [r EXCEPT !.started = 0]
           d == [s EXCEPT !.deadline = 0]
<1>1. s \in ConntrackRec /\ s.pending = r.pending /\ s.answer = r.answer
      /\ s.key = r.key /\ s.timeouts = r.timeouts
  BY FieldUpdate, Members DEF ConntrackRec
<1> HIDE DEF s
<1>2. d \in ConntrackRec /\ d.pending = s.pending /\ d.answer = s.answer
      /\ d.key = s.key /\ d.timeouts = s.timeouts
  BY <1>1, FieldUpdate DEF ConntrackRec
<1> HIDE DEF d
<1>3. /\ [d EXCEPT !.retryAt = t] \in ConntrackRec
      /\ [d EXCEPT !.retryAt = t].pending = d.pending
      /\ [d EXCEPT !.retryAt = t].answer = d.answer
      /\ [d EXCEPT !.retryAt = t].key = d.key
      /\ [d EXCEPT !.retryAt = t].timeouts = d.timeouts
  BY <1>2, FieldUpdate DEF ConntrackRec
<1>4. Rescheduled(r, t) = [d EXCEPT !.retryAt = t]
  BY DEF Rescheduled, d, s
<1> QED BY <1>1, <1>2, <1>3, <1>4

\* Charging a timed-out attempt leaves a conntrack, with one more timeout.
LEMMA ChargedProps ==
  ASSUME NEW r \in ConntrackRec
  PROVE  /\ Charged(r) \in ConntrackRec
         /\ Charged(r).pending = r.pending
         /\ Charged(r).answer = r.answer
         /\ Charged(r).key = r.key
         /\ Charged(r).timeouts = r.timeouts + 1
<1>1. r.timeouts + 1 \in Nat
  BY FieldType
<1> QED BY <1>1, FieldUpdate DEF Charged, ConntrackRec

\* Settling some conntracks keeps the type of the table.
LEMMA SettleAllType ==
  ASSUME TypeOK, NEW gone, NEW e \in Answers
  PROVE  SettleAll(gone, e) \in [IDs -> ConntrackRec]
BY SettleProps DEF TypeOK, SettleAll

\* Removing conntracks from the indexes keeps their types.
LEMMA WithoutType ==
  ASSUME TypeOK, NEW gone
  PROVE  /\ KeysWithout(gone) \in [Keys -> IDs \cup {0}]
         /\ OrderWithout(gone) \in [IDs -> SUBSET IDs]
BY DEF TypeOK, KeysWithout, OrderWithout

\* Moving a conntrack to the back of the list keeps its type.
LEMMA ToBackType ==
  ASSUME NEW o \in [IDs -> SUBSET IDs], NEW live \in SUBSET IDs, NEW i
  PROVE  ToBack(o, live, i) \in [IDs -> SUBSET IDs]
BY DEF ToBack

-----------------------------------------------------------------------------
(* Type correctness.                                                       *)

\* Every step keeps the types.
LEMMA TypeStep ==
  TypeOK /\ [MgrNext]_mgrVars => TypeOK'
<1> SUFFICES ASSUME TypeOK, [MgrNext]_mgrVars PROVE TypeOK'
  OBVIOUS
<1>0. "evicted" \in Answers /\ "closed" \in Answers /\ "granted" \in Answers
      /\ "waiting" \in Answers
      /\ "timeout" \in Answers /\ Verdicts \subseteq Answers
  BY Members
<1>1. ASSUME NEW k \in Keys, GetHit(k) PROVE TypeOK'
  <2>1. ct' \in [IDs -> ConntrackRec]
    BY <1>1, <1>0, SettleAllType DEF GetHit
  <2>2. byID' \in SUBSET IDs
    BY <1>1 DEF GetHit, TypeOK
  <2>3. ahead' \in [IDs -> SUBSET IDs]
    BY <1>1, <2>2, ToBackType, WithoutType DEF GetHit
  <2>4. byKey' \in [Keys -> IDs \cup {0}]
    BY <1>1, WithoutType DEF GetHit
  <2> QED BY <1>1, <2>1, <2>2, <2>3, <2>4 DEF GetHit, TypeOK
<1>2. ASSUME NEW k \in Keys, GetCreate(k) PROVE TypeOK'
  <2>0. nextAuthID + 1 \in IDs /\ nextAuthID' = nextAuthID + 1
    BY <1>2 DEF GetCreate, TypeOK, IDs
  <2>1. ct' \in [IDs -> ConntrackRec]
    BY <1>2, <1>0, <2>0, SettleAllType, FreshType DEF GetCreate
  <2>2. byID' \in SUBSET IDs
    BY <1>2, <2>0 DEF GetCreate, TypeOK
  <2>3. ahead' \in [IDs -> SUBSET IDs]
    BY <1>2, <2>2, ToBackType, WithoutType DEF GetCreate
  <2>4. byKey' \in [Keys -> IDs \cup {0}]
    BY <1>2, <2>0, WithoutType DEF GetCreate
  <2>5. nextAuthID' \in 0 .. MaxID /\ closed' = closed /\ now' = now
    BY <1>2, <2>0 DEF GetCreate, TypeOK, IDs
  <2> QED BY <2>1, <2>2, <2>3, <2>4, <2>5 DEF TypeOK
<1>3. ASSUME NEW k \in Keys, GetClosed(k) PROVE TypeOK'
  <2>1. nextAuthID + 1 \in IDs /\ nextAuthID' = nextAuthID + 1
    BY <1>3 DEF GetClosed, TypeOK, IDs
  <2>2. [Fresh(k) EXCEPT !.answer = "closed"] \in ConntrackRec
    BY FreshType, <1>0 DEF ConntrackRec
  <2>3. ct' \in [IDs -> ConntrackRec]
    BY <1>3, <2>1, <2>2 DEF GetClosed, TypeOK
  <2> QED BY <1>3, <2>1, <2>3 DEF GetClosed, TypeOK, IDs
<1>4. ASSUME NEW k \in Keys, NEW ttl \in TTLs, ObservePacket(k, ttl)
      PROVE  TypeOK'
  <2>1. byKey[k] \in IDs /\ now + ttl \in Nat
    BY <1>4 DEF ObservePacket, TypeOK
  <2>2. ct' \in [IDs -> ConntrackRec]
    <3>1. [ct[byKey[k]] EXCEPT !.expiresAt = now + ttl] \in ConntrackRec
      BY <2>1, FieldUpdate DEF TypeOK
    <3>2. ct' = [ct EXCEPT ![byKey[k]] = [ct[byKey[k]] EXCEPT !.expiresAt = now + ttl]]
      BY <1>4, Zenon DEF ObservePacket
    <3> QED BY <2>1, <3>1, <3>2 DEF TypeOK
  <2>3. ahead' \in [IDs -> SUBSET IDs]
    BY <1>4, ToBackType DEF ObservePacket, TypeOK
  <2> QED BY <1>4, <2>2, <2>3 DEF ObservePacket, TypeOK
<1>5. ASSUME NEW i \in 1 .. nextAuthID, NEW p \in Packets, CachePacket(i, p)
      PROVE  TypeOK'
  <2>1. i \in IDs /\ ct[i] \in ConntrackRec
    BY DEF TypeOK, IDs
  <2>2. Append(ct[i].pending, p) \in Seq(Packets)
    BY <2>1, FieldType
  <2>3. ct' \in [IDs -> ConntrackRec]
    BY <1>5, <2>1, <2>2, FieldUpdate DEF CachePacket, TypeOK
  <2> QED BY <1>5, <2>3 DEF CachePacket, TypeOK
<1>6. CASE NextAuthBatch
  <2>1. ct' \in [IDs -> ConntrackRec]
    BY <1>6, FieldUpdate, Members DEF NextAuthBatch, TypeOK
  <2> QED BY <1>6, <2>1 DEF NextAuthBatch, TypeOK
<1>7. ASSUME NEW i \in 1 .. nextAuthID, MarkAuthSent(i) PROVE TypeOK'
  <2>1. now + AuthTimeout \in Nat
    BY DEF TypeOK
  <2>2. ct' \in [IDs -> ConntrackRec]
    BY <1>7, <2>1, FieldUpdate DEF MarkAuthSent, TypeOK
  <2> QED BY <1>7, <2>2 DEF MarkAuthSent, TypeOK
<1>8. CASE ExpireAuth
  <2>1. ASSUME NEW i \in IDs
        PROVE  /\ Settle(Charged(ct[i]), "timeout") \in ConntrackRec
               /\ Rescheduled(Charged(ct[i]), now) \in ConntrackRec
    BY <1>0, ChargedProps, SettleProps, RescheduledProps DEF TypeOK
  <2>2. ct' \in [IDs -> ConntrackRec]
    BY <1>8, <2>1 DEF ExpireAuth, TypeOK
  <2> QED BY <1>8, <2>2, WithoutType DEF ExpireAuth, Unlink, TypeOK
<1>9. ASSUME NEW i \in 1 .. nextAuthID, NEW delay \in {0, RetryWait},
             RetryAuth(i, delay)
      PROVE  TypeOK'
  <2>1. now + delay \in Nat
    BY DEF TypeOK
  <2>2. ct' \in [IDs -> ConntrackRec]
    BY <1>9, <2>1, RescheduledProps DEF RetryAuth, TypeOK
  <2> QED BY <1>9, <2>2 DEF RetryAuth, TypeOK
<1>10. ASSUME NEW i \in 1 .. nextAuthID, NEW e \in Verdicts,
              CompleteAuth(i, e)
       PROVE  TypeOK'
  <2>1. e \in Answers
    BY <1>0
  <2>2. ct' \in [IDs -> ConntrackRec]
    BY <1>10, <2>1, SettleProps DEF CompleteAuth, TypeOK
  <2>3. /\ byKey' \in [Keys -> IDs \cup {0}]
        /\ byID' \in SUBSET IDs
        /\ ahead' \in [IDs -> SUBSET IDs]
    <3>1. CASE e = "granted"
      BY <1>10, <3>1 DEF CompleteAuth, TypeOK
    <3>2. CASE e # "granted"
      <4>1. Unlink({i})
        BY <1>10, <3>2 DEF CompleteAuth
      <4> QED BY <4>1, WithoutType DEF Unlink, TypeOK
    <3> QED BY <3>1, <3>2
  <2> QED BY <1>10, <2>2, <2>3 DEF CompleteAuth, TypeOK
<1>11. CASE RemoveExpired
  BY <1>11, <1>0, SettleAllType, WithoutType
     DEF RemoveExpired, Remove, Unlink, TypeOK
<1>12. CASE CloseMgr
  BY <1>12, <1>0, SettleAllType, WithoutType DEF CloseMgr, Remove, Unlink, TypeOK
<1>13. CASE Tick
  BY <1>13 DEF Tick, TypeOK
<1>14. CASE UNCHANGED mgrVars
  BY <1>14 DEF mgrVars, TypeOK
<1> QED
  BY <1>1, <1>2, <1>3, <1>4, <1>5, <1>6, <1>7, <1>8, <1>9, <1>10, <1>11,
     <1>12, <1>13, <1>14 DEF MgrNext, GetOrCreate

\* The tables of conntrackMgr hold values of their types in every reachable
\* state.
THEOREM TypeCorrect == MgrSpec => []TypeOK
<1>1. MgrInit => TypeOK
  <2> SUFFICES ASSUME MgrInit PROVE TypeOK
    OBVIOUS
  <2>1. ct \in [IDs -> ConntrackRec]
    BY UnbornType DEF MgrInit
  <2>2. nextAuthID \in 0 .. MaxID /\ now \in Nat
    BY DEF MgrInit
  <2>4. closed \in BOOLEAN
    BY Zenon DEF MgrInit
  <2>3. /\ byKey \in [Keys -> IDs \cup {0}]
        /\ byID \in SUBSET IDs
        /\ ahead \in [IDs -> SUBSET IDs]
    BY DEF MgrInit
  <2> QED BY <2>1, <2>2, <2>3, <2>4 DEF TypeOK
<1> QED BY <1>1, TypeStep, PTL DEF MgrSpec

-----------------------------------------------------------------------------
(* The indexes.                                                            *)

\* In a consistent table, unlinking conntracks clears exactly their keys.
LEMMA KeysWithoutProps ==
  ASSUME TypeOK, IndexesAgree, NEW gone \in SUBSET byID
  PROVE  /\ \A k \in Keys : KeysWithout(gone)[k] =
                IF byKey[k] \in gone THEN 0 ELSE byKey[k]
         /\ \A k \in Keys : KeysWithout(gone)[k] # 0 =>
                /\ KeysWithout(gone)[k] = byKey[k]
                /\ byKey[k] \in byID \ gone
         /\ \A i \in byID \ gone : KeysWithout(gone)[ct[i].key] = i
<1>1. 0 \notin byID
  BY DEF TypeOK, IDs
<1>2. ASSUME NEW k \in Keys
      PROVE  KeysWithout(gone)[k] = IF byKey[k] \in gone THEN 0 ELSE byKey[k]
  BY <1>1, <1>2 DEF KeysWithout, IndexesAgree, TypeOK
<1>3. ASSUME NEW i \in byID \ gone
      PROVE  KeysWithout(gone)[ct[i].key] = i
  BY <1>2, <1>3 DEF IndexesAgree
<1> QED BY <1>1, <1>2, <1>3 DEF IndexesAgree

\* A step that unlinks some conntracks, leaves every key alone and creates
\* nothing keeps the indexes consistent.
LEMMA UnlinkAgrees ==
  ASSUME TypeOK, TypeOK', IndexesAgree, NEW gone \in SUBSET byID,
         byKey' = KeysWithout(gone),
         byID' = byID \ gone,
         \A i \in IDs : ct'[i].key = ct[i].key,
         nextAuthID' = nextAuthID,
         closed' => closed \/ gone = byID
  PROVE  IndexesAgree'
<1>1. \A k \in Keys : byKey'[k] # 0 => byKey'[k] \in byID' /\ ct'[byKey'[k]].key = k
  BY KeysWithoutProps DEF IndexesAgree, TypeOK
<1>2. \A i \in byID' : ct'[i].key \in Keys /\ byKey'[ct'[i].key] = i
  BY KeysWithoutProps DEF IndexesAgree, TypeOK
<1>3. \A i \in byID' : i <= nextAuthID'
  BY DEF IndexesAgree
<1>4. closed' => byID' = {}
  BY DEF IndexesAgree
<1> QED BY <1>1, <1>2, <1>3, <1>4 DEF IndexesAgree

\* Settling conntracks does not change their keys.
LEMMA SettleAllKeys ==
  ASSUME TypeOK, NEW gone, NEW e \in Answers, NEW i \in IDs
  PROVE  SettleAll(gone, e)[i].key = ct[i].key
BY SettleProps DEF SettleAll, TypeOK

\* The victims of an eviction and the expired conntracks are indexed.
LEMMA VictimsLive == Victims \subseteq byID /\ Expired \subseteq byID
BY DEF Victims, Expired

\* No step makes the indexes disagree.
LEMMA IndexesStep ==
  TypeOK /\ TypeOK' /\ IndexesAgree /\ [MgrNext]_mgrVars => IndexesAgree'
<1> SUFFICES ASSUME TypeOK, TypeOK', IndexesAgree, [MgrNext]_mgrVars
             PROVE  IndexesAgree'
  OBVIOUS
<1>0. KeysWithout({}) = byKey
  BY DEF KeysWithout, TypeOK
<1>1. ASSUME NEW k \in Keys, GetHit(k) PROVE IndexesAgree'
  <2>1. /\ byKey' = KeysWithout(Expired) /\ byID' = byID \ Expired
        /\ nextAuthID' = nextAuthID /\ closed' = closed
    BY <1>1 DEF GetHit
  <2>2. \A i \in IDs : ct'[i].key = ct[i].key
    BY <1>1, SettleAllKeys, Members DEF GetHit
  <2> QED BY <2>1, <2>2, VictimsLive, UnlinkAgrees
<1>2. ASSUME NEW k \in Keys, GetCreate(k) PROVE IndexesAgree'
  <2> DEFINE i == nextAuthID + 1
  <2>1. /\ i \in IDs /\ i \notin byID /\ nextAuthID' = i /\ i # 0
        /\ byKey' = [KeysWithout(Victims) EXCEPT ![k] = i]
        /\ byID' = (byID \ Victims) \cup {i}
        /\ ~closed'
    BY <1>2 DEF GetCreate, TypeOK, IDs, IndexesAgree
  <2>2. ct'[i].key = k
    <3>1. Fresh(k).key = k
      BY Members DEF Fresh, Unborn
    <3> QED BY <1>2, <2>1, <3>1, SettleAllType, Members DEF GetCreate
  <2>3. \A j \in IDs : j # i => ct'[j].key = ct[j].key
    BY <1>2, SettleAllKeys, SettleAllType, Members DEF GetCreate
  <2>4. k \in Keys /\ (byKey[k] = 0 \/ byKey[k] \in Victims)
    BY <1>2 DEF GetCreate, Victims
  <2>5. \A j \in byID \ Victims : ct[j].key # k
    BY <2>4 DEF IndexesAgree, TypeOK, IDs
  <2>6. \A x \in Keys : byKey'[x] = IF x = k THEN i ELSE KeysWithout(Victims)[x]
    BY <2>1, WithoutType
  <2> HIDE DEF i
  <2>7. \A x \in Keys : byKey'[x] # 0 => byKey'[x] \in byID' /\ ct'[byKey'[x]].key = x
    <3> SUFFICES ASSUME NEW x \in Keys, byKey'[x] # 0
                 PROVE  byKey'[x] \in byID' /\ ct'[byKey'[x]].key = x
      OBVIOUS
    <3>1. CASE x = k
      BY <3>1, <2>1, <2>2, <2>6
    <3>2. CASE x # k
      <4>1. byKey'[x] = byKey[x] /\ byKey[x] \in byID \ Victims /\ byKey[x] # 0
        BY <3>2, <2>6, KeysWithoutProps, VictimsLive
      <4>2. byKey[x] # i /\ byKey[x] \in byID /\ byKey[x] \in IDs
        BY <4>1, <2>1 DEF TypeOK
      <4>3. ct[byKey[x]].key = x
        BY <4>1 DEF IndexesAgree
      <4>4. ct'[byKey[x]].key = x
        BY <4>2, <4>3, <2>3
      <4> QED BY <4>1, <4>4, <2>1
    <3> QED BY <3>1, <3>2
  <2>8. \A j \in byID' : ct'[j].key \in Keys /\ byKey'[ct'[j].key] = j
    <3> SUFFICES ASSUME NEW j \in byID'
                 PROVE  ct'[j].key \in Keys /\ byKey'[ct'[j].key] = j
      OBVIOUS
    <3>1. CASE j = i
      BY <3>1, <2>2, <2>6
    <3>2. CASE j # i
      <4>1. j \in byID \ Victims /\ ct'[j].key = ct[j].key /\ ct[j].key # k
            /\ ct[j].key \in Keys
        BY <3>2, <2>1, <2>3, <2>5 DEF IndexesAgree, TypeOK
      <4> QED BY <4>1, <2>6, KeysWithoutProps, VictimsLive
    <3> QED BY <3>1, <3>2
  <2>9. \A j \in byID' : j <= nextAuthID'
    BY <2>1 DEF IndexesAgree, TypeOK, IDs, i
  <2> QED BY <2>1, <2>7, <2>8, <2>9 DEF IndexesAgree
<1>3. ASSUME NEW k \in Keys, GetClosed(k) PROVE IndexesAgree'
  <2>1. /\ byKey' = byKey /\ byID' = {} /\ byID = {} /\ closed' = closed
    BY <1>3 DEF GetClosed, IndexesAgree
  <2>2. \A x \in Keys : byKey'[x] = 0
    BY <2>1 DEF IndexesAgree
  <2> QED BY <2>1, <2>2 DEF IndexesAgree
<1>4. ASSUME /\ byKey' = byKey /\ byID' = byID /\ closed' = closed
             /\ nextAuthID' = nextAuthID
             /\ \A i \in IDs : ct'[i].key = ct[i].key
      PROVE  IndexesAgree'
  BY <1>4, <1>0, UnlinkAgrees
<1>5. ASSUME NEW k \in Keys, NEW ttl \in TTLs, ObservePacket(k, ttl)
      PROVE  IndexesAgree'
  <2>1. \A i \in IDs : ct'[i].key = ct[i].key
    BY <1>5 DEF ObservePacket, TypeOK, ConntrackRec
  <2> QED BY <1>5, <1>4, <2>1 DEF ObservePacket
<1>6. ASSUME NEW i \in 1 .. nextAuthID, NEW p \in Packets, CachePacket(i, p)
      PROVE  IndexesAgree'
  <2>1. \A j \in IDs : ct'[j].key = ct[j].key
    BY <1>6 DEF CachePacket, TypeOK, ConntrackRec
  <2> QED BY <1>6, <1>4, <2>1 DEF CachePacket
<1>7. CASE NextAuthBatch
  <2>1. \A j \in IDs : ct'[j].key = ct[j].key
    BY <1>7 DEF NextAuthBatch, TypeOK, ConntrackRec
  <2> QED BY <1>7, <1>4, <2>1 DEF NextAuthBatch
<1>8. ASSUME NEW i \in 1 .. nextAuthID, MarkAuthSent(i) PROVE IndexesAgree'
  <2>1. \A j \in IDs : ct'[j].key = ct[j].key
    BY <1>8 DEF MarkAuthSent, TypeOK, ConntrackRec
  <2> QED BY <1>8, <1>4, <2>1 DEF MarkAuthSent
<1>9. CASE ExpireAuth
  <2>1. ASSUME NEW j \in IDs PROVE ct'[j].key = ct[j].key
    <3>1. ct[j] \in ConntrackRec /\ Charged(ct[j]) \in ConntrackRec
          /\ Charged(ct[j]).key = ct[j].key
      BY ChargedProps DEF TypeOK
    <3>2. Settle(Charged(ct[j]), "timeout").key = ct[j].key
          /\ Rescheduled(Charged(ct[j]), now).key = ct[j].key
      BY <3>1, SettleProps, RescheduledProps, Members DEF TypeOK
    <3> QED BY <1>9, <3>2 DEF ExpireAuth
  <2>2. Spent \subseteq byID
    BY DEF Spent, Due
  <2> QED BY <1>9, <2>1, <2>2, UnlinkAgrees DEF ExpireAuth, Unlink
<1>10. ASSUME NEW i \in 1 .. nextAuthID, NEW delay \in {0, RetryWait},
              RetryAuth(i, delay)
       PROVE  IndexesAgree'
  <2>1. now + delay \in Nat /\ ct[i] \in ConntrackRec /\ i \in IDs
    BY DEF TypeOK, IDs
  <2>2. \A j \in IDs : ct'[j].key = ct[j].key
    BY <1>10, <2>1, RescheduledProps DEF RetryAuth, TypeOK
  <2> QED BY <1>10, <1>4, <2>2 DEF RetryAuth
<1>11. ASSUME NEW i \in 1 .. nextAuthID, NEW e \in Verdicts,
              CompleteAuth(i, e)
       PROVE  IndexesAgree'
  <2>1. e \in Answers /\ ct[i] \in ConntrackRec /\ i \in IDs
    BY Members DEF TypeOK, IDs
  <2>2. \A j \in IDs : ct'[j].key = ct[j].key
    BY <1>11, <2>1, SettleProps DEF CompleteAuth, TypeOK
  <2>3. CASE e = "granted"
    BY <1>11, <1>4, <2>2, <2>3 DEF CompleteAuth
  <2>4. CASE e # "granted"
    <3>1. Unlink({i}) /\ i \in byID /\ closed' = closed /\ nextAuthID' = nextAuthID
      BY <1>11, <2>4 DEF CompleteAuth
    <3> QED BY <3>1, <2>2, UnlinkAgrees DEF Unlink
  <2> QED BY <2>3, <2>4
<1>12. CASE RemoveExpired
  <2>1. \A j \in IDs : ct'[j].key = ct[j].key
    BY <1>12, SettleAllKeys, Members DEF RemoveExpired, Remove
  <2> QED BY <1>12, <2>1, VictimsLive, UnlinkAgrees DEF RemoveExpired, Remove, Unlink
<1>13. CASE CloseMgr
  <2>1. {i \in byID : byKey[ct[i].key] = i} = byID
    BY DEF IndexesAgree
  <2>2. Remove(byID, "closed") /\ nextAuthID' = nextAuthID
    BY <1>13, <2>1 DEF CloseMgr
  <2>3. \A j \in IDs : ct'[j].key = ct[j].key
    BY <2>2, SettleAllKeys, Members DEF Remove
  <2> QED BY <2>2, <2>3, UnlinkAgrees DEF Remove, Unlink
<1>14. CASE Tick
  BY <1>14, <1>4 DEF Tick
<1>15. CASE UNCHANGED mgrVars
  BY <1>15, <1>4 DEF mgrVars
<1> QED
  BY <1>1, <1>2, <1>3, <1>5, <1>6, <1>7, <1>8, <1>9, <1>10, <1>11, <1>12,
     <1>13, <1>14, <1>15 DEF MgrNext, GetOrCreate

\* byKey, byID and the authIDs given out agree in every reachable state.
THEOREM IndexesCorrect == MgrSpec => []IndexesAgree
<1>1. MgrInit => IndexesAgree
  BY DEF MgrInit, IndexesAgree
<1> QED BY <1>1, IndexesStep, TypeCorrect, PTL DEF MgrSpec

-----------------------------------------------------------------------------
(* What a step can do to a conntrack that already exists.                  *)

\* It keeps its answer, its attempts and its place; it may gain a packet while
\* it waits.
Kept(i) ==
  /\ i \in byID' <=> i \in byID
  /\ ct'[i].answer = ct[i].answer
  /\ ct'[i].timeouts = ct[i].timeouts
  /\ \/ ct'[i].pending = ct[i].pending
     \/ Waiting(i) /\ \E p \in Packets : ct'[i].pending = Append(ct[i].pending, p)

\* It leaves the table with an answer.
Settled(i) ==
  /\ i \notin byID'
  /\ ct'[i].answer # "waiting"
  /\ ~Waiting(i) => ct'[i].answer = ct[i].answer
  /\ ct'[i].pending = NoPackets

\* It is authorised.
Granted(i) ==
  /\ i \in byID /\ i \in byID'
  /\ Waiting(i)
  /\ ct'[i].answer = "granted"
  /\ ct'[i].timeouts = ct[i].timeouts
  /\ ct'[i].pending = NoPackets

\* One of its attempts times out, and it is tried again.
Lapsed(i) ==
  /\ i \in byID /\ i \in byID'
  /\ ct'[i].answer = ct[i].answer
  /\ ct'[i].timeouts < MaxAttempts
  /\ ct'[i].pending = ct[i].pending

Fate(i) == Kept(i) \/ Settled(i) \/ Granted(i) \/ Lapsed(i)

\* At most one conntrack is created: waiting and indexed, or closed and not.
Birth ==
  \/ nextAuthID' = nextAuthID
  \/ /\ nextAuthID' = nextAuthID + 1
     /\ ct'[nextAuthID'].pending = NoPackets
     /\ ct'[nextAuthID'].timeouts = 0
     /\ \/ ct'[nextAuthID'].answer = "waiting" /\ nextAuthID' \in byID'
        \/ ct'[nextAuthID'].answer = "closed" /\ nextAuthID' \notin byID'

\* A new conntrack waits, holds nothing and has made no attempt.
LEMMA FreshProps ==
  ASSUME NEW k \in Keys
  PROVE  /\ Fresh(k).answer = "waiting"
         /\ Fresh(k).pending = NoPackets
         /\ Fresh(k).timeouts = 0
BY DEF Fresh, Unborn

\* Removing conntracks settles them and leaves the others alone.
LEMMA SettleAllFate ==
  ASSUME TypeOK, NEW gone \in SUBSET byID, NEW e \in Answers \ {"waiting"},
         NEW i \in IDs,
         ct'[i] = SettleAll(gone, e)[i],
         i \in byID' <=> i \in byID \ gone
  PROVE  Fate(i)
<1>1. ct[i] \in ConntrackRec /\ e \in Answers
  BY DEF TypeOK
<1>2. CASE i \in gone
  <2>1. ct'[i] = Settle(ct[i], e)
    BY <1>2 DEF SettleAll
  <2> QED BY <1>1, <1>2, <2>1, SettleProps DEF Fate, Settled, Waiting
<1>3. CASE i \notin gone
  <2>1. ct'[i] = ct[i]
    BY <1>3 DEF SettleAll
  <2> QED BY <1>3, <2>1 DEF Fate, Kept
<1> QED BY <1>2, <1>3

\* Every step of the table is one of these to each existing conntrack.
LEMMA Fates ==
  ASSUME TypeOK, TypeOK', IndexesAgree, [MgrNext]_mgrVars
  PROVE  Birth /\ \A i \in 1 .. nextAuthID : Fate(i)
<1>0. /\ \A i \in 1 .. nextAuthID : i \in IDs /\ ct[i] \in ConntrackRec
      /\ "evicted" \in Answers \ {"waiting"}
      /\ "closed" \in Answers \ {"waiting"}
  BY DEF TypeOK, IDs, Answers
<1>1. ASSUME NEW k \in Keys, GetHit(k)
      PROVE  Birth /\ \A i \in 1 .. nextAuthID : Fate(i)
  BY <1>0, <1>1, SettleAllFate, VictimsLive DEF GetHit, Birth
<1>2. ASSUME NEW k \in Keys, GetCreate(k)
      PROVE  Birth /\ \A i \in 1 .. nextAuthID : Fate(i)
  <2> DEFINE n == nextAuthID + 1
  <2>1. /\ n \in IDs /\ nextAuthID' = n
        /\ byID' = (byID \ Victims) \cup {n}
    BY <1>2 DEF GetCreate, TypeOK, IDs
  <2>2. ct'[n] = Fresh(k)
    BY <1>0, <1>2, <2>1, SettleAllType DEF GetCreate
  <2>3. Birth
    BY <2>1, <2>2, FreshProps DEF Birth
  <2>4. ASSUME NEW i \in 1 .. nextAuthID PROVE Fate(i)
    <3>1. i # n
      BY DEF TypeOK
    <3>2. ct'[i] = SettleAll(Victims, "evicted")[i]
      BY <1>0, <1>2, <3>1, SettleAllType DEF GetCreate
    <3> QED BY <1>0, <2>1, <3>1, <3>2, SettleAllFate, VictimsLive
  <2> QED BY <2>3, <2>4
<1>3. ASSUME NEW k \in Keys, GetClosed(k)
      PROVE  Birth /\ \A i \in 1 .. nextAuthID : Fate(i)
  <2> DEFINE n == nextAuthID + 1
  <2>1. /\ n \in IDs /\ nextAuthID' = n
        /\ byID' = byID /\ byID = {}
    BY <1>3 DEF GetClosed, TypeOK, IDs, IndexesAgree
  <2>2. /\ ct'[n].answer = "closed"
        /\ ct'[n].pending = Fresh(k).pending
        /\ ct'[n].timeouts = Fresh(k).timeouts
    <3>1. ct'[n] = [Fresh(k) EXCEPT !.answer = "closed"]
      BY <1>3, <2>1 DEF GetClosed, TypeOK
    <3> QED BY <3>1, FreshType DEF ConntrackRec
  <2>3. Birth
    BY <2>1, <2>2, FreshProps DEF Birth
  <2>4. ASSUME NEW i \in 1 .. nextAuthID PROVE ct'[i] = ct[i]
    BY <1>3 DEF GetClosed, TypeOK
  <2> QED BY <2>1, <2>3, <2>4 DEF Fate, Kept
<1>4. ASSUME NEW k \in Keys, NEW ttl \in TTLs, ObservePacket(k, ttl)
      PROVE  Birth /\ \A i \in 1 .. nextAuthID : Fate(i)
  <2>1. ASSUME NEW i \in 1 .. nextAuthID
        PROVE  /\ ct'[i].answer = ct[i].answer
               /\ ct'[i].timeouts = ct[i].timeouts
               /\ ct'[i].pending = ct[i].pending
    BY <1>0, <1>4 DEF ObservePacket, TypeOK, ConntrackRec
  <2> QED BY <1>4, <2>1 DEF ObservePacket, Birth, Fate, Kept
<1>5. ASSUME NEW j \in 1 .. nextAuthID, NEW p \in Packets, CachePacket(j, p)
      PROVE  Birth /\ \A i \in 1 .. nextAuthID : Fate(i)
  <2>1. Waiting(j)
    <3>1. CacheVerdict(j) = "cached"
      BY <1>5 DEF CachePacket
    <3>2. "cached" \notin Answers
      BY DEF Answers, Verdicts
    <3> QED BY <1>0, <3>1, <3>2, FieldType DEF CacheVerdict
  <2>2. ASSUME NEW i \in 1 .. nextAuthID
        PROVE  /\ ct'[i].answer = ct[i].answer
               /\ ct'[i].timeouts = ct[i].timeouts
               /\ ct'[i].pending = IF i = j THEN Append(ct[j].pending, p)
                                            ELSE ct[i].pending
    BY <1>0, <1>5 DEF CachePacket, TypeOK, ConntrackRec
  <2> QED BY <1>5, <2>1, <2>2 DEF CachePacket, Birth, Fate, Kept
<1>6. CASE NextAuthBatch
  <2>1. ASSUME NEW i \in 1 .. nextAuthID
        PROVE  /\ ct'[i].answer = ct[i].answer
               /\ ct'[i].timeouts = ct[i].timeouts
               /\ ct'[i].pending = ct[i].pending
    BY <1>0, <1>6 DEF NextAuthBatch, TypeOK, ConntrackRec
  <2> QED BY <1>6, <2>1 DEF NextAuthBatch, Birth, Fate, Kept
<1>7. ASSUME NEW j \in 1 .. nextAuthID, MarkAuthSent(j)
      PROVE  Birth /\ \A i \in 1 .. nextAuthID : Fate(i)
  <2>1. ASSUME NEW i \in 1 .. nextAuthID
        PROVE  /\ ct'[i].answer = ct[i].answer
               /\ ct'[i].timeouts = ct[i].timeouts
               /\ ct'[i].pending = ct[i].pending
    BY <1>0, <1>7 DEF MarkAuthSent, TypeOK, ConntrackRec
  <2> QED BY <1>7, <2>1 DEF MarkAuthSent, Birth, Fate, Kept
<1>8. CASE ExpireAuth
  <2>1. ASSUME NEW i \in 1 .. nextAuthID PROVE Fate(i)
    <3>1. /\ i \in IDs /\ Charged(ct[i]) \in ConntrackRec /\ now \in Nat
          /\ "timeout" \in Answers /\ "timeout" # "waiting"
          /\ ct[i].timeouts \in Nat
          /\ byID' = byID \ Spent
      BY <1>0, <1>8, ChargedProps, Members, FieldType DEF TypeOK, ExpireAuth, Unlink
    <3>2. CASE i \in Spent
      <4>1. ct'[i] = Settle(Charged(ct[i]), "timeout")
        BY <1>8, <3>1, <3>2 DEF ExpireAuth
      <4>2. /\ ct'[i].pending = NoPackets
            /\ ct'[i].answer = IF ct[i].answer = "waiting" THEN "timeout"
                                                          ELSE ct[i].answer
        <5> DEFINE c == Charged(ct[i])
        <5>1. c \in ConntrackRec /\ c.answer = ct[i].answer
          BY <1>0, ChargedProps
        <5> HIDE DEF c
        <5>2. /\ Settle(c, "timeout").pending = NoPackets
              /\ Settle(c, "timeout").answer =
                   IF c.answer = "waiting" THEN "timeout" ELSE c.answer
          BY <3>1, <5>1, SettleProps
        <5> QED BY <4>1, <5>1, <5>2 DEF c
      <4> QED BY <3>1, <3>2, <4>2 DEF Fate, Settled, Waiting
    <3>3. CASE i \in Due \ Spent
      <4>1. ct'[i] = Rescheduled(Charged(ct[i]), now)
        BY <1>8, <3>1, <3>3 DEF ExpireAuth
      <4>2. /\ ct'[i].pending = ct[i].pending /\ ct'[i].answer = ct[i].answer
            /\ ct'[i].timeouts = ct[i].timeouts + 1
        <5> DEFINE c == Charged(ct[i])
        <5>1. /\ c \in ConntrackRec
              /\ c.pending = ct[i].pending /\ c.answer = ct[i].answer
              /\ c.timeouts = ct[i].timeouts + 1
          BY <1>0, ChargedProps
        <5> HIDE DEF c
        <5>2. /\ Rescheduled(c, now).pending = c.pending
              /\ Rescheduled(c, now).answer = c.answer
              /\ Rescheduled(c, now).timeouts = c.timeouts
          BY <3>1, <5>1, RescheduledProps
        <5> QED BY <4>1, <5>1, <5>2 DEF c
      <4>3. ct[i].timeouts + 1 < MaxAttempts
        BY <3>1, <3>3 DEF Spent
      <4>4. i \in byID /\ i \in byID'
        BY <3>1, <3>3 DEF Due
      <4> QED BY <4>2, <4>3, <4>4 DEF Fate, Lapsed
    <3>4. CASE i \notin Due
      <4>1. ct'[i] = ct[i] /\ i \notin Spent
        BY <1>8, <3>1, <3>4 DEF ExpireAuth, Spent
      <4> QED BY <3>1, <4>1 DEF Fate, Kept
    <3> QED BY <3>2, <3>3, <3>4
  <2> QED BY <1>8, <2>1 DEF ExpireAuth, Birth
<1>9. ASSUME NEW j \in 1 .. nextAuthID, NEW delay \in {0, RetryWait},
             RetryAuth(j, delay)
      PROVE  Birth /\ \A i \in 1 .. nextAuthID : Fate(i)
  <2>1. now + delay \in Nat
    BY DEF TypeOK
  <2>2. ASSUME NEW i \in 1 .. nextAuthID
        PROVE  /\ ct'[i].answer = ct[i].answer
               /\ ct'[i].timeouts = ct[i].timeouts
               /\ ct'[i].pending = ct[i].pending
    <3>1. ct'[i] = IF i = j THEN Rescheduled(ct[i], now + delay) ELSE ct[i]
      BY <1>0, <1>9 DEF RetryAuth, TypeOK
    <3>2. /\ Rescheduled(ct[i], now + delay).answer = ct[i].answer
          /\ Rescheduled(ct[i], now + delay).timeouts = ct[i].timeouts
          /\ Rescheduled(ct[i], now + delay).pending = ct[i].pending
      BY <1>0, <2>1, RescheduledProps
    <3> QED BY <3>1, <3>2, Zenon
  <2> QED BY <1>9, <2>2 DEF RetryAuth, Birth, Fate, Kept
<1>10. ASSUME NEW j \in 1 .. nextAuthID, NEW e \in Verdicts,
              CompleteAuth(j, e)
       PROVE  Birth /\ \A i \in 1 .. nextAuthID : Fate(i)
  <2>1. /\ e \in Answers /\ e # "waiting" /\ Waiting(j) /\ j \in byID
        /\ nextAuthID' = nextAuthID
        /\ byID' = IF e = "granted" THEN byID ELSE byID \ {j}
    BY <1>10, Members DEF CompleteAuth, Unlink
  <2>2. ct'[j] = Settle(ct[j], e) /\ \A i \in IDs \ {j} : ct'[i] = ct[i]
    BY <1>0, <1>10 DEF CompleteAuth, TypeOK
  <2>3. /\ ct'[j].answer = e /\ ct'[j].pending = NoPackets
        /\ ct'[j].timeouts = ct[j].timeouts
    BY <1>0, <2>1, <2>2, SettleProps DEF Waiting
  <2>4. Fate(j)
    BY <2>1, <2>3 DEF Fate, Granted, Settled
  <2>5. \A i \in 1 .. nextAuthID : i # j => Kept(i)
    BY <1>0, <2>1, <2>2 DEF Kept
  <2> QED BY <2>1, <2>4, <2>5 DEF Birth, Fate
<1>11. CASE RemoveExpired
  BY <1>0, <1>11, SettleAllFate, VictimsLive DEF RemoveExpired, Remove, Unlink, Birth
<1>12. CASE CloseMgr
  <2> DEFINE gone == {i \in byID : byKey[ct[i].key] = i}
  <2>1. gone \in SUBSET byID
    OBVIOUS
  <2>2. Remove(gone, "closed") /\ nextAuthID' = nextAuthID
    BY <1>12 DEF CloseMgr
  <2> HIDE DEF gone
  <2> QED BY <1>0, <2>1, <2>2, SettleAllFate DEF Remove, Unlink, Birth
<1>13. CASE Tick
  BY <1>13 DEF Tick, Birth, Fate, Kept
<1>14. CASE UNCHANGED mgrVars
  BY <1>14 DEF mgrVars, Birth, Fate, Kept
<1> QED
  BY <1>1, <1>2, <1>3, <1>4, <1>5, <1>6, <1>7, <1>8, <1>9, <1>10, <1>11,
     <1>12, <1>13, <1>14 DEF MgrNext, GetOrCreate

-----------------------------------------------------------------------------
(* Answers and attempts.                                                   *)

\* No step leaves an answered conntrack holding packets, or one unanswered
\* outside the table.
LEMMA AnswersStep ==
  TypeOK /\ TypeOK' /\ IndexesAgree /\ AnswerConsistent /\ [MgrNext]_mgrVars
    => AnswerConsistent'
<1> SUFFICES ASSUME TypeOK, TypeOK', IndexesAgree, AnswerConsistent,
                    [MgrNext]_mgrVars, NEW i \in 1 .. nextAuthID'
             PROVE  /\ i \notin byID' => ct'[i].answer # "waiting"
                    /\ i \in byID' => ct'[i].answer \in {"waiting", "granted"}
                    /\ ct'[i].answer # "waiting" => ct'[i].pending = NoPackets
  BY DEF AnswerConsistent, Waiting
<1>1. Birth /\ \A j \in 1 .. nextAuthID : Fate(j)
  BY Fates
<1>2. CASE i \in 1 .. nextAuthID
  BY <1>1, <1>2 DEF Fate, Kept, Settled, Granted, Lapsed, AnswerConsistent, Waiting
<1>3. CASE i \notin 1 .. nextAuthID
  BY <1>1, <1>3 DEF Birth, TypeOK
<1> QED BY <1>2, <1>3

\* Every conntrack that leaves the table has its answer, every one still in it
\* is waiting or authorised, and none that was answered holds packets, in
\* every reachable state.
THEOREM AnswersCorrect == MgrSpec => []AnswerConsistent
<1>1. MgrInit => AnswerConsistent
  BY DEF MgrInit, AnswerConsistent
<1> QED BY <1>1, AnswersStep, TypeCorrect, IndexesCorrect, PTL DEF MgrSpec

\* No step leaves a conntrack in the table with its attempts used up.
LEMMA BudgetStep ==
  TypeOK /\ TypeOK' /\ IndexesAgree /\ IndexesAgree' /\ TimeoutBudget
    /\ [MgrNext]_mgrVars => TimeoutBudget'
<1> SUFFICES ASSUME TypeOK, TypeOK', IndexesAgree, IndexesAgree', TimeoutBudget,
                    [MgrNext]_mgrVars, NEW i \in byID'
             PROVE  ct'[i].timeouts < MaxAttempts
  BY DEF TimeoutBudget
<1>1. Birth /\ \A j \in 1 .. nextAuthID : Fate(j)
  BY Fates
<1>2. CASE i \in 1 .. nextAuthID
  BY <1>1, <1>2 DEF Fate, Kept, Settled, Granted, Lapsed, TimeoutBudget
<1>3. CASE i \notin 1 .. nextAuthID
  <2>1. i = nextAuthID' /\ nextAuthID' # nextAuthID
    BY <1>1, <1>3 DEF Birth, TypeOK, IndexesAgree, IDs
  <2> QED BY <1>1, <2>1 DEF Birth
<1> QED BY <1>2, <1>3

\* No conntrack in the table has used up its attempts.
THEOREM BudgetCorrect == MgrSpec => []TimeoutBudget
<1>1. MgrInit => TimeoutBudget
  BY DEF MgrInit, TimeoutBudget
<1> QED BY <1>1, BudgetStep, TypeCorrect, IndexesCorrect, PTL DEF MgrSpec

\* No step changes the answer of a conntrack that has one.
THEOREM AnswersFinal == MgrSpec => AnswerIsFinal
<1>1. TypeOK /\ TypeOK' /\ IndexesAgree /\ [MgrNext]_mgrVars =>
        [\A i \in 1 .. nextAuthID :
           ~Waiting(i) => ct'[i].answer = ct[i].answer]_mgrVars
  <2> SUFFICES ASSUME TypeOK, TypeOK', IndexesAgree, [MgrNext]_mgrVars,
                      NEW i \in 1 .. nextAuthID, ~Waiting(i)
               PROVE  ct'[i].answer = ct[i].answer
    OBVIOUS
  <2> QED BY Fates DEF Fate, Kept, Settled, Granted, Lapsed
<1> QED BY <1>1, TypeCorrect, IndexesCorrect, PTL DEF MgrSpec, AnswerIsFinal

-----------------------------------------------------------------------------
(* The table implements AuthOnce.                                          *)

\* Each step of the table is a step of AuthOnce or changes nothing it sees.
LEMMA PromiseStep ==
  TypeOK /\ TypeOK' /\ IndexesAgree /\ AnswerConsistent /\ [MgrNext]_mgrVars
    => Promise!Next
<1> SUFFICES ASSUME TypeOK, TypeOK', IndexesAgree, AnswerConsistent,
                    [MgrNext]_mgrVars
             PROVE  Promise!Next
  OBVIOUS
<1> DEFINE answer == [i \in 1 .. nextAuthID |-> ct[i].answer]
           held == [i \in 1 .. nextAuthID |-> ct[i].pending]
<1>1. Birth /\ \A i \in 1 .. nextAuthID : Fate(i)
  BY Fates
<1>2. nextAuthID \in Nat /\ nextAuthID' \in {nextAuthID, nextAuthID + 1}
  BY <1>1 DEF Birth, TypeOK
<1>3. \A i \in 1 .. nextAuthID' : i \in IDs /\ ct'[i] \in ConntrackRec
  BY DEF TypeOK, IDs
<1>4. answer' \in [1 .. nextAuthID' -> Answers]
  BY <1>3, FieldType
<1>5. held' \in [1 .. nextAuthID' -> Seq(Packets)]
  BY <1>3, FieldType
<1>6. ASSUME NEW i \in 1 .. nextAuthID
      PROVE  Promise!Rests(i) \/ Promise!Collects(i) \/ Promise!Settles(i)
  <2>1. /\ answer[i] = ct[i].answer /\ answer'[i] = ct'[i].answer
        /\ held[i] = ct[i].pending /\ held'[i] = ct'[i].pending
    BY <1>2
  <2> HIDE DEF answer, held
  <2>2. \/ answer'[i] = answer[i] /\ held'[i] = held[i]
        \/ /\ answer[i] = "waiting" /\ answer'[i] = "waiting"
           /\ \E p \in Packets : held'[i] = Append(held[i], p)
        \/ /\ answer[i] = "waiting" /\ answer'[i] # "waiting"
           /\ held'[i] = NoPackets
    <3>1. CASE Kept(i)
      BY <2>1, <3>1 DEF Kept, Waiting
    <3>2. CASE Settled(i)
      <4>1. ~Waiting(i) => ct[i].pending = NoPackets
        BY DEF AnswerConsistent
      <4> QED BY <2>1, <3>2, <4>1 DEF Settled, Waiting
    <3>3. CASE Granted(i)
      BY <2>1, <3>3 DEF Granted, Waiting
    <3>4. CASE Lapsed(i)
      BY <2>1, <3>4 DEF Lapsed
    <3> QED BY <1>1, <3>1, <3>2, <3>3, <3>4 DEF Fate
  <2> QED BY <2>2 DEF Promise!Rests, Promise!Collects, Promise!Settles, answer, held, NoPackets
<1>7. ASSUME NEW i \in nextAuthID + 1 .. nextAuthID'
      PROVE  held'[i] = <<>>
  <2>1. i = nextAuthID' /\ nextAuthID' # nextAuthID
    BY <1>2
  <2>2. ct'[i].pending = NoPackets
    BY <1>1, <2>1 DEF Birth
  <2>3. held'[i] = ct'[i].pending
    BY <1>2, <2>1
  <2> QED BY <2>2, <2>3 DEF NoPackets
<1> HIDE DEF answer, held
<1> QED BY <1>2, <1>4, <1>5, <1>6, <1>7 DEF Promise!Next, answer, held

\* The table of conntracks, however many flows, limits and timings there are,
\* behaves towards its users as AuthOnce says: one answer, and packets held in
\* order until then.
THEOREM Implements == MgrSpec => AnswersOnce
<1>1. MgrInit => Promise!Init
  BY DEF MgrInit, Promise!Init
<1>2. TypeOK /\ TypeOK' /\ IndexesAgree /\ AnswerConsistent /\ [MgrNext]_mgrVars
        => [Promise!Next]_Promise!vars
  BY PromiseStep
<1> QED BY <1>1, <1>2, TypeCorrect, IndexesCorrect, AnswersCorrect, PTL
        DEF MgrSpec, AnswersOnce, Promise!Spec

-----------------------------------------------------------------------------
(* Orders.                                                                 *)

\* o orders the conntracks in live: o[i] is what comes before i.
Ordered(o, live) ==
  /\ \A i \in IDs \ live : o[i] = {}
  /\ \A i \in live : o[i] \subseteq live \ {i}
  /\ \A i, j \in live : i # j => i \in o[j] \/ j \in o[i]
  /\ \A i, j \in live : i \in o[j] => o[i] \subseteq o[j] \ {i}

\* The list is in order when ahead orders byID.
LEMMA ListIsOrdered == ListInOrder <=> Ordered(ahead, byID)
BY DEF ListInOrder, Ordered

\* What remains of a list after removals is in order.
LEMMA OrderedWithout ==
  ASSUME TypeOK, Ordered(ahead, byID), NEW gone \in SUBSET byID
  PROVE  Ordered(OrderWithout(gone), byID \ gone)
<1> DEFINE o == OrderWithout(gone)
           live == byID \ gone
<1>0. \A i \in IDs : o[i] = IF i \in gone THEN {} ELSE ahead[i] \ gone
  BY DEF OrderWithout
<1>1. live \subseteq IDs /\ gone \subseteq IDs
  BY DEF TypeOK
<1>2. \A i \in live : o[i] = ahead[i] \ gone
  BY <1>0, <1>1
<1> HIDE DEF o
<1>3. ASSUME NEW i \in IDs \ live PROVE o[i] = {}
  <2>1. CASE i \in gone
    BY <1>0, <2>1
  <2>2. CASE i \notin gone
    <3>1. ahead[i] = {}
      BY <1>3, <2>2 DEF Ordered
    <3> QED BY <1>0, <2>2, <3>1
  <2> QED BY <2>1, <2>2
<1>4. ASSUME NEW i \in live PROVE o[i] \subseteq live \ {i}
  BY <1>2 DEF Ordered
<1>5. ASSUME NEW i \in live, NEW j \in live, i # j
      PROVE  i \in o[j] \/ j \in o[i]
  BY <1>2, <1>5 DEF Ordered
<1>6. ASSUME NEW i \in live, NEW j \in live, i \in o[j]
      PROVE  o[i] \subseteq o[j] \ {i}
  BY <1>2, <1>6 DEF Ordered
<1> HIDE DEF live
<1>7. Ordered(o, live)
  BY <1>3, <1>4, <1>5, <1>6 DEF Ordered
<1> QED BY <1>7 DEF o, live

\* Moving a conntrack of the list to the back, or putting a new one there,
\* leaves a list in order.
LEMMA OrderedToBack ==
  ASSUME NEW o \in [IDs -> SUBSET IDs], NEW live \in SUBSET IDs,
         NEW i \in IDs, Ordered(o, live)
  PROVE  Ordered(ToBack(o, live \cup {i}, i), live \cup {i})
<1> DEFINE b == ToBack(o, live \cup {i}, i)
           all == live \cup {i}
<1>0. \A j \in IDs : b[j] = IF j = i THEN live \ {i} ELSE o[j] \ {i}
  BY DEF ToBack
<1>1. b[i] = live \ {i} /\ \A j \in IDs : j # i => b[j] = o[j] \ {i}
  BY <1>0
<1> HIDE DEF b
<1>2. ASSUME NEW j \in IDs \ all PROVE b[j] = {}
  <2>1. o[j] = {} /\ j # i
    BY <1>2 DEF Ordered
  <2> QED BY <1>1, <2>1
<1>3. ASSUME NEW j \in all PROVE b[j] \subseteq all \ {j}
  <2>1. CASE j = i
    BY <1>1, <2>1
  <2>2. CASE j # i
    <3>1. j \in live /\ o[j] \subseteq live \ {j}
      BY <2>2 DEF Ordered
    <3> QED BY <1>1, <2>2, <3>1
  <2> QED BY <2>1, <2>2
<1>4. ASSUME NEW j \in all, NEW l \in all, j # l
      PROVE  j \in b[l] \/ l \in b[j]
  <2>1. CASE j = i \/ l = i
    BY <1>1, <1>4, <2>1
  <2>2. CASE j # i /\ l # i
    <3>1. j \in o[l] \/ l \in o[j]
      BY <1>4, <2>2 DEF Ordered
    <3> QED BY <1>1, <2>2, <3>1
  <2> QED BY <2>1, <2>2
<1>5. ASSUME NEW j \in all, NEW l \in all, j \in b[l]
      PROVE  b[j] \subseteq b[l] \ {j}
  <2>1. j # i /\ j \in live
    BY <1>1, <1>5
  <2>2. o[j] \subseteq live \ {j} /\ b[j] = o[j] \ {i}
    BY <1>1, <2>1 DEF Ordered
  <2>3. CASE l = i
    BY <1>1, <2>1, <2>2, <2>3
  <2>4. CASE l # i
    <3>1. j \in o[l] /\ b[l] = o[l] \ {i} /\ l \in live
      BY <1>1, <1>5, <2>4
    <3>2. o[j] \subseteq o[l] \ {j}
      BY <2>1, <3>1 DEF Ordered
    <3> QED BY <2>1, <2>2, <3>1, <3>2
  <2> QED BY <2>3, <2>4
<1> HIDE DEF all
<1>6. Ordered(b, all)
  BY <1>2, <1>3, <1>4, <1>5 DEF Ordered
<1> QED BY <1>6 DEF b, all

\* A list that is not empty has a front.
LEMMA FrontExists ==
  ASSUME NEW o, NEW live, IsFiniteSet(live), live # {}, Ordered(o, live)
  PROVE  \E i \in live : o[i] = {}
<1> DEFINE T == {o[i] : i \in live}
           R == StrictSubsetOrdering(live)
<1>1. \A i \in live : o[i] \in FiniteSubsetsOf(live)
  BY FS_Subset DEF Ordered, FiniteSubsetsOf
<1>2. T \subseteq FiniteSubsetsOf(live) /\ T # {}
  BY <1>1
<1>3. IsWellFoundedOn(R, FiniteSubsetsOf(live))
  BY FS_StrictSubsetOrderingWellFounded
<1>4. PICK x \in T : \A y \in T : ~ (<<y, x>> \in R)
  <2> HIDE DEF T, R
  <2> QED BY <1>2, <1>3, WFMin
<1>5. PICK i \in live : x = o[i]
  OBVIOUS
<1>6. ASSUME NEW j \in o[i] PROVE FALSE
  <2>1. j \in live /\ o[j] \subseteq o[i] \ {j}
    BY <1>6 DEF Ordered
  <2>2. o[j] \in T /\ o[j] \subseteq x /\ o[j] # x
    BY <1>5, <1>6, <2>1
  <2>3. <<o[j], x>> \in R
    BY <1>1, <1>5, <2>1, <2>2 DEF StrictSubsetOrdering, FiniteSubsetsOf
  <2> QED BY <1>4, <2>2, <2>3
<1> QED BY <1>6
-----------------------------------------------------------------------------
(* The list of the table.                                                  *)

\* A step that unlinks some conntracks and moves nothing keeps the list.
LEMMA UnlinkKeepsList ==
  ASSUME TypeOK, ListInOrder, NEW gone \in SUBSET byID,
         byID' = byID \ gone, ahead' = OrderWithout(gone)
  PROVE  ListInOrder'
<1>1. Ordered(ahead', byID')
  BY ListIsOrdered, OrderedWithout
<1> QED BY <1>1 DEF Ordered, ListInOrder

\* A step that unlinks some conntracks and then puts one at the back does too.
LEMMA ToBackKeepsList ==
  ASSUME TypeOK, ListInOrder, NEW gone \in SUBSET byID, NEW i \in IDs,
         byID' = (byID \ gone) \cup {i},
         ahead' = ToBack(OrderWithout(gone), byID', i)
  PROVE  ListInOrder'
<1>1. /\ OrderWithout(gone) \in [IDs -> SUBSET IDs]
      /\ byID \ gone \in SUBSET IDs
  BY WithoutType DEF TypeOK
<1>2. Ordered(OrderWithout(gone), byID \ gone)
  BY ListIsOrdered, OrderedWithout
<1>3. Ordered(ahead', byID')
  BY <1>1, <1>2, OrderedToBack
<1> QED BY <1>3 DEF Ordered, ListInOrder

\* No step puts the list out of order.
LEMMA ListStep ==
  TypeOK /\ IndexesAgree /\ ListInOrder /\ [MgrNext]_mgrVars => ListInOrder'
<1> SUFFICES ASSUME TypeOK, IndexesAgree, ListInOrder, [MgrNext]_mgrVars
             PROVE  ListInOrder'
  OBVIOUS
<1>0. ASSUME byID' = byID, ahead' = ahead PROVE ListInOrder'
  BY <1>0 DEF ListInOrder
<1>1. ASSUME NEW k \in Keys, GetHit(k) PROVE ListInOrder'
  <2>1. /\ byKey[k] \in byID \ Expired
        /\ byID' = byID \ Expired
        /\ ahead' = ToBack(OrderWithout(Expired), byID', byKey[k])
    BY <1>1 DEF GetHit, IndexesAgree
  <2>2. byKey[k] \in IDs /\ byID' = (byID \ Expired) \cup {byKey[k]}
    BY <2>1 DEF TypeOK
  <2> QED BY <2>1, <2>2, VictimsLive, ToBackKeepsList
<1>2. ASSUME NEW k \in Keys, GetCreate(k) PROVE ListInOrder'
  <2>1. nextAuthID + 1 \in IDs
    BY <1>2 DEF GetCreate, TypeOK, IDs
  <2>2. /\ byID' = (byID \ Victims) \cup {nextAuthID + 1}
        /\ ahead' = ToBack(OrderWithout(Victims), byID', nextAuthID + 1)
    BY <1>2 DEF GetCreate
  <2> QED BY <2>1, <2>2, VictimsLive, ToBackKeepsList
<1>3. ASSUME NEW k \in Keys, NEW ttl \in TTLs, ObservePacket(k, ttl)
      PROVE  ListInOrder'
  <2>1. /\ byKey[k] \in byID /\ byID' = byID
        /\ ahead' = ToBack(ahead, byID, byKey[k])
    BY <1>3 DEF ObservePacket, IndexesAgree
  <2>2. OrderWithout({}) = ahead
    BY DEF OrderWithout, TypeOK
  <2>3. /\ byKey[k] \in IDs
        /\ byID' = (byID \ {}) \cup {byKey[k]}
        /\ ahead' = ToBack(OrderWithout({}), byID', byKey[k])
    BY <2>1, <2>2 DEF TypeOK
  <2> QED BY <2>3, ToBackKeepsList
<1>4. CASE ExpireAuth
  <2>1. byID' = byID \ Spent /\ ahead' = OrderWithout(Spent)
    BY <1>4 DEF ExpireAuth, Unlink
  <2>2. Spent \subseteq byID
    BY DEF Spent, Due
  <2> QED BY <2>1, <2>2, UnlinkKeepsList
<1>5. ASSUME NEW i \in 1 .. nextAuthID, NEW e \in Verdicts, CompleteAuth(i, e)
      PROVE  ListInOrder'
  <2>1. CASE e = "granted"
    BY <1>0, <1>5, <2>1 DEF CompleteAuth
  <2>2. CASE e # "granted"
    <3>1. i \in byID /\ byID' = byID \ {i} /\ ahead' = OrderWithout({i})
      BY <1>5, <2>2 DEF CompleteAuth, Unlink
    <3> QED BY <3>1, UnlinkKeepsList
  <2> QED BY <2>1, <2>2
<1>6. CASE RemoveExpired
  BY <1>6, VictimsLive, UnlinkKeepsList DEF RemoveExpired, Remove, Unlink
<1>7. CASE CloseMgr
  <2>1. PICK gone \in SUBSET byID : byID' = byID \ gone /\ ahead' = OrderWithout(gone)
    BY <1>7 DEF CloseMgr, Remove, Unlink
  <2> QED BY <2>1, UnlinkKeepsList
<1>8. CASE byID' = byID /\ ahead' = ahead
  BY <1>0, <1>8
<1> QED
  BY <1>1, <1>2, <1>3, <1>4, <1>5, <1>6, <1>7, <1>8
     DEF MgrNext, GetOrCreate, GetClosed, CachePacket, NextAuthBatch, MarkAuthSent,
         RetryAuth, Tick, mgrVars

\* The LRU list is a list of exactly the conntracks in the table, whatever was
\* moved and unlinked.
THEOREM ListCorrect == MgrSpec => []ListInOrder
<1>1. MgrInit => ListInOrder
  BY DEF MgrInit, ListInOrder
<1> QED BY <1>1, ListStep, TypeCorrect, IndexesCorrect, PTL DEF MgrSpec

-----------------------------------------------------------------------------
(* The limit of the table.                                                 *)

\* The table is finite.
LEMMA TableFinite ==
  ASSUME TypeOK
  PROVE  IsFiniteSet(byID) /\ Cardinality(byID) \in Nat
<1>1. IsFiniteSet(IDs)
  BY FS_Interval DEF IDs
<1>2. byID \in SUBSET IDs
  BY DEF TypeOK
<1>3. IsFiniteSet(byID)
  BY <1>1, <1>2, FS_Subset
<1> QED BY <1>3, FS_CardinalityType

\* getOrCreate makes room when the table is full: the list has a front.
LEMMA RoomIsMade ==
  ASSUME TypeOK, ListInOrder, Capacity
  PROVE  Cardinality(byID \ Victims) < MaxEntries
<1> DEFINE live == byID \ Expired
<1>1. IsFiniteSet(byID) /\ IsFiniteSet(live)
  BY TableFinite, FS_Subset
<1>2. /\ Cardinality(byID) \in Nat /\ Cardinality(live) \in Nat
      /\ Cardinality(live) <= Cardinality(byID)
  BY <1>1, FS_CardinalityType, FS_Subset
<1>3. CASE Cardinality(live) < MaxEntries
  <2>1. Victims = Expired
    BY <1>2, <1>3 DEF Victims
  <2> QED BY <1>3, <2>1
<1>4. CASE Cardinality(live) >= MaxEntries
  <2>1. live # {}
    BY <1>2, <1>4, FS_EmptySet
  <2>2. Ordered(OrderWithout(Expired), live)
    BY ListIsOrdered, OrderedWithout, VictimsLive
  <2>3. PICK i \in live : OrderWithout(Expired)[i] = {}
    BY <1>1, <2>1, <2>2, FrontExists
  <2>4. i \in Victims
    <3>1. ahead[i] \subseteq Expired
      BY <2>3 DEF OrderWithout, TypeOK
    <3> QED BY <1>4, <3>1 DEF Victims
  <2>5. byID \ Victims \subseteq live \ {i}
    BY <2>4 DEF Victims
  <2>6. /\ IsFiniteSet(live \ {i})
        /\ Cardinality(live \ {i}) = Cardinality(live) - 1
    BY <1>1, FS_RemoveElement
  <2>7. /\ Cardinality(byID \ Victims) <= Cardinality(live \ {i})
        /\ Cardinality(byID \ Victims) \in Nat
    BY <2>5, <2>6, FS_Subset, FS_CardinalityType
  <2> QED BY <1>2, <2>6, <2>7 DEF Capacity
<1> QED BY <1>2, <1>3, <1>4

\* No step takes the table beyond its limit.
LEMMA CapacityStep ==
  TypeOK /\ ListInOrder /\ Capacity /\ [MgrNext]_mgrVars => Capacity'
<1> SUFFICES ASSUME TypeOK, ListInOrder, Capacity, [MgrNext]_mgrVars
             PROVE  Cardinality(byID') <= MaxEntries
  BY DEF Capacity
<1>0. IsFiniteSet(byID) /\ Cardinality(byID) \in Nat
  BY TableFinite
<1>1. CASE byID' \subseteq byID
  <2>1. Cardinality(byID') <= Cardinality(byID) /\ Cardinality(byID') \in Nat
    BY <1>0, <1>1, FS_Subset, FS_CardinalityType
  <2> QED BY <1>0, <2>1 DEF Capacity
<1>2. ASSUME NEW k \in Keys, GetCreate(k)
      PROVE  Cardinality(byID') <= MaxEntries
  <2> DEFINE rest == byID \ Victims
  <2>1. byID' = rest \cup {nextAuthID + 1}
    BY <1>2 DEF GetCreate
  <2>2. IsFiniteSet(rest) /\ Cardinality(rest) \in Nat
    BY <1>0, FS_Subset, FS_CardinalityType
  <2>3. Cardinality(rest) < MaxEntries
    BY RoomIsMade
  <2> HIDE DEF rest
  <2>4. Cardinality(rest \cup {nextAuthID + 1}) <= Cardinality(rest) + 1
    <3>1. Cardinality(rest \cup {nextAuthID + 1}) =
            IF nextAuthID + 1 \in rest THEN Cardinality(rest) ELSE Cardinality(rest) + 1
      BY <2>2, FS_AddElement
    <3> QED BY <2>2, <3>1
  <2>5. IsFiniteSet(rest \cup {nextAuthID + 1})
    BY <2>2, FS_AddElement
  <2>6. Cardinality(rest \cup {nextAuthID + 1}) \in Nat
    BY <2>5, FS_CardinalityType
  <2> QED BY <2>1, <2>2, <2>3, <2>4, <2>6
<1>3. \/ byID' \subseteq byID
      \/ \E k \in Keys : GetCreate(k)
  BY DEF MgrNext, GetOrCreate, GetHit, GetClosed, ObservePacket, CachePacket,
         NextAuthBatch, MarkAuthSent, ExpireAuth, RetryAuth, CompleteAuth,
         RemoveExpired, CloseMgr, Remove, Unlink, Tick, mgrVars
<1> QED BY <1>1, <1>2, <1>3

\* The table never holds more conntracks than its limit, for any limit.
THEOREM CapacityCorrect == MgrSpec => []Capacity
<1>1. MgrInit => Capacity
  BY FS_EmptySet DEF MgrInit, Capacity
<1> QED BY <1>1, CapacityStep, TypeCorrect, ListCorrect, PTL DEF MgrSpec

\* Whatever mix of moves, expiry, eviction and Close came before, the list is a list
\* of the table, and the table is within its limit.
THEOREM LRUListCorrect == MgrSpec => []LRUListOK
<1>1. ListInOrder /\ Capacity => LRUListOK
  BY DEF LRUListOK
<1> QED BY <1>1, ListCorrect, CapacityCorrect, PTL

=============================================================================

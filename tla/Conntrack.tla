------------------------------ MODULE Conntrack ------------------------------
(***************************************************************************)
(* The connection-tracking table of one aTrust node group                  *)
(* (client/atrust/l3tunnelconntrack.go, type conntrackMgr).                *)
(*                                                                         *)
(* The table holds one conntrack per flow.  A conntrack is created by the  *)
(* first packet of the flow, collects the packets written before the       *)
(* server has authorised the flow, is offered to the authentication        *)
(* scheduler, and is settled exactly once: authorised, refused, timed out, *)
(* evicted or closed.  Every operation below is one critical section of    *)
(* conntrackMgr.mu, hence one atomic step.  Here any operation may be      *)
(* called at any moment with any argument, so what holds of this module    *)
(* holds whatever the callers do; L3TunnelConn adds the callers it has.   *)
(*                                                                         *)
(* A conntrack is identified by its authID, which the code never reuses.   *)
(* Times are small naturals; 0 stands for the zero time.Time, and the      *)
(* clock starts at 1.  container/list is modelled by the order it keeps:   *)
(* ahead[i] is the set of conntracks nearer to the front than i.           *)
(***************************************************************************)
EXTENDS Integers, Sequences, FiniteSets

CONSTANTS
  Keys,           \* flow keys (connTrackKey)
  NoKey,          \* the key of a conntrack not created yet
  Packets,        \* packet contents
  MaxID,          \* bound: conntracks created in a behaviour
  MaxTime,        \* bound: last value of the clock
  MaxEntries,     \* defaultConntrackMaxEntries
  PendingLimit,   \* defaultPendingPacketLimit
  BatchSize,      \* defaultAuthBatchSize
  MaxAttempts,    \* defaultAuthMaxAttempts
  AuthTimeout,    \* defaultAuthTimeout
  RetryWait,      \* defaultAuthRetryWait
  DefaultTTL,     \* defaultConntrackTTL
  TTLs            \* lifetimes observePacket may give a flow

ASSUME ConntrackAssumption ==
  /\ NoKey \notin Keys
  /\ MaxID \in Nat
  /\ MaxTime \in Nat
  /\ MaxEntries \in Nat \ {0}
  /\ PendingLimit \in Nat
  /\ BatchSize \in Nat \ {0}
  /\ MaxAttempts \in Nat \ {0}
  /\ AuthTimeout \in Nat
  /\ RetryWait \in Nat
  /\ DefaultTTL \in Nat
  /\ TTLs \subseteq Nat

VARIABLES
  ct,          \* ct[i]: the fields of the conntrack with authID i
  byKey,       \* byKey[k]: the conntrack indexed under key k, 0 if none
  byID,        \* the conntracks indexed by authID
  ahead,       \* the order of the LRU list
  nextAuthID,  \* the last authID given out
  closed,      \* close() was called
  now          \* the clock

mgrVars == <<ct, byKey, byID, ahead, nextAuthID, closed, now>>

-----------------------------------------------------------------------------
IDs == 1 .. MaxID

\* What completeAuth may be called with: no error, the server's refusal, or the
\* failure to send the request.
Verdicts == {"granted", "denied", "failed"}

\* authCh and authErr together: open; closed with one of these; or closed with
\* errL3TunnelAuthTimeout, errConntrackEvicted, net.ErrClosed.
Answers == Verdicts \cup {"waiting", "timeout", "evicted", "closed"}

NoPackets == <<>>

Flag == {0, 1}

KeyOrNone == Keys \cup {NoKey}

ConntrackRec ==
  [ key       : KeyOrNone,
    answer    : Answers,
    started   : Flag,               \* authStarted
    timeouts  : Nat,                \* authTimeouts
    deadline  : Nat,                \* authDeadline
    retryAt   : Nat,                \* authRetryAt
    pending   : Seq(Packets),
    expiresAt : Nat ]

Unborn ==
  [ key |-> NoKey, answer |-> "waiting", started |-> 0, timeouts |-> 0,
    deadline |-> 0, retryAt |-> 0, pending |-> NoPackets, expiresAt |-> 0 ]

Fresh(k) == [Unborn EXCEPT !.key = k, !.expiresAt = now + DefaultTTL]

Waiting(i) == ct[i].answer = "waiting"

\* newConntrackMgr
MgrInit ==
  /\ ct = [i \in IDs |-> Unborn]
  /\ byKey = [k \in Keys |-> 0]
  /\ byID = {}
  /\ ahead = [i \in IDs |-> {}]
  /\ nextAuthID = 0
  /\ closed = FALSE
  /\ now = 1

-----------------------------------------------------------------------------
(* Helpers on the tables.                                                  *)

Expired == {i \in byID : ct[i].expiresAt <= now}

KeysWithout(gone) ==
  [k \in Keys |-> IF \E i \in gone : ct[i].key = k /\ byKey[k] = i
                  THEN 0 ELSE byKey[k]]

OrderWithout(gone) ==
  [i \in IDs |-> IF i \in gone THEN {} ELSE ahead[i] \ gone]

\* list.MoveToBack and list.PushBack on the order o of the conntracks in live.
ToBack_NoUnlink(o, live, i) ==
  [j \in IDs |-> IF j = i THEN live \ {i} ELSE o[j]]
ToBack(o, live, i) ==
  [j \in IDs |-> IF j = i THEN live \ {i} ELSE o[j] \ {i}]

\* removeIndexesLocked for the conntracks in gone.
Unlink_KeepID(gone) ==
  /\ byKey' = KeysWithout(gone)
  /\ byID' = byID
  /\ ahead' = OrderWithout(gone)
Unlink(gone) ==
  /\ byKey' = KeysWithout(gone)
  /\ byID' = byID \ gone
  /\ ahead' = OrderWithout(gone)

\* removeLocked's effect on the conntrack itself.
Settle(r, e) ==
  [r EXCEPT !.pending = NoPackets,
            !.answer = IF @ = "waiting" THEN e ELSE @]

SettleAll(gone, e) ==
  [i \in IDs |-> IF i \in gone THEN Settle(ct[i], e) ELSE ct[i]]

\* removeLocked for the conntracks in gone.
Remove(gone, e) == Unlink(gone) /\ ct' = SettleAll(gone, e)

-----------------------------------------------------------------------------
(* Operations.                                                             *)

\* getOrCreate finds an unexpired conntrack under k.
GetHit(k) ==
  /\ byKey[k] # 0
  /\ byKey[k] \notin Expired
  /\ byKey' = KeysWithout(Expired)
  /\ byID' = byID \ Expired
  /\ ahead' = ToBack(OrderWithout(Expired), byID', byKey[k])
  /\ ct' = SettleAll(Expired, "evicted")
  /\ UNCHANGED <<nextAuthID, closed, now>>

\* The victims of getOrCreate on a miss: what has expired and, if the table
\* is still full, the front of the list.
Victims ==
  Expired \cup
    IF Cardinality(byID \ Expired) >= MaxEntries
    THEN {i \in byID \ Expired : ahead[i] \subseteq Expired} ELSE {}

\* getOrCreate creates a conntrack under k.
GetCreate(k) ==
  LET i == nextAuthID + 1 IN
  /\ ~closed
  /\ nextAuthID < MaxID
  /\ byKey[k] = 0 \/ byKey[k] \in Expired
  /\ nextAuthID' = i
  /\ byKey' = [KeysWithout(Victims) EXCEPT ![k] = i]
  /\ byID' = (byID \ Victims) \cup {i}
  /\ ahead' = ToBack(OrderWithout(Victims), byID', i)
  /\ ct' = [SettleAll(Victims, "evicted") EXCEPT ![i] = Fresh(k)]
  /\ UNCHANGED <<closed, now>>

\* getOrCreate after close(): a conntrack already settled, never indexed.
GetClosed(k) ==
  LET i == nextAuthID + 1 IN
  /\ closed
  /\ nextAuthID < MaxID
  /\ byKey[k] = 0
  /\ nextAuthID' = i
  /\ ct' = [ct EXCEPT ![i] = [Fresh(k) EXCEPT !.answer = "closed"]]
  /\ UNCHANGED <<byKey, byID, ahead, closed, now>>

GetOrCreate(k) == GetHit(k) \/ GetCreate(k) \/ GetClosed(k)

\* The conntrack GetOrCreate(k) returns.
Gotten(k) ==
  IF byKey[k] # 0 /\ byKey[k] \notin Expired THEN byKey[k] ELSE nextAuthID + 1

\* observePacket: a packet of flow k, in either direction, renews the flow for
\* ttl, which the code takes from the flags of a TCP segment.
ObservePacket(k, ttl) ==
  /\ byKey[k] # 0
  /\ ct' = [ct EXCEPT ![byKey[k]].expiresAt = now + ttl]
  /\ ahead' = ToBack(ahead, byID, byKey[k])
  /\ UNCHANGED <<byKey, byID, nextAuthID, closed, now>>

\* What cachePacket returns: "cached" for (true, nil), "full" for
\* errPendingPacketCacheFull, otherwise authErr or errConntrackEvicted
\* ("granted": authErr is nil, the packet is dropped and no error returned).
CacheVerdict(i) ==
  IF byKey[ct[i].key] # i
  THEN IF Waiting(i) THEN "evicted" ELSE ct[i].answer
  ELSE IF ~Waiting(i) THEN ct[i].answer
       ELSE IF Len(ct[i].pending) >= PendingLimit THEN "full" ELSE "cached"

CachePacket(i, p) ==
  /\ CacheVerdict(i) = "cached"
  /\ ct' = [ct EXCEPT ![i].pending = Append(@, p)]
  /\ UNCHANGED <<byKey, byID, ahead, nextAuthID, closed, now>>

\* nextAuthBatch walks the list from the front and takes at most BatchSize.
Eligible ==
  {i \in byID : /\ ct[i].started = 0
                /\ ct[i].pending # NoPackets
                /\ ct[i].retryAt <= now}

Batch == {i \in Eligible : Cardinality(ahead[i] \cap Eligible) < BatchSize}

NextAuthBatch ==
  /\ ct' = [i \in IDs |-> IF i \in Batch
                          THEN [ct[i] EXCEPT !.started = 1] ELSE ct[i]]
  /\ UNCHANGED <<byKey, byID, ahead, nextAuthID, closed, now>>

\* markAuthSent finds a conntrack still waiting for its answer.
MarkAuthSent(i) ==
  /\ i \in byID
  /\ Waiting(i)
  /\ ct' = [ct EXCEPT ![i].deadline = now + AuthTimeout]
  /\ UNCHANGED <<byKey, byID, ahead, nextAuthID, closed, now>>

\* expireAuth: a flow whose deadline has passed goes back to the scheduler,
\* or is removed when its attempts are spent.
Due == {i \in byID : ct[i].deadline # 0 /\ ct[i].deadline <= now}

Spent_OneMore == {i \in Due : ct[i].timeouts + 1 > MaxAttempts}
Spent == {i \in Due : ct[i].timeouts + 1 >= MaxAttempts}

\* One more attempt has timed out.
Charged(r) == [r EXCEPT !.timeouts = @ + 1]

\* Back to the scheduler, not before t.
Rescheduled_Drops(r, t) ==
  [r EXCEPT !.started = 0, !.deadline = 0, !.retryAt = t, !.pending = NoPackets]
Rescheduled_Decrements(r, t) ==
  [r EXCEPT !.started = @ - 1, !.deadline = 0, !.retryAt = t]
Rescheduled_StaysStarted(r, t) == [r EXCEPT !.deadline = 0, !.retryAt = t]
Rescheduled(r, t) ==
  [r EXCEPT !.started = 0, !.deadline = 0, !.retryAt = t]

ExpireAuth ==
  /\ Unlink(Spent)
  /\ ct' = [i \in IDs |->
              IF i \in Spent THEN Settle(Charged(ct[i]), "timeout")
              ELSE IF i \in Due THEN Rescheduled(Charged(ct[i]), now)
              ELSE ct[i]]
  /\ UNCHANGED <<nextAuthID, closed, now>>

\* retryAuth finds a conntrack still waiting for its answer.
RetryAuth(i, delay) ==
  /\ i \in byID
  /\ Waiting(i)
  /\ ct' = [ct EXCEPT ![i] = Rescheduled(@, now + delay)]
  /\ UNCHANGED <<byKey, byID, ahead, nextAuthID, closed, now>>

\* completeAuth finds a conntrack still waiting for its answer.  The packets
\* it returns to the caller are ct[i].pending.
CompleteAuth_StaysIndexed(i, e) ==
  /\ i \in byID
  /\ Waiting(i)
  /\ ct' = [ct EXCEPT ![i] = Settle(@, e)]
  /\ UNCHANGED <<byKey, byID, ahead, nextAuthID, closed, now>>
CompleteAuth_Twice(i, e) ==
  /\ i \in byID
  /\ ct' = [ct EXCEPT ![i].pending = NoPackets, ![i].answer = e]
  /\ IF e = "granted" THEN UNCHANGED <<byKey, byID, ahead>> ELSE Unlink({i})
  /\ UNCHANGED <<nextAuthID, closed, now>>
CompleteAuth(i, e) ==
  /\ i \in byID
  /\ Waiting(i)
  /\ ct' = [ct EXCEPT ![i] = Settle(@, e)]
  /\ IF e = "granted" THEN UNCHANGED <<byKey, byID, ahead>> ELSE Unlink({i})
  /\ UNCHANGED <<nextAuthID, closed, now>>

RemoveExpired ==
  /\ Remove(Expired, "evicted")
  /\ UNCHANGED <<nextAuthID, closed, now>>

CloseMgr ==
  /\ Remove({i \in byID : byKey[ct[i].key] = i}, "closed")
  /\ closed' = TRUE
  /\ UNCHANGED <<nextAuthID, now>>

Tick ==
  /\ now < MaxTime
  /\ now' = now + 1
  /\ UNCHANGED <<ct, byKey, byID, ahead, nextAuthID, closed>>

-----------------------------------------------------------------------------
MgrNext ==
  \/ \E k \in Keys : GetOrCreate(k)
  \/ \E k \in Keys, ttl \in TTLs : ObservePacket(k, ttl)
  \/ \E i \in 1 .. nextAuthID, p \in Packets : CachePacket(i, p)
  \/ NextAuthBatch
  \/ \E i \in 1 .. nextAuthID : MarkAuthSent(i)
  \/ ExpireAuth
  \/ \E i \in 1 .. nextAuthID, delay \in {0, RetryWait} : RetryAuth(i, delay)
  \/ \E i \in 1 .. nextAuthID, e \in Verdicts : CompleteAuth(i, e)
  \/ RemoveExpired
  \/ CloseMgr
  \/ Tick

MgrSpec == MgrInit /\ [][MgrNext]_mgrVars

-----------------------------------------------------------------------------
(* Properties.                                                             *)

\* The tables hold values of their types.
TypeOK ==
  /\ ct \in [IDs -> ConntrackRec]
  /\ byKey \in [Keys -> IDs \cup {0}]
  /\ byID \in SUBSET IDs
  /\ ahead \in [IDs -> SUBSET IDs]
  /\ nextAuthID \in 0 .. MaxID
  /\ closed \in BOOLEAN
  /\ now \in Nat

\* The three indexes name the same conntracks: whatever a key leads to is
\* indexed by its authID and carries that key, and the reverse; nothing is
\* indexed once the table is closed, and no authID is indexed before it is
\* given out.  The code keeps byKey, byID and the list in step by hand in
\* getOrCreate, removeIndexesLocked and close.
IndexesAgree ==
  /\ \A k \in Keys : byKey[k] # 0 =>
        byKey[k] \in byID /\ ct[byKey[k]].key = k
  /\ \A i \in byID : ct[i].key \in Keys /\ byKey[ct[i].key] = i
  /\ \A i \in byID : i <= nextAuthID
  /\ closed => byID = {}

\* The LRU list is a list of exactly the indexed conntracks: its order is a
\* strict total order on them and mentions no other.  getOrCreate and
\* observePacket move a conntrack to the back while others are unlinked.
ListInOrder ==
  /\ \A i \in IDs \ byID : ahead[i] = {}
  /\ \A i \in byID : ahead[i] \subseteq byID \ {i}
  /\ \A i, j \in byID : i # j => i \in ahead[j] \/ j \in ahead[i]
  /\ \A i, j \in byID : i \in ahead[j] => ahead[i] \subseteq ahead[j] \ {i}

\* The table never holds more conntracks than maxEntries, whatever mix of
\* expiry and eviction made room (getOrCreate).
Capacity == Cardinality(byID) <= MaxEntries

\* The list keeps its order and, with it, the table its limit: a table that is full
\* makes room only if its list has a front and the front is indexed (getOrCreate,
\* observePacket, removeExpired).
LRUListOK == ListInOrder /\ Capacity

\* A conntrack and its answer agree: one that has left the table has been
\* answered, so nobody who holds it waits for ever; one that was refused,
\* evicted or timed out has left the table, so no later packet is given it;
\* an answered one holds no packets, so none is stranded in it.
AnswerConsistent ==
  \A i \in 1 .. nextAuthID :
    /\ i \notin byID => ~Waiting(i)
    /\ i \in byID => ct[i].answer \in {"waiting", "granted"}
    /\ ~Waiting(i) => ct[i].pending = NoPackets

\* A flow still in the table has not used up its attempts (expireAuth).
TimeoutBudget == \A i \in byID : ct[i].timeouts < MaxAttempts

\* An answer is given once: no late response, timeout, eviction or close
\* changes the answer of a conntrack that has one, or takes it back.
AnswerIsFinal ==
  [][\A i \in 1 .. nextAuthID :
       ~Waiting(i) => ct'[i].answer = ct[i].answer]_mgrVars

\* What the users of the table rely on is AuthOnce: whoever waits on authCh is
\* answered once, and packets handed to cachePacket are held in order until then.
Promise ==
  INSTANCE AuthOnce WITH
    born <- nextAuthID,
    answer <- [i \in 1 .. nextAuthID |-> ct[i].answer],
    held <- [i \in 1 .. nextAuthID |-> ct[i].pending]

\* The table keeps that promise, through every mix of retries, timeouts,
\* evictions, renewals and close.
AnswersOnce == Promise!Spec

=============================================================================

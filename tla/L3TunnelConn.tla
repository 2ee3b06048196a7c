---------------------------- MODULE L3TunnelConn ----------------------------
(***************************************************************************)
(* The goroutines around one aTrust conntrack table: the callers of        *)
(* L3Tunnel.writePacket, and the authLoop, readLoop and heartbeatLoop of   *)
(* each l3TunnelConn of the node group (client/atrust/l3tunnelconn.go,     *)
(* l3tunnelpacket.go).  The table outlives a connection: a reconnect makes *)
(* a new l3TunnelConn over the same conntrackMgr, and the goroutines of    *)
(* the old one may still be running.                                       *)
(*                                                                         *)
(* One caller writes each flow, one packet at a time; packet n is the n-th *)
(* of its flow.  A step is one critical section of conntrackMgr.mu or one  *)
(* frame written; sendMu is held across steps where the code holds it.     *)
(* The server (external) answers an authentication request at most once,   *)
(* at any time or never, in any order.                                     *)
(***************************************************************************)
EXTENDS Conntrack

CONSTANTS
  MaxConn,   \* bound: connections made in a behaviour
  MaxSeq,    \* bound: packets of a flow
  Twins      \* pairs of flows that differ in their protocol alone

ASSUME L3TunnelConnAssumption ==
  /\ MaxConn \in Nat \ {0} /\ MaxSeq \in Nat /\ Packets = 1 .. MaxSeq
  /\ Twins \subseteq Keys \X Keys

VARIABLES
  cur,      \* connections made so far; the last one is conns[nodeGroupID]
  open,     \* the connections whose Close has not been called
  sendMu,   \* the conntracks whose sendMu is held
  writer,   \* writer[k]: the writePacket call for the current packet of flow k
  auth,     \* auth[c]: the authLoop of connection c
  reader,   \* reader[c]: the readLoop of connection c
  asked,    \* asked[c][i]: requests for conntrack i the server may yet answer
  wire,     \* wire[c][k]: packets of flow k sent on connection c
  home      \* history: home[k][n]: the conntrack packet n was cached or sent for, 0 if none

connVars == <<cur, open, sendMu, writer, auth, reader, asked, wire, home>>
vars == <<mgrVars, connVars>>

Conns == 1 .. MaxConn

\* A readLoop between two frames.
Listening == [pc |-> "read", id |-> 0, answer |-> "waiting", out |-> <<>>]

Init ==
  /\ MgrInit
  /\ cur = 1
  /\ open = {1}
  /\ sendMu = {}
  /\ writer = [k \in Keys |-> [pc |-> "idle", n |-> 0, conn |-> 1, id |-> 0,
                               again |-> FALSE]]
  /\ auth = [c \in Conns |-> [runs |-> TRUE, jobs |-> <<>>, sent |-> FALSE]]
  /\ reader = [c \in Conns |-> Listening]
  /\ asked = [c \in Conns |-> [i \in IDs |-> 0]]
  /\ wire = [c \in Conns |-> [k \in Keys |-> <<>>]]
  /\ home = [k \in Keys |-> [n \in Packets |-> 0]]

-----------------------------------------------------------------------------
(* writePacket and WritePacket.                                            *)

Writing(k, pc) == writer[k].pc = pc

\* The call ends; an error of a closed connection is retried once, on a
\* connection made after this one was evicted and closed.
Return(k) == writer' = [writer EXCEPT ![k].pc = "idle", ![k].again = FALSE]
ReturnClosed(k) ==
  writer' = [writer EXCEPT ![k].pc = IF writer[k].again THEN "idle" ELSE "again",
                           ![k].again = ~@]

\* The error a refused, failed, timed-out, evicted or closed conntrack gives; a
\* request that could not be sent may have found the connection closed.
ReturnError(k, e) ==
  \/ e \in {"closed", "failed"} /\ ReturnClosed(k)
  \/ e # "closed" /\ Return(k)

\* getConn returned connection c some time ago; getOrCreate.
WriteStart(k) ==
  /\ Writing(k, "idle")
  /\ writer[k].n < MaxSeq
  /\ GetOrCreate(k)
  /\ \E c \in writer[k].conn .. cur :
       writer' = [writer EXCEPT ![k] = [pc |-> "observe", n |-> @.n + 1, conn |-> c,
                                        id |-> Gotten(k), again |-> FALSE]]
  /\ UNCHANGED <<cur, open, sendMu, auth, reader, asked, wire, home>>

\* The retry of writePacket, once getConn has a new connection.
WriteAgain(k) ==
  /\ Writing(k, "again")
  /\ GetOrCreate(k)
  /\ \E c \in writer[k].conn + 1 .. cur :
       writer' = [writer EXCEPT ![k].pc = "observe", ![k].conn = c,
                                ![k].id = Gotten(k)]
  /\ UNCHANGED <<cur, open, sendMu, auth, reader, asked, wire, home>>

\* ... or finds the tunnel closed.
WriteGiveUp(k) ==
  /\ Writing(k, "again")
  /\ closed
  /\ Return(k)
  /\ UNCHANGED <<mgrVars, cur, open, sendMu, auth, reader, asked, wire, home>>

WriteObserve(k) ==
  /\ Writing(k, "observe")
  /\ \/ \E ttl \in TTLs : ObservePacket(k, ttl)
     \/ byKey[k] = 0 /\ UNCHANGED mgrVars
  /\ writer' = [writer EXCEPT ![k].pc = "lock"]
  /\ UNCHANGED <<cur, open, sendMu, auth, reader, asked, wire, home>>

\* sendMu.Lock and authResult.
WriteLock_Released(k) ==
  LET i == writer[k].id IN
  /\ Writing(k, "lock")
  /\ i \notin sendMu
  /\ \/ /\ ct[i].answer \in {"waiting", "granted"}
        /\ writer' = [writer EXCEPT ![k].pc = IF Waiting(i) THEN "cache" ELSE "send"]
        /\ UNCHANGED sendMu
     \/ /\ ct[i].answer \notin {"waiting", "granted"}
        /\ ReturnError(k, ct[i].answer)
        /\ UNCHANGED sendMu
  /\ UNCHANGED <<mgrVars, cur, open, auth, reader, asked, wire, home>>
WriteLock(k) ==
  LET i == writer[k].id IN
  /\ Writing(k, "lock")
  /\ i \notin sendMu
  /\ \/ /\ ct[i].answer \in {"waiting", "granted"}
        /\ writer' = [writer EXCEPT ![k].pc = IF Waiting(i) THEN "cache" ELSE "send"]
        /\ sendMu' = sendMu \cup {i}
     \/ /\ ct[i].answer \notin {"waiting", "granted"}
        /\ ReturnError(k, ct[i].answer)
        /\ UNCHANGED sendMu
  /\ UNCHANGED <<mgrVars, cur, open, auth, reader, asked, wire, home>>

\* cachePacket; notifyAuth only makes the authLoop look sooner.
WriteCache(k) ==
  LET i == writer[k].id
      n == writer[k].n IN
  /\ Writing(k, "cache")
  /\ \/ CachePacket(i, n) /\ home' = [home EXCEPT ![k][n] = i]
     \/ CacheVerdict(i) # "cached" /\ UNCHANGED <<mgrVars, home>>
  /\ ReturnError(k, CacheVerdict(i))
  /\ sendMu' = sendMu \ {i}
  /\ UNCHANGED <<cur, open, auth, reader, asked, wire>>

\* writeAuthenticatedPacket
WriteSend(k) ==
  LET c == writer[k].conn IN
  /\ Writing(k, "send")
  /\ c \in open
  /\ wire' = [wire EXCEPT ![c][k] = Append(@, writer[k].n)]
  /\ home' = [home EXCEPT ![k][writer[k].n] = writer[k].id]
  /\ Return(k)
  /\ sendMu' = sendMu \ {writer[k].id}
  /\ UNCHANGED <<mgrVars, cur, open, auth, reader, asked>>

\* ... fails because the connection was closed, or for another reason.
WriteFail(k) ==
  /\ Writing(k, "send")
  /\ \/ writer[k].conn \notin open /\ ReturnClosed(k)
     \/ Return(k)
  /\ sendMu' = sendMu \ {writer[k].id}
  /\ UNCHANGED <<mgrVars, cur, open, auth, reader, asked, wire, home>>

-----------------------------------------------------------------------------
(* authLoop: a tick may come at any time, with or without a wake-up.        *)

Idle(c) == auth[c].runs /\ auth[c].jobs = <<>>

\* nextAuthBatch offers the batch in the order of the list.
BatchSeq ==
  CHOOSE s \in [1 .. Cardinality(Batch) -> Batch] :
    \A x, y \in 1 .. Cardinality(Batch) : x < y => s[x] \in ahead[s[y]]

Dispatch(c) ==
  /\ Idle(c)
  /\ Batch # {}
  /\ NextAuthBatch
  /\ auth' = [auth EXCEPT ![c].jobs = BatchSeq]
  /\ UNCHANGED <<cur, open, sendMu, writer, reader, asked, wire, home>>

Expire(c) ==
  /\ Idle(c)
  /\ ExpireAuth
  /\ UNCHANGED connVars

\* sendAuthRequest
SendAuth(c) ==
  /\ auth[c].jobs # <<>> /\ ~auth[c].sent
  /\ c \in open
  /\ asked' = [asked EXCEPT ![c][Head(auth[c].jobs)] = @ + 1]
  /\ auth' = [auth EXCEPT ![c].sent = TRUE]
  /\ UNCHANGED <<mgrVars, cur, open, sendMu, writer, reader, wire, home>>

\* ... fails: markAuth, Close, and the loop ends with the jobs it still had.
SendAuthFail(c) ==
  LET i == Head(auth[c].jobs) IN
  /\ auth[c].jobs # <<>> /\ ~auth[c].sent
  /\ \/ CompleteAuth(i, "failed")
     \/ ~(i \in byID /\ Waiting(i)) /\ UNCHANGED mgrVars
  /\ open' = open \ {c}
  /\ auth' = [auth EXCEPT ![c] = [runs |-> FALSE, jobs |-> <<>>, sent |-> FALSE]]
  /\ UNCHANGED <<cur, sendMu, writer, reader, asked, wire, home>>

\* markAuthSent, in a critical section of its own after the request is out.
AuthSent(c) ==
  LET i == Head(auth[c].jobs) IN
  /\ auth[c].sent
  /\ \/ MarkAuthSent(i)
     \/ ~(i \in byID /\ Waiting(i)) /\ UNCHANGED mgrVars
  /\ auth' = [auth EXCEPT ![c].jobs = Tail(@), ![c].sent = FALSE]
  /\ UNCHANGED <<cur, open, sendMu, writer, reader, asked, wire, home>>

AuthExit(c) ==
  /\ Idle(c)
  /\ c \notin open
  /\ auth' = [auth EXCEPT ![c].runs = FALSE]
  /\ UNCHANGED <<mgrVars, cur, open, sendMu, writer, reader, asked, wire, home>>

-----------------------------------------------------------------------------
(* readLoop.  Frames already buffered are still handled after Close.        *)

\* The conntracks a response to a request for i may be taken for: getByID,
\* otherwise getByAuthResponseIP, any that has the addresses and ports, whatever
\* its protocol, once cachePacket has given it its meta.
Target(i) ==
  LET alike == {k \in Keys : k = ct[i].key \/ <<k, ct[i].key>> \in Twins} IN
  IF i \in byID THEN {i}
  ELSE {j \in {byKey[k] : k \in alike} \ {0} : ct[j].pending # NoPackets}

\* handleAuthResp: the server is busy and asks to try again after delay.
RespRetry(c, i, delay) ==
  /\ reader[c].pc = "read"
  /\ asked[c][i] > 0
  /\ asked' = [asked EXCEPT ![c][i] = @ - 1]
  /\ \/ \E j \in Target(i) : RetryAuth(j, delay) \/ (~Waiting(j) /\ UNCHANGED mgrVars)
     \/ Target(i) = {} /\ UNCHANGED mgrVars
  /\ UNCHANGED <<cur, open, sendMu, writer, auth, reader, wire, home>>

\* handleAuthResp: the server grants or refuses.
RespFinal(c, i, e) ==
  /\ reader[c].pc = "read"
  /\ asked[c][i] > 0
  /\ asked' = [asked EXCEPT ![c][i] = @ - 1]
  /\ \/ \E j \in Target(i) :
          reader' = [reader EXCEPT ![c] = [Listening EXCEPT !.pc = "complete",
                                                 !.id = j, !.answer = e]]
     \/ Target(i) = {} /\ UNCHANGED reader
  /\ UNCHANGED <<mgrVars, cur, open, sendMu, writer, auth, wire, home>>

\* completeAuthentication takes sendMu and calls completeAuth; it keeps sendMu
\* while it writes the packets that were waiting.
Complete_NoLock(c) ==
  LET i == reader[c].id IN
  /\ reader[c].pc = "complete"
  /\ \/ /\ CompleteAuth(i, reader[c].answer)
        /\ IF reader[c].answer = "granted" /\ ct[i].pending # NoPackets
           THEN reader' = [reader EXCEPT ![c].pc = "flush", ![c].out = ct[i].pending]
           ELSE reader' = [reader EXCEPT ![c] = Listening]
     \/ /\ ~(i \in byID /\ Waiting(i))
        /\ reader' = [reader EXCEPT ![c] = Listening]
        /\ UNCHANGED mgrVars
  /\ UNCHANGED <<cur, open, sendMu, writer, auth, asked, wire, home>>
Complete(c) ==
  LET i == reader[c].id IN
  /\ reader[c].pc = "complete"
  /\ i \notin sendMu
  /\ \/ /\ CompleteAuth(i, reader[c].answer)
        /\ IF reader[c].answer = "granted" /\ ct[i].pending # NoPackets
           THEN /\ reader' = [reader EXCEPT ![c].pc = "flush",
                                            ![c].out = ct[i].pending]
                /\ sendMu' = sendMu \cup {i}
           ELSE reader' = [reader EXCEPT ![c] = Listening] /\ UNCHANGED sendMu
     \/ /\ ~(i \in byID /\ Waiting(i))
        /\ reader' = [reader EXCEPT ![c] = Listening]
        /\ UNCHANGED <<mgrVars, sendMu>>
  /\ UNCHANGED <<cur, open, writer, auth, asked, wire, home>>

Flush_FirstOnly(c) ==
  LET i == reader[c].id IN
  /\ reader[c].pc = "flush"
  /\ c \in open
  /\ wire' = [wire EXCEPT ![c][ct[i].key] = Append(@, Head(reader[c].out))]
  /\ reader' = [reader EXCEPT ![c] = Listening]
  /\ sendMu' = sendMu \ {i}
  /\ UNCHANGED <<mgrVars, cur, open, writer, auth, asked, home>>
Flush(c) ==
  LET i == reader[c].id IN
  /\ reader[c].pc = "flush"
  /\ c \in open
  /\ wire' = [wire EXCEPT ![c][ct[i].key] = Append(@, Head(reader[c].out))]
  /\ IF Len(reader[c].out) > 1
     THEN reader' = [reader EXCEPT ![c].out = Tail(@)] /\ UNCHANGED sendMu
     ELSE reader' = [reader EXCEPT ![c] = Listening] /\ sendMu' = sendMu \ {i}
  /\ UNCHANGED <<mgrVars, cur, open, writer, auth, asked, home>>

\* A packet cannot be written: Close, and the packets left are dropped.
FlushFail_KeepsLock(c) ==
  /\ reader[c].pc = "flush"
  /\ open' = open \ {c}
  /\ reader' = [reader EXCEPT ![c] = Listening]
  /\ UNCHANGED <<mgrVars, sendMu, cur, writer, auth, asked, wire, home>>
FlushFail(c) ==
  /\ reader[c].pc = "flush"
  /\ open' = open \ {c}
  /\ reader' = [reader EXCEPT ![c] = Listening]
  /\ sendMu' = sendMu \ {reader[c].id}
  /\ UNCHANGED <<mgrVars, cur, writer, auth, asked, wire, home>>

\* refreshIncomingConntrack: a packet comes in for a flow of which one was sent.
Incoming(c) ==
  /\ reader[c].pc = "read"
  /\ \E k \in Keys, ttl \in TTLs :
       (\E d \in 1 .. cur : wire[d][k] # <<>>) /\ ObservePacket(k, ttl)
  /\ UNCHANGED connVars

ReadExit(c) ==
  /\ reader[c].pc = "read"
  /\ c \notin open
  /\ reader' = [reader EXCEPT ![c].pc = "exited"]
  /\ UNCHANGED <<mgrVars, cur, open, sendMu, writer, auth, asked, wire, home>>

-----------------------------------------------------------------------------
(* The connections and the table.                                          *)

\* The connection fails, or is evicted from L3Tunnel.conns and closed.
ConnClose(c) ==
  /\ c \in open
  /\ open' = open \ {c}
  /\ UNCHANGED <<mgrVars, cur, sendMu, writer, auth, reader, asked, wire, home>>

\* finishConnect installs a new connection.  evictConn and evictStaleConns have
\* taken the old one out of conns, but they may not have come to close it yet.
Reconnect ==
  /\ cur < MaxConn
  /\ ~closed
  /\ cur' = cur + 1
  /\ open' = open \cup {cur + 1}
  /\ UNCHANGED <<mgrVars, sendMu, writer, auth, reader, asked, wire, home>>

\* heartbeatLoop of some connection.
Housekeep == open # {} /\ RemoveExpired /\ UNCHANGED connVars

\* L3Tunnel.Close closes the connections, then the table.
TunnelClose == open = {} /\ CloseMgr /\ UNCHANGED connVars

Clock == Tick /\ UNCHANGED connVars

-----------------------------------------------------------------------------
WriterNext(k) ==
  WriteStart(k) \/ WriteAgain(k) \/ WriteGiveUp(k) \/ WriteObserve(k)
    \/ WriteLock(k) \/ WriteCache(k) \/ WriteSend(k) \/ WriteFail(k)

AuthNext(c) ==
  Dispatch(c) \/ Expire(c) \/ SendAuth(c) \/ SendAuthFail(c) \/ AuthSent(c)
    \/ AuthExit(c)

Responses(c) ==
  \E i \in 1 .. nextAuthID :
    \/ \E delay \in {0, RetryWait} : RespRetry(c, i, delay)
    \/ \E e \in {"granted", "denied"} : RespFinal(c, i, e)

ReaderNext(c) ==
  Responses(c) \/ Complete(c) \/ Flush(c) \/ FlushFail(c) \/ Incoming(c) \/ ReadExit(c)

Next ==
  \/ \E k \in Keys : WriterNext(k)
  \/ \E c \in 1 .. cur : AuthNext(c) \/ ReaderNext(c) \/ ConnClose(c)
  \/ Reconnect
  \/ Housekeep
  \/ TunnelClose
  \/ Clock

Spec == Init /\ [][Next]_vars

-----------------------------------------------------------------------------
(* Properties.                                                             *)

\* The goroutines in the critical section of conntrack i's sendMu.
Holders(i) ==
  {k \in Keys : writer[k].id = i /\ (Writing(k, "cache") \/ Writing(k, "send"))}
    \cup {c \in Conns : reader[c].pc = "flush" /\ reader[c].id = i}

\* sendMu is held by one goroutine at a time and released on every path out of
\* WritePacket and completeAuthentication, failures included.
OneHolder == \A i \in IDs : Cardinality(Holders(i)) = IF i \in sendMu THEN 1 ELSE 0

\* The types of the goroutines' states, and the discipline of their locks.
ConnTypeOK ==
  /\ TypeOK /\ OneHolder
  /\ cur \in Conns
  /\ open \subseteq 1 .. cur
  /\ sendMu \subseteq IDs
  /\ writer \in [Keys -> [pc : {"idle", "observe", "lock", "cache", "send", "again"},
                          n : 0 .. MaxSeq, conn : Conns, id : IDs \cup {0},
                          again : BOOLEAN]]
  /\ \A c \in Conns : /\ auth[c].jobs \in Seq(IDs)
                      /\ reader[c].pc \in {"read", "complete", "flush", "exited"}
                      /\ reader[c].out \in Seq(Packets)
  /\ asked \in [Conns -> [IDs -> Nat]]
  /\ wire \in [Conns -> [Keys -> Seq(Packets)]]
  /\ home \in [Keys -> [Packets -> IDs \cup {0}]]

\* A packet leaves on a connection at most once, and packets of one conntrack leave
\* in the order they were written, although some are sent by their writer and others
\* by the readLoop that received the grant (WritePacket, completeAuthentication).  So
\* do all packets of a flow until the connection is replaced: after that a response
\* that comes late on the old one may grant the flow's new conntrack while the new
\* one is still sending what waited for the conntrack before.
FlowOrder ==
  \A c \in Conns, k \in Keys :
    \A x, y \in DOMAIN wire[c][k] :
      LET m == wire[c][k][x]
          n == wire[c][k][y] IN
      /\ x # y => m # n
      /\ x < y /\ ((c = 1 /\ cur = 1) \/ home[k][m] = home[k][n]) => m < n

\* A writer that found its conntrack unauthorised never finds it authorised
\* when it comes to cache the packet: cachePacket would return (false, nil)
\* and WritePacket would report success for a packet nobody will send.
NoSilentDrop ==
  \A k \in Keys : Writing(k, "cache") => CacheVerdict(writer[k].id) # "granted"

\* A packet that was accepted to wait for its authorisation waits until the
\* conntrack is answered; once granted, it is sent or about to be sent, unless
\* a connection was lost.
CachedIsSent ==
  \A k \in Keys, n \in Packets :
    LET i == home[k][n] IN
    i # 0 =>
      /\ Waiting(i) => \E x \in DOMAIN ct[i].pending : ct[i].pending[x] = n
      /\ ct[i].answer = "granted" =>
           \/ \E c \in Conns : \E x \in DOMAIN wire[c][k] : wire[c][k][x] = n
           \/ \E c \in Conns : /\ reader[c].pc = "flush" /\ reader[c].id = i
                               /\ \E x \in DOMAIN reader[c].out : reader[c].out[x] = n
           \/ open # 1 .. cur

\* A packet cached for a flow the server then refused, or that was dropped from
\* the table, is not sent, on this connection or a later one.
RefusedNotSent ==
  \A k \in Keys, n \in Packets :
    home[k][n] # 0 /\ ct[home[k][n]].answer \notin {"waiting", "granted"} =>
      \A c \in Conns : \A x \in DOMAIN wire[c][k] : wire[c][k][x] # n

\* What the server answers is what happens to the packets that waited for it: those
\* of a granted flow are sent and those of any other are not (completeAuthentication).
AnswerObeyed == CachedIsSent /\ RefusedNotSent

\* Every conntrack with packets waiting is in somebody's care: it is offered to
\* the next batch, has a deadline, or is a job of a running authLoop
\* (nextAuthBatch, markAuthSent, expireAuth, retryAuth).
NobodyForgotten ==
  \A i \in byID :
    ct[i].pending # NoPackets =>
      \/ ct[i].started = 0
      \/ ct[i].deadline # 0
      \/ \E c \in Conns : \E x \in DOMAIN auth[c].jobs : auth[c].jobs[x] = i

\* It is so as long as no connection is lost.
CaredFor == open = 1 .. cur => NobodyForgotten

\* Running out of attempts ends pending authentications only: it never takes a
\* flow that is authorised (expireAuth).
GrantedSurvivesExpire ==
  [][\A c \in Conns : Expire(c) =>
       \A i \in byID : ct[i].answer = "granted" => i \in byID']_vars
=============================================================================

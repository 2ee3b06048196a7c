------------------------------ MODULE L3Tunnel ------------------------------
(***************************************************************************)
(* The connection of one node group of the aTrust layer-3 tunnel           *)
(* (client/atrust/l3tunnel.go, l3tunnelpacket.go, node.go): how callers    *)
(* share one connection attempt, how a connection that failed or is no     *)
(* longer to the best node is evicted and replaced, and how Close ends it  *)
(* all.  Node groups share only connsMu and closeCh, so one is modelled.   *)
(*                                                                         *)
(* A step is one critical section of connsMu, one channel operation or one *)
(* call that blocks.  Connections are numbered in the order they are made; *)
(* what is written on them is the subject of L3TunnelConn.                 *)
(***************************************************************************)
EXTENDS Integers, FiniteSets

CONSTANTS
  Nodes,     \* node addresses
  Callers,   \* goroutines that call writePacket
  MaxConn,   \* bound: connections made in a behaviour
  MaxDial,   \* bound: connectWithRetry goroutines at a time
  QueueCap   \* capacity of dataChan

ASSUME L3TunnelAssumption ==
  /\ Nodes # {}
  /\ MaxConn \in Nat \ {0} /\ MaxDial \in Nat \ {0} /\ QueueCap \in Nat \ {0}

VARIABLES
  conns,       \* conns[nodeGroupID]: the connection in use, 0 if none
  connecting,  \* connecting[nodeGroupID]: the goroutine dialling, 0 if none
  dialer,      \* dialer[d]: a connectWithRetry goroutine and its call
  made,        \* connections made so far
  open,        \* the connections whose closeCh is open
  addr,        \* addr[c]: the node connection c was made to
  doomed,      \* connections taken out of conns, whose Close is still to come
  fwd,         \* fwd[c]: the forwardFromConn goroutine of connection c
  queue,       \* packets in dataChan
  caller,      \* caller[x]: the writePacket call of x
  best,        \* BestNodes[nodeGroupID]
  updating,    \* updateBestNodes: "rest", "probe", "evict"
  closing      \* Close: "no", "closed" (closeCh closed), "done"

vars == <<conns, connecting, dialer, made, open, addr, doomed, fwd, queue,
          caller, best, updating, closing>>

Conns == 1 .. MaxConn
Dialers == 1 .. MaxDial
Closed == closing # "no"          \* closeCh is closed

NoDialer == [pc |-> "none", conn |-> 0, addr |-> CHOOSE n \in Nodes : TRUE]
Resting == [pc |-> "idle", conn |-> 0, call |-> 0, again |-> FALSE]

Init ==
  /\ conns = 0
  /\ connecting = 0
  /\ dialer = [d \in Dialers |-> NoDialer]
  /\ made = 0
  /\ open = {}
  /\ addr \in [Conns -> {CHOOSE n \in Nodes : TRUE}]
  /\ doomed = {}
  /\ fwd = [c \in Conns |-> "none"]
  /\ queue = 0
  /\ caller = [x \in Callers |-> Resting]
  /\ best \in Nodes
  /\ updating = "rest"
  /\ closing = "no"

-----------------------------------------------------------------------------
(* Shared by several goroutines.                                           *)

Free(d) == dialer[d].pc = "none"

\* A connectWithRetry goroutine starts: dialling at once, or after the interval.
StartDial(pc) ==
  \E d \in Dialers :
    /\ Free(d)
    /\ \A e \in Dialers : e < d => ~Free(e)
    /\ connecting' = d
    /\ dialer' = [dialer EXCEPT ![d].pc = pc]

\* evictConn
Evict(c) ==
  IF conns = c
  THEN conns' = 0 /\ doomed' = doomed \cup {c}
  ELSE UNCHANGED <<conns, doomed>>

\* The critical section of startReconnect.
Reconnect_Always == StartDial("wait")
Reconnect ==
  IF conns # 0 \/ connecting # 0
  THEN UNCHANGED <<connecting, dialer>>
  ELSE StartDial("wait")

-----------------------------------------------------------------------------
(* writePacket.                                                            *)

At(x, pc) == caller[x].pc = pc
Goto(x, pc) == caller' = [caller EXCEPT ![x].pc = pc]
CallEnds(x) == caller' = [caller EXCEPT ![x] = Resting]

Begin(x) ==
  /\ At(x, "idle")
  /\ Goto(x, "get")
  /\ UNCHANGED <<conns, connecting, dialer, made, open, addr, doomed, fwd, queue,
                 best, updating, closing>>

\* getConn: use the connection, share the attempt under way, or start one.
GetConn(x) ==
  /\ At(x, "get")
  /\ \/ /\ conns # 0
        /\ caller' = [caller EXCEPT ![x].pc = "write", ![x].conn = conns]
        /\ UNCHANGED <<connecting, dialer>>
     \/ /\ conns = 0 /\ connecting # 0
        /\ caller' = [caller EXCEPT ![x].pc = "await", ![x].call = connecting]
        /\ UNCHANGED <<connecting, dialer>>
     \/ /\ conns = 0 /\ connecting = 0
        /\ StartDial("dial")
        /\ caller' = [caller EXCEPT ![x].pc = "await", ![x].call = connecting']
  /\ UNCHANGED <<conns, made, open, addr, doomed, fwd, queue, best, updating, closing>>

\* waitConnectCall sees the tunnel closed: the packet is dropped, after a last
\* evictConn and startReconnect if this was the retry.
AwaitClosed_Again(x) ==
  /\ At(x, "await")
  /\ Closed
  /\ caller' = [caller EXCEPT ![x].pc = "get", ![x].call = 0]
  /\ UNCHANGED <<conns, connecting, dialer, made, open, addr, doomed, fwd, queue,
                 best, updating, closing>>
AwaitClosed(x) ==
  /\ At(x, "await")
  /\ Closed
  /\ IF caller[x].again
     THEN caller' = [caller EXCEPT ![x].pc = "evict", ![x].call = 0]
     ELSE CallEnds(x)
  /\ UNCHANGED <<conns, connecting, dialer, made, open, addr, doomed, fwd, queue,
                 best, updating, closing>>

\* WritePacket: the packet is sent, kept for its flow's answer, also on a closed
\* connection, or refused. The error of a closed connection, which a flow may have
\* from the one before, leads to evictConn and startReconnect.
Write(x) ==
  /\ At(x, "write")
  /\ CallEnds(x) \/ Goto(x, "evict")
  /\ UNCHANGED <<conns, connecting, dialer, made, open, addr, doomed, fwd, queue,
                 best, updating, closing>>

CallerEvict(x) ==
  /\ At(x, "evict")
  /\ Evict(caller[x].conn)
  /\ Goto(x, "check")
  /\ UNCHANGED <<connecting, dialer, made, open, addr, fwd, queue, best, updating,
                 closing>>

\* What comes after startReconnect: getConn once more, or the end.
AfterReconnect(x) ==
  IF caller[x].again THEN CallEnds(x)
  ELSE caller' = [caller EXCEPT ![x].pc = "get", ![x].again = TRUE]

\* startReconnect looks at closeCh before it takes connsMu.
CallerCheck(x) ==
  /\ At(x, "check")
  /\ IF Closed THEN AfterReconnect(x) ELSE Goto(x, "reconnect")
  /\ UNCHANGED <<conns, connecting, dialer, made, open, addr, doomed, fwd, queue,
                 best, updating, closing>>

CallerReconnect(x) ==
  /\ At(x, "reconnect")
  /\ Reconnect
  /\ AfterReconnect(x)
  /\ UNCHANGED <<conns, made, open, addr, doomed, fwd, queue, best, updating, closing>>

CallerStep(x) ==
  GetConn(x) \/ AwaitClosed(x) \/ Write(x) \/ CallerEvict(x) \/ CallerCheck(x)
    \/ CallerReconnect(x)

-----------------------------------------------------------------------------
(* connectWithRetry.                                                       *)

\* The interval is over.
DialTimer(d) ==
  /\ dialer[d].pc = "wait"
  /\ dialer' = [dialer EXCEPT ![d].pc = "dial"]
  /\ UNCHANGED <<conns, connecting, made, open, addr, doomed, fwd, queue, caller,
                 best, updating, closing>>

\* The tunnel is closed while waiting for it.
DialClosed(d) ==
  /\ dialer[d].pc = "wait"
  /\ Closed
  /\ dialer' = [dialer EXCEPT ![d].pc = "finish"]
  /\ UNCHANGED <<conns, connecting, made, open, addr, doomed, fwd, queue, caller,
                 best, updating, closing>>

\* connectConn reads BestNodes and gets the conntrack table, unless closed.
DialStart(d) ==
  /\ dialer[d].pc = "dial"
  /\ dialer' = [dialer EXCEPT ![d].pc = IF Closed THEN "wait" ELSE "connect",
                              ![d].addr = best]
  /\ UNCHANGED <<conns, connecting, made, open, addr, doomed, fwd, queue, caller,
                 best, updating, closing>>

DialFails(d) ==
  /\ dialer[d].pc = "connect"
  /\ dialer' = [dialer EXCEPT ![d].pc = "wait"]
  /\ UNCHANGED <<conns, connecting, made, open, addr, doomed, fwd, queue, caller,
                 best, updating, closing>>

DialSucceeds(d) ==
  /\ dialer[d].pc = "connect"
  /\ made < MaxConn
  /\ made' = made + 1
  /\ open' = open \cup {made'}
  /\ addr' = [addr EXCEPT ![made'] = dialer[d].addr]
  /\ dialer' = [dialer EXCEPT ![d].pc = "finish", ![d].conn = made']
  /\ UNCHANGED <<conns, connecting, doomed, fwd, queue, caller, best, updating, closing>>

\* finishConnect: the connection is installed and forwarded from, or closed if
\* the tunnel is; the callers sharing the attempt get its result.
FinishConnect_NoCheck(d) ==
  LET c == dialer[d].conn IN
  /\ dialer[d].pc = "finish"
  /\ connecting' = 0
  /\ conns' = c
  /\ fwd' = IF c # 0 THEN [fwd EXCEPT ![c] = "read"] ELSE fwd
  /\ caller' = [x \in Callers |->
       IF caller[x].call = d
       THEN [caller[x] EXCEPT !.pc = "write", !.conn = c, !.call = 0]
       ELSE caller[x]]
  /\ dialer' = [dialer EXCEPT ![d] = NoDialer]
  /\ UNCHANGED <<made, open, addr, doomed, queue, best, updating, closing>>
FinishConnect(d) ==
  LET c == dialer[d].conn
      ok == c # 0 /\ connecting = d /\ ~Closed IN
  /\ dialer[d].pc = "finish"
  /\ connecting' = IF connecting = d THEN 0 ELSE connecting
  /\ conns' = IF ok THEN c ELSE conns
  /\ fwd' = IF ok THEN [fwd EXCEPT ![c] = "read"] ELSE fwd
  /\ doomed' = IF c # 0 /\ ~ok THEN doomed \cup {c} ELSE doomed
  /\ caller' = [x \in Callers |->
       IF caller[x].call # d \/ connecting # d THEN caller[x]
       ELSE IF ok THEN [caller[x] EXCEPT !.pc = "write", !.conn = c, !.call = 0]
       ELSE IF caller[x].again THEN [caller[x] EXCEPT !.pc = "evict", !.call = 0]
       ELSE Resting]
  /\ dialer' = [dialer EXCEPT ![d] = NoDialer]
  /\ UNCHANGED <<made, open, addr, queue, best, updating, closing>>

DialStep(d) ==
  DialTimer(d) \/ DialClosed(d) \/ DialStart(d) \/ DialFails(d) \/ DialSucceeds(d)
    \/ FinishConnect(d)

-----------------------------------------------------------------------------
(* forwardFromConn.                                                        *)

\* ReadPacket has a packet, which may have come before the connection closed ...
FwdRead(c) ==
  /\ fwd[c] = "read"
  /\ fwd' = [fwd EXCEPT ![c] = "push"]
  /\ UNCHANGED <<conns, connecting, dialer, made, open, addr, doomed, queue, caller,
                 best, updating, closing>>

\* ... or io.EOF.
FwdEOF(c) ==
  /\ fwd[c] = "read"
  /\ c \notin open
  /\ fwd' = [fwd EXCEPT ![c] = "evict"]
  /\ UNCHANGED <<conns, connecting, dialer, made, open, addr, doomed, queue, caller,
                 best, updating, closing>>

FwdPush_Unbounded(c) ==
  /\ fwd[c] = "push"
  /\ queue' = queue + 1
  /\ fwd' = [fwd EXCEPT ![c] = "read"]
  /\ UNCHANGED <<conns, connecting, dialer, made, open, addr, doomed, caller, best,
                 updating, closing>>
FwdPush(c) ==
  /\ fwd[c] = "push"
  /\ queue < QueueCap
  /\ queue' = queue + 1
  /\ fwd' = [fwd EXCEPT ![c] = "read"]
  /\ UNCHANGED <<conns, connecting, dialer, made, open, addr, doomed, caller, best,
                 updating, closing>>

\* The select in the loop may see closeCh or conn.closeCh, and returns.
FwdQuit(c) ==
  /\ fwd[c] = "push"
  /\ Closed \/ c \notin open
  /\ fwd' = [fwd EXCEPT ![c] = "done"]
  /\ UNCHANGED <<conns, connecting, dialer, made, open, addr, doomed, queue, caller,
                 best, updating, closing>>

FwdEvict(c) ==
  /\ fwd[c] = "evict"
  /\ Evict(c)
  /\ fwd' = [fwd EXCEPT ![c] = "check"]
  /\ UNCHANGED <<connecting, dialer, made, open, addr, queue, caller, best, updating,
                 closing>>

FwdCheck(c) ==
  /\ fwd[c] = "check"
  /\ fwd' = [fwd EXCEPT ![c] = IF Closed THEN "done" ELSE "reconnect"]
  /\ UNCHANGED <<conns, connecting, dialer, made, open, addr, doomed, queue, caller,
                 best, updating, closing>>

FwdReconnect(c) ==
  /\ fwd[c] = "reconnect"
  /\ Reconnect
  /\ fwd' = [fwd EXCEPT ![c] = "done"]
  /\ UNCHANGED <<conns, made, open, addr, doomed, queue, caller, best, updating, closing>>

\* What forwardFromConn does by itself; FwdRead depends on the server.
FwdStep(c) ==
  FwdEOF(c) \/ FwdPush(c) \/ FwdQuit(c) \/ FwdEvict(c) \/ FwdCheck(c) \/ FwdReconnect(c)

-----------------------------------------------------------------------------
(* The other goroutines.                                                   *)

\* The reader of the tunnel takes a packet from dataChan.
TakePacket ==
  /\ queue > 0
  /\ queue' = queue - 1
  /\ UNCHANGED <<conns, connecting, dialer, made, open, addr, doomed, fwd, caller,
                 best, updating, closing>>

\* The goroutine that took a connection out of conns closes it.
CloseDoomed(c) ==
  /\ c \in doomed
  /\ doomed' = doomed \ {c}
  /\ open' = open \ {c}
  /\ UNCHANGED <<conns, connecting, dialer, made, addr, fwd, queue, caller, best,
                 updating, closing>>

\* The network, the server or the heartbeat ends a connection.
ConnFails(c) ==
  /\ c \in open
  /\ open' = open \ {c}
  /\ UNCHANGED <<conns, connecting, dialer, made, addr, doomed, fwd, queue, caller,
                 best, updating, closing>>

\* updateBestNodes: the ticker; the probes' result; evictStaleConns.
ProbeBegins ==
  /\ updating = "rest"
  /\ updating' = "probe"
  /\ UNCHANGED <<conns, connecting, dialer, made, open, addr, doomed, fwd, queue,
                 caller, best, closing>>

NewBest_OnlyIfChanged(n) ==
  /\ updating = "probe"
  /\ best' = n
  /\ updating' = IF n = best THEN "rest" ELSE "evict"
  /\ UNCHANGED <<conns, connecting, dialer, made, open, addr, doomed, fwd, queue,
                 caller, closing>>
NewBest(n) ==
  /\ updating = "probe"
  /\ best' = n
  /\ updating' = "evict"
  /\ UNCHANGED <<conns, connecting, dialer, made, open, addr, doomed, fwd, queue,
                 caller, closing>>

EvictStale ==
  /\ updating = "evict"
  /\ updating' = "rest"
  /\ IF conns # 0 /\ addr[conns] # best THEN Evict(conns) ELSE UNCHANGED <<conns, doomed>>
  /\ UNCHANGED <<connecting, dialer, made, open, addr, fwd, queue, caller, best,
                 closing>>

\* Close closes closeCh, then empties conns under connsMu and closes what it held.
CloseBegin ==
  /\ closing = "no"
  /\ closing' = "closed"
  /\ UNCHANGED <<conns, connecting, dialer, made, open, addr, doomed, fwd, queue,
                 caller, best, updating>>

CloseConns ==
  /\ closing = "closed"
  /\ closing' = "done"
  /\ IF conns # 0 THEN Evict(conns) ELSE UNCHANGED <<conns, doomed>>
  /\ UNCHANGED <<connecting, dialer, made, open, addr, fwd, queue, caller, best,
                 updating>>

-----------------------------------------------------------------------------
Next ==
  \/ \E x \in Callers : Begin(x) \/ CallerStep(x)
  \/ \E d \in Dialers : DialStep(d)
  \/ \E c \in Conns : FwdRead(c) \/ FwdStep(c) \/ CloseDoomed(c) \/ ConnFails(c)
  \/ TakePacket
  \/ ProbeBegins
  \/ \E n \in Nodes : NewBest(n)
  \/ EvictStale
  \/ CloseBegin
  \/ CloseConns

Spec == Init /\ [][Next]_vars

\* Goroutines that can run do; the reader of the tunnel reads; the nodes are
\* probed again and again, and the result of the last probe may come back; an
\* attempt ends one way or the other.  Nothing makes a packet arrive, a caller
\* call, a connection fail, an attempt succeed or the user close the tunnel.
Fairness ==
  /\ \A x \in Callers : WF_vars(CallerStep(x))
  /\ \A d \in Dialers : WF_vars(DialStep(d))
  /\ \A d \in Dialers : SF_vars(DialClosed(d))
  /\ \A c \in Conns : WF_vars(FwdStep(c)) /\ SF_vars(FwdEOF(c) \/ FwdQuit(c))
                        /\ WF_vars(CloseDoomed(c))
  /\ WF_vars(TakePacket)
  /\ WF_vars(ProbeBegins \/ (\E n \in Nodes : NewBest(n)) \/ EvictStale)
  /\ WF_vars(CloseConns)

FairSpec == Spec /\ Fairness

-----------------------------------------------------------------------------
(* Properties.                                                             *)

\* The types of the tunnel's state.
TypeOK ==
  /\ conns \in Conns \cup {0}
  /\ connecting \in Dialers \cup {0}
  /\ dialer \in [Dialers -> [pc : {"none", "wait", "dial", "connect", "finish"},
                             conn : Conns \cup {0}, addr : Nodes]]
  /\ made \in 0 .. MaxConn
  /\ open \subseteq Conns /\ doomed \subseteq Conns
  /\ addr \in [Conns -> Nodes]
  /\ fwd \in [Conns -> {"none", "read", "push", "evict", "check", "reconnect", "done"}]
  /\ queue \in 0 .. QueueCap
  /\ caller \in [Callers -> [pc : {"idle", "get", "await", "write", "evict", "check",
                                   "reconnect"},
                             conn : Conns \cup {0}, call : Dialers \cup {0},
                             again : BOOLEAN]]
  /\ best \in Nodes
  /\ updating \in {"rest", "probe", "evict"}
  /\ closing \in {"no", "closed", "done"}

\* At most one goroutine is connecting at any time, it is the one callers
\* wait for, and no connection is in use meanwhile: getConn, startReconnect and
\* finishConnect never make two connections compete.
SingleFlight ==
  /\ \A d \in Dialers : dialer[d].pc # "none" <=> connecting = d
  /\ connecting # 0 => conns = 0
  /\ \A x \in Callers : At(x, "await") => caller[x].call = connecting

\* Somebody is responsible for every open connection: it is the one in use, or
\* the goroutine that made it or took it out of conns is about to deal with it.
\* Once Close has emptied conns nothing is put there again.
NoLeak ==
  /\ \A c \in open : c = conns \/ c \in doomed \/ \E d \in Dialers : dialer[d].conn = c
  /\ closing = "done" => conns = 0

\* Close ends everything: every connection is closed for good, every forwarder
\* returns, every attempt to connect stops (closeCh), and every call in progress
\* returns.
CloseEnds ==
  /\ Closed ~> [](open = {} /\ \A c \in Conns : fwd[c] \in {"none", "done"})
  /\ \A x \in Callers : (Closed /\ ~At(x, "idle")) ~> At(x, "idle")

\* A connection to a node that is no longer the best is given up, unless the
\* node becomes the best again, even if the probe's result came while the
\* connection was being made (updateBestNodes, evictStaleConns).
StaleGoes ==
  \A c \in Conns, n \in Nodes :
    (conns = c /\ addr[c] # n /\ best = n) ~> (conns # c \/ best # n)

\* A connection that failed is taken out of use (forwardFromConn).
DeadGoes == \A c \in Conns : (conns = c /\ c \notin open) ~> conns # c

=============================================================================

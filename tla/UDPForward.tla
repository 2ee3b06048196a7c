----------------------------- MODULE UDPForward -----------------------------
(***************************************************************************)
(* UDP port forwarding (service/udp_forwarding.go, type UDPForward): one   *)
(* listener, one UDPConnection with a bounded queue per source address, a  *)
(* table of them with a limit and a least-recently-used order, one budget  *)
(* for the bytes in all queues, a janitor and Close.                       *)
(*                                                                         *)
(* A step is one critical section of connectionsMutex, sendMu or udpMu, one*)
(* channel operation or one call that blocks.  Every datagram takes one    *)
(* unit of the budget, as each takes one buffer in the code.               *)
(***************************************************************************)
EXTENDS Integers, FiniteSets, SequencesExt

CONSTANTS
  Sources,    \* source addresses
  NoSource,   \* no address
  MaxMade,    \* bound: connections made in a behaviour
  MaxConns,   \* maxConnections
  QueueCap,   \* udpForwardQueueSize
  Budget      \* maxQueuedBytes, in datagrams

ASSUME UDPForwardAssumption ==
  /\ NoSource \notin Sources
  /\ {MaxMade, MaxConns, QueueCap, Budget} \subseteq Nat \ {0}

VARIABLES
  connections,  \* connections[a]: the connection of source a, 0 if none
  lru,          \* connectionLRU: connections, by their lruElement, oldest first
  made,         \* connections made so far
  conn,         \* conn[c]: connection c and its goroutines
  doomed,       \* connections somebody is about to close
  queued,       \* queuedBytes
  listener,     \* the goroutine of startUDPForward
  stopping      \* Close: "no", "cancelled", "deaf" (listener closed), "swept"

vars == <<connections, lru, made, conn, doomed, queued, listener, stopping>>

IDs == 1 .. MaxMade

\* run is the goroutine of runConnection, resp that of forwardResponses; shut
\* tells how far close() has got.
Unused == [source |-> NoSource, run |-> "none", resp |-> "none", udp |-> "none",
           queue |-> 0, shut |-> "no"]

Listening == [pc |-> "read", source |-> NoSource, id |-> 0, victim |-> 0]

Init ==
  /\ connections = [a \in Sources |-> 0]
  /\ lru = <<>>
  /\ made = 0
  /\ conn = [c \in IDs |-> Unused]
  /\ doomed = {}
  /\ queued = 0
  /\ listener = Listening
  /\ stopping = "no"

Live == {c \in IDs : \E a \in Sources : connections[a] = c}
Cancelled(c) == conn[c].shut # "no" \/ stopping # "no"
Runs(c, pc) == conn[c].run = pc
Goto(c, pc) == conn' = [conn EXCEPT ![c].run = pc]

-----------------------------------------------------------------------------
(* The listener.                                                           *)

\* ReadFromUDP and reserveDatagram; a datagram over the budget is dropped.
Receive(a) ==
  /\ listener.pc = "read"
  /\ stopping \in {"no", "cancelled"}
  /\ made < MaxMade
  /\ queued < Budget
  /\ queued' = queued + 1
  /\ listener' = [listener EXCEPT !.pc = "get", !.source = a]
  /\ UNCHANGED <<connections, lru, made, conn, doomed, stopping>>

\* The list when connection c has no element in it any more.
Without(c) ==
  IF c \in ToSet(lru) THEN RemoveAt(lru, CHOOSE i \in DOMAIN lru : lru[i] = c) ELSE lru

\* markConnectionActiveLocked: the element of c goes to the back, a new one if c has none.
Touched(c) == Append(Without(c), c)

\* getOrCreateConnection finds the connection of the source.
GetHit ==
  LET c == connections[listener.source] IN
  /\ listener.pc = "get"
  /\ c # 0
  /\ lru' = Touched(c)
  /\ listener' = [Listening EXCEPT !.pc = "enqueue", !.id = c]
  /\ UNCHANGED <<connections, made, conn, doomed, queued, stopping>>

\* makeRoomForConnectionLocked: the connection to evict, 0 if there is room.
Victim ==
  IF Cardinality(Live) < MaxConns \/ lru = <<>> THEN 0 ELSE Head(lru)

\* ... or makes one.  The victim leaves the table now and is closed afterwards.
GetCreate ==
  LET a == listener.source
      c == made + 1
      v == Victim IN
  /\ listener.pc = "get"
  /\ connections[a] = 0
  /\ made' = c
  /\ connections' = [b \in Sources |->
       IF b = a THEN c
       ELSE IF v # 0 /\ b = conn[v].source THEN 0 ELSE connections[b]]
  /\ lru' = Append(IF v = 0 THEN lru ELSE Tail(lru), c)
  /\ conn' = [conn EXCEPT ![c].source = a, ![c].run = "dial"]
  /\ doomed' = IF v = 0 THEN doomed ELSE doomed \cup {v}
  /\ listener' = [Listening EXCEPT !.pc = "evict", !.id = c, !.victim = v]
  /\ UNCHANGED <<queued, stopping>>

\* evicted.close() has returned.
Evicted ==
  /\ listener.pc = "evict"
  /\ listener.victim # 0 => conn[listener.victim].shut = "done"
  /\ listener' = [listener EXCEPT !.pc = "enqueue", !.victim = 0]
  /\ UNCHANGED <<connections, lru, made, conn, doomed, queued, stopping>>

\* enqueue; a datagram that is refused is released.
Enqueue_EvenClosed ==
  LET c == listener.id IN
  /\ listener.pc = "enqueue"
  /\ IF conn[c].queue < QueueCap
     THEN conn' = [conn EXCEPT ![c].queue = @ + 1] /\ UNCHANGED queued
     ELSE queued' = queued - 1 /\ UNCHANGED conn
  /\ listener' = Listening
  /\ UNCHANGED <<connections, lru, made, doomed, stopping>>
Enqueue ==
  LET c == listener.id IN
  /\ listener.pc = "enqueue"
  /\ IF conn[c].shut = "no" /\ conn[c].queue < QueueCap
     THEN conn' = [conn EXCEPT ![c].queue = @ + 1] /\ UNCHANGED queued
     ELSE queued' = queued - 1 /\ UNCHANGED conn
  /\ listener' = Listening
  /\ UNCHANGED <<connections, lru, made, doomed, stopping>>

\* The listener is closed, or fails; startUDPForward then calls Close itself.
ListenEnds ==
  /\ listener.pc = "read"
  /\ listener' = [Listening EXCEPT !.pc = "closing"]
  /\ stopping' = IF stopping = "no" THEN "cancelled" ELSE stopping
  /\ UNCHANGED <<connections, lru, made, conn, doomed, queued>>

\* wg.Wait returns.
AllDone ==
  /\ listener.pc = "closing"
  /\ stopping = "swept" /\ doomed = {}
  /\ \A c \in 1 .. made : Runs(c, "done")
  /\ listener' = [listener EXCEPT !.pc = "done"]
  /\ UNCHANGED <<connections, lru, made, conn, doomed, queued, stopping>>

ListenerStep == GetHit \/ GetCreate \/ Evicted \/ Enqueue \/ AllDone

-----------------------------------------------------------------------------
(* UDPConnection.close, by whoever comes first; the others wait for it.    *)

ToClose(c) == c \in doomed \/ Runs(c, "close") \/ Runs(c, "quit")

MarkClosed(c) ==
  /\ ToClose(c)
  /\ conn[c].shut = "no"
  /\ conn' = [conn EXCEPT ![c].shut = "closed"]
  /\ UNCHANGED <<connections, lru, made, doomed, queued, listener, stopping>>

CloseUDP_AfterReader(c) ==
  /\ conn[c].shut = "closed" /\ conn[c].resp # "read"
  /\ conn' = [conn EXCEPT ![c].shut = "done",
                          ![c].udp = IF @ = "open" THEN "closed" ELSE @]
  /\ UNCHANGED <<connections, lru, made, doomed, queued, listener, stopping>>
CloseUDP(c) ==
  /\ conn[c].shut = "closed"
  /\ conn' = [conn EXCEPT ![c].shut = "done",
                          ![c].udp = IF @ = "open" THEN "closed" ELSE @]
  /\ UNCHANGED <<connections, lru, made, doomed, queued, listener, stopping>>

CloseReturns(c) ==
  /\ c \in doomed
  /\ conn[c].shut = "done"
  /\ doomed' = doomed \ {c}
  /\ UNCHANGED <<connections, lru, made, conn, queued, listener, stopping>>

CloseStep(c) == MarkClosed(c) \/ CloseUDP(c) \/ CloseReturns(c)

-----------------------------------------------------------------------------
(* runConnection.                                                          *)

\* DialUDP, which a cancelled context ends.
Dial(c) ==
  /\ Runs(c, "dial")
  /\ \/ Goto(c, "set")
     \/ Goto(c, "quit")
  /\ UNCHANGED <<connections, lru, made, doomed, queued, listener, stopping>>

\* setUDP: the new socket is closed at once if the connection is.
SetUDP_NoCheck(c) ==
  /\ Runs(c, "set")
  /\ conn' = [conn EXCEPT ![c].run = "loop", ![c].udp = "open", ![c].resp = "read"]
  /\ UNCHANGED <<connections, lru, made, doomed, queued, listener, stopping>>
SetUDP(c) ==
  /\ Runs(c, "set")
  /\ IF Cancelled(c)
     THEN Goto(c, "quit")
     ELSE conn' = [conn EXCEPT ![c].run = "loop", ![c].udp = "open",
                               ![c].resp = "read"]
  /\ UNCHANGED <<connections, lru, made, doomed, queued, listener, stopping>>

\* The loop takes a datagram ...
Take(c) ==
  /\ Runs(c, "loop")
  /\ conn[c].queue > 0
  /\ conn' = [conn EXCEPT ![c].run = "write", ![c].queue = @ - 1]
  /\ UNCHANGED <<connections, lru, made, doomed, queued, listener, stopping>>

\* ... writes and releases it; a failed write ends the loop.
WriteDatagram(c) ==
  /\ Runs(c, "write")
  /\ queued' = queued - 1
  /\ \/ Goto(c, "loop")
     \/ Goto(c, "close")
  /\ UNCHANGED <<connections, lru, made, doomed, listener, stopping>>

\* ... or ends because the responses or the context have.
LoopEnds(c) ==
  /\ Runs(c, "loop")
  /\ Cancelled(c) \/ conn[c].resp = "done"
  /\ Goto(c, "close")
  /\ UNCHANGED <<connections, lru, made, doomed, queued, listener, stopping>>

\* The inner deferred function: close, then wait for forwardResponses.
AwaitResponses(c) ==
  /\ Runs(c, "close")
  /\ conn[c].shut = "done" /\ conn[c].resp = "done"
  /\ Goto(c, "quit")
  /\ UNCHANGED <<connections, lru, made, doomed, queued, listener, stopping>>

\* The outer one: close, removeConnection ...
RemoveConnection(c) ==
  /\ Runs(c, "quit")
  /\ conn[c].shut = "done"
  /\ IF connections[conn[c].source] = c
     THEN /\ connections' = [connections EXCEPT ![conn[c].source] = 0]
          /\ lru' = Without(c)
     ELSE UNCHANGED <<connections, lru>>
  /\ Goto(c, "drain")
  /\ UNCHANGED <<made, doomed, queued, listener, stopping>>

\* ... and release what is left in the queue.
Drain_NoRelease(c) ==
  /\ Runs(c, "drain")
  /\ conn' = [conn EXCEPT ![c].run = "done", ![c].queue = 0]
  /\ UNCHANGED <<connections, lru, made, doomed, queued, listener, stopping>>
Drain(c) ==
  /\ Runs(c, "drain")
  /\ IF conn[c].queue > 0
     THEN conn' = [conn EXCEPT ![c].queue = @ - 1] /\ queued' = queued - 1
     ELSE Goto(c, "done") /\ UNCHANGED queued
  /\ UNCHANGED <<connections, lru, made, doomed, listener, stopping>>

RunStep(c) ==
  Dial(c) \/ SetUDP(c) \/ Take(c) \/ WriteDatagram(c) \/ LoopEnds(c)
    \/ AwaitResponses(c) \/ RemoveConnection(c) \/ Drain(c)

-----------------------------------------------------------------------------
(* forwardResponses, the janitor and Close.                                *)

\* A response comes: markConnectionActive.
Respond_Always(c) ==
  /\ conn[c].resp = "read"
  /\ conn[c].udp = "open"
  /\ lru' = Touched(c)
  /\ UNCHANGED <<connections, made, conn, doomed, queued, listener, stopping>>
Respond(c) ==
  /\ conn[c].resp = "read"
  /\ conn[c].udp = "open"
  /\ lru' = IF connections[conn[c].source] = c THEN Touched(c) ELSE lru
  /\ UNCHANGED <<connections, made, conn, doomed, queued, listener, stopping>>

\* Reading fails because the socket was closed, or reading or writing fails.
ResponsesEnd(c) ==
  /\ conn[c].resp = "read"
  /\ conn' = [conn EXCEPT ![c].resp = "done"]
  /\ UNCHANGED <<connections, lru, made, doomed, queued, listener, stopping>>

\* The janitor found c idle when it looked; c may be busy when it is closed.
Janitor(c) ==
  /\ c \in Live
  /\ doomed' = doomed \cup {c}
  /\ UNCHANGED <<connections, lru, made, conn, queued, listener, stopping>>

\* Close: cancel the context, close the listener, close what the table holds.
CloseBegin ==
  /\ stopping = "no"
  /\ stopping' = "cancelled"
  /\ UNCHANGED <<connections, lru, made, conn, doomed, queued, listener>>

CloseListener ==
  /\ stopping = "cancelled"
  /\ stopping' = "deaf"
  /\ UNCHANGED <<connections, lru, made, conn, doomed, queued, listener>>

CloseSweep ==
  /\ stopping = "deaf"
  /\ stopping' = "swept"
  /\ doomed' = doomed \cup Live
  /\ UNCHANGED <<connections, lru, made, conn, queued, listener>>

-----------------------------------------------------------------------------
Next ==
  \/ \E a \in Sources : Receive(a)
  \/ ListenEnds
  \/ ListenerStep
  \/ \E c \in 1 .. made :
       \/ CloseStep(c) \/ RunStep(c)
       \/ Respond(c) \/ ResponsesEnd(c) \/ Janitor(c)
  \/ CloseBegin \/ CloseListener \/ CloseSweep

Spec == Init /\ [][Next]_vars

\* What goroutines do unless they wait for one another: no datagram has to come,
\* no socket to fail that nobody closed, and nobody to call Close.
Progress ==
  \/ ListenerStep
  \/ stopping \in {"deaf", "swept"} /\ ListenEnds
  \/ CloseListener \/ CloseSweep
  \/ \E c \in 1 .. made :
       CloseStep(c) \/ RunStep(c) \/ (conn[c].udp = "closed" /\ ResponsesEnd(c))

-----------------------------------------------------------------------------
(* Properties.                                                             *)

\* The types of the forwarder's state.
TypeOK ==
  /\ connections \in [Sources -> IDs \cup {0}]
  /\ lru \in Seq(IDs)
  /\ made \in 0 .. MaxMade
  /\ conn \in [IDs -> [source : Sources \cup {NoSource},
                       run : {"none", "dial", "set", "loop", "write", "close", "quit",
                              "drain", "done"},
                       resp : {"none", "read", "done"},
                       udp : {"none", "open", "closed"},
                       queue : 0 .. QueueCap,
                       shut : {"no", "closed", "done"}]]
  /\ doomed \subseteq IDs
  /\ queued \in 0 .. Budget
  /\ listener.pc \in {"read", "get", "evict", "enqueue", "closing", "done"}
  /\ stopping \in {"no", "cancelled", "deaf", "swept"}

\* The table keeps to its limit (makeRoomForConnectionLocked).
AtMostMax == Cardinality(Live) <= MaxConns

\* The table and the list hold the same connections, each once, under its own
\* source, although a response may come for a connection that was evicted while
\* its source has a new one (markConnectionActive, removeConnection).  The victim
\* is looked up by its key: a stale element would evict a stranger or nothing.
TableAndList ==
  /\ ToSet(lru) = Live
  /\ IsInjective(lru)
  /\ \A a \in Sources : connections[a] # 0 => conn[connections[a]].source = a

\* The table and the list are what they say they are, and within their limits.
TableOK == TypeOK /\ AtMostMax /\ TableAndList

\* The datagrams that hold a buffer: those in the queues, by their place, and the one
\* that is being written (place 0).
Held == {x \in IDs \X (0 .. QueueCap) :
           IF x[2] = 0 THEN Runs(x[1], "write") ELSE x[2] <= conn[x[1]].queue}

\* The budget counts the datagrams that are in a queue or in somebody's hands,
\* on every path that drops, writes or drains one (releaseDatagram).
BudgetExact ==
  queued = Cardinality(Held)
             + (IF listener.pc \in {"get", "evict", "enqueue"} THEN 1 ELSE 0)

\* A connection whose goroutine has ended leaves nothing behind: no datagram that
\* was accepted for it after the queue was drained, no open socket, no place in
\* the table (close, enqueue, setUDP, removeConnection).
NothingLeft ==
  \A c \in 1 .. made :
    Runs(c, "done") =>
      /\ conn[c].queue = 0
      /\ conn[c].udp # "open"
      /\ connections[conn[c].source] # c

\* Something that was closed has not come to its end.
Ending ==
  \/ stopping # "no" /\ listener.pc # "done"
  \/ \E c \in 1 .. made : conn[c].shut # "no" /\ ~Runs(c, "done")

\* Connection c, or whoever closes it, can go on.
ConnCanGoOn(c) ==
  \/ conn[c].shut = "no" /\ ToClose(c)
  \/ conn[c].shut = "closed"
  \/ conn[c].shut = "done" /\ (c \in doomed \/ Runs(c, "quit"))
  \/ conn[c].run \in {"dial", "set", "write", "drain"}
  \/ Runs(c, "loop") /\ (conn[c].queue > 0 \/ Cancelled(c) \/ conn[c].resp = "done")
  \/ Runs(c, "close") /\ conn[c].shut = "done" /\ conn[c].resp = "done"
  \/ conn[c].udp = "closed" /\ conn[c].resp = "read"

\* So can the listener, or Close.
ListenerCanGoOn ==
  \/ listener.pc \in {"get", "enqueue"}
  \/ listener.pc = "evict" /\ (listener.victim = 0 \/ conn[listener.victim].shut = "done")
  \/ listener.pc = "read" /\ stopping \in {"deaf", "swept"}
  \/ /\ listener.pc = "closing" /\ stopping = "swept" /\ doomed = {}
     /\ \A c \in 1 .. made : Runs(c, "done")

CanGoOn == \/ ListenerCanGoOn \/ stopping \in {"cancelled", "deaf"}
           \/ \E c \in 1 .. made : ConnCanGoOn(c)

\* Whoever closes does not wait in vain: as long as the forwarder that was closed
\* is not down, or a connection that was closed still runs, some goroutine can go
\* on, also for a connection made while Close swept the table and for one whose
\* socket is dialled while it is closed (startUDPForward, close, setUDP).
NeverStalls == Ending => CanGoOn

\* What can go on does: none of the goroutines that CanGoOn names waits for more
\* than it says, so close does not wait for the reader whose socket it has yet to
\* close (close, runConnection, startUDPForward).
GoesOn == CanGoOn => ENABLED Progress

=============================================================================

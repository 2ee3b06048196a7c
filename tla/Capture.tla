------------------------------ MODULE Capture ------------------------------
(***************************************************************************)
(* The packet capture beside a connection outside the VPN (underlay/       *)
(* pcap.go).  Read and Write of the connection, each under a mutex of its  *)
(* own, put what passed into a bounded queue, chunk by chunk; one          *)
(* goroutine writes the queue to a file; Close ends it all.  enqueue holds *)
(* stateMu for reading while it waits for a place, and Close takes it for  *)
(* writing: a waiting writer of a Go RWMutex keeps new readers out.        *)
(* Later callers of Close wait for the first, as closeOnce makes them.     *)
(***************************************************************************)
EXTENDS Integers, Sequences, FiniteSets

CONSTANTS
  QueueSize,  \* pcapEventQueueSize
  MaxChunks,  \* bound: chunks of one payload
  MaxCaptured \* bound: chunks a direction captures

ASSUME CaptureAssumption == {QueueSize, MaxChunks, MaxCaptured} \subseteq Nat \ {0}

Directions == {"incoming", "outgoing"}

VARIABLES
  captured,   \* captured[d]: chunks of the payloads that passed so far
  toQueue,    \* toQueue[d]: chunks of the current payload not queued yet
  sending,    \* directions in enqueue, past its check
  events,     \* the channel: <<direction, number of the chunk>>
  capClosed,  \* closed, and events closed with it
  capCloser,  \* Close: "no", "lock", "done" (waits for it), "returned"
  capLoop,    \* writeLoop: "run", "ended"
  broken,     \* writeErr is set
  written     \* what the file was given

captureVars == <<captured, toQueue, sending, events, capClosed, capCloser, capLoop, broken, written>>

CaptureInit ==
  /\ captured = [d \in Directions |-> 0]
  /\ toQueue = [d \in Directions |-> 0]
  /\ sending = {}
  /\ events = <<>>
  /\ capClosed = FALSE
  /\ capCloser = "no"
  /\ capLoop = "run"
  /\ broken = FALSE
  /\ written = <<>>

Idle(d) == toQueue[d] = 0 /\ d \notin sending

-----------------------------------------------------------------------------
(* pcapConn.Read, Write: capturePayload.                                   *)

\* Bytes passed: they are captured in chunks before the mutex is released.
Payload(d) ==
  /\ Idle(d)
  /\ \E n \in 1 .. MaxChunks :
       /\ captured[d] + n <= MaxCaptured
       /\ captured' = [captured EXCEPT ![d] = @ + n]
       /\ toQueue' = [toQueue EXCEPT ![d] = n]
  /\ UNCHANGED <<sending, events, capClosed, capCloser, capLoop, broken, written>>

\* enqueue takes the read lock, unless Close is waiting for it.  After Close the rest
\* of the payload is dropped.
EnqueueBegins(d) ==
  /\ toQueue[d] > 0 /\ d \notin sending
  /\ capCloser # "lock"
  /\ IF capClosed
     THEN toQueue' = [toQueue EXCEPT ![d] = 0] /\ UNCHANGED sending
     ELSE sending' = sending \cup {d} /\ UNCHANGED toQueue
  /\ UNCHANGED <<captured, events, capClosed, capCloser, capLoop, broken, written>>

\* There is a place in the queue.
EnqueueSends(d) ==
  /\ d \in sending
  /\ Len(events) < QueueSize
  /\ events' = Append(events, <<d, captured[d] - toQueue[d] + 1>>)
  /\ toQueue' = [toQueue EXCEPT ![d] = @ - 1]
  /\ sending' = sending \ {d}
  /\ UNCHANGED <<captured, capClosed, capCloser, capLoop, broken, written>>

-----------------------------------------------------------------------------
(* writeLoop.                                                              *)

\* An event is written; after an error the queue is still emptied.
WriteLoopTakes ==
  /\ capLoop = "run"
  /\ events # <<>>
  /\ events' = Tail(events)
  /\ \/ broken /\ UNCHANGED <<broken, written>>
     \/ ~broken /\ broken' = TRUE /\ UNCHANGED written
     \/ ~broken /\ written' = Append(written, Head(events)) /\ UNCHANGED broken
  /\ UNCHANGED <<captured, toQueue, sending, capClosed, capCloser, capLoop>>

\* The channel is closed and empty: the buffer is flushed, the file closed.
WriteLoopEnds ==
  /\ capLoop = "run"
  /\ events = <<>> /\ capClosed
  /\ capLoop' = "ended"
  /\ broken' \in {broken, TRUE}
  /\ UNCHANGED <<captured, toQueue, sending, events, capClosed, capCloser, written>>

-----------------------------------------------------------------------------
(* pcapCapture.Close.                                                      *)

CloseAsks ==
  /\ capCloser = "no"
  /\ capCloser' = "lock"
  /\ UNCHANGED <<captured, toQueue, sending, events, capClosed, capLoop, broken, written>>

CloseLocks_AtOnce ==
  /\ capCloser = "lock"
  /\ capClosed' = TRUE
  /\ capCloser' = "done"
  /\ UNCHANGED <<captured, toQueue, sending, events, capLoop, broken, written>>
\* The lock is Close's once no enqueue holds it.
CloseLocks ==
  /\ capCloser = "lock"
  /\ sending = {}
  /\ capClosed' = TRUE
  /\ capCloser' = "done"
  /\ UNCHANGED <<captured, toQueue, sending, events, capLoop, broken, written>>

CloseDone ==
  /\ capCloser = "done"
  /\ capLoop = "ended"
  /\ capCloser' = "returned"
  /\ UNCHANGED <<captured, toQueue, sending, events, capClosed, capLoop, broken, written>>

-----------------------------------------------------------------------------
CaptureStep(d) == EnqueueBegins(d) \/ EnqueueSends(d)
WriteLoop == WriteLoopTakes \/ WriteLoopEnds
CaptureClose == CloseLocks \/ CloseDone

CaptureNext ==
  \/ \E d \in Directions : Payload(d) \/ CaptureStep(d)
  \/ WriteLoop \/ CloseAsks \/ CaptureClose

\* Goroutines that can go on do; nothing passes and nobody closes of necessity.
CaptureSpec ==
  /\ CaptureInit /\ [][CaptureNext]_captureVars
  /\ \A d \in Directions : WF_captureVars(CaptureStep(d))
  /\ WF_captureVars(WriteLoop) /\ WF_captureVars(CaptureClose)

-----------------------------------------------------------------------------
\* The types of the capture, and its queue within its limit (pcap.go:38).
CaptureTypeOK ==
  /\ captured \in [Directions -> 0 .. MaxCaptured] /\ toQueue \in [Directions -> 0 .. MaxChunks]
  /\ sending \subseteq Directions
  /\ events \in Seq(Directions \X (1 .. MaxCaptured)) /\ Len(events) <= QueueSize
  /\ {capClosed, broken} \subseteq BOOLEAN
  /\ capCloser \in {"no", "lock", "done", "returned"} /\ capLoop \in {"run", "ended"}
  /\ written \in Seq(Directions \X (1 .. MaxCaptured))

\* How many of the first n events are chunks of d; and that these are the first
\* chunks of d, in order and without a gap.
Of(d, s, n) == Cardinality({i \in 1 .. n : s[i][1] = d})
IsStart(d, s) == \A n \in 1 .. Len(s) : s[n][1] = d => s[n][2] = Of(d, s, n)

\* The file is given the start of what passed in each direction, in order and without
\* a gap; as long as it can be written nothing is missing from it that Close did not
\* cut off, and nobody sends on the closed channel (pcap.go:106).
CaptureIntact ==
  /\ \A d \in Directions :
       LET kept == written \o events IN
       /\ IsStart(d, written)
       /\ ~broken => IsStart(d, kept)
       /\ ~broken /\ ~capClosed => Of(d, kept, Len(kept)) = captured[d] - toQueue[d]
  /\ capClosed => sending = {}

\* A full queue holds nobody up for ever, and Close returns (pcap.go:114, 164).
CaptureEnds ==
  /\ \A d \in Directions : toQueue[d] > 0 ~> toQueue[d] = 0
  /\ capCloser = "lock" ~> capCloser = "returned"

=============================================================================

------------------------------ MODULE Heartbeat ------------------------------
(***************************************************************************)
(* The heartbeat of one l3TunnelConn (client/atrust/l3tunnelconn.go):      *)
(* heartbeatLoop, the writers that mark the connection active, and the     *)
(* readLoop, which handles heartbeat responses.  heartbeatHasWrite and     *)
(* heartbeatMisses are two atomics no lock ties together, so each load,    *)
(* store and swap is a step.  The server (external) may stop answering for *)
(* good while the transport still takes what is written to it.             *)
(***************************************************************************)
EXTENDS Integers

CONSTANTS
  MissLimit,  \* defaultHeartbeatMissLimit
  MaxOwed     \* bound: responses under way

ASSUME HeartbeatAssumption == MissLimit \in Nat \ {0} /\ MaxOwed \in Nat \ {0}

VARIABLES
  hasWrite,  \* heartbeatHasWrite
  misses,    \* heartbeatMisses
  open,      \* closeCh is open
  loop,      \* heartbeatLoop: "sleep", "reset", "load", "add", "send", "done"
  reader,    \* readLoop: "read", "clear" (hasWrite cleared, misses not yet)
  owed,      \* heartbeat responses the server has sent or will send
  alive      \* the server still answers

vars == <<hasWrite, misses, open, loop, reader, owed, alive>>

Init ==
  /\ hasWrite = 0
  /\ misses = 0
  /\ open = TRUE
  /\ loop = "sleep"
  /\ reader = "read"
  /\ owed = 0
  /\ alive = TRUE

\* The ticker fires: the swap of heartbeatHasWrite.
TickSwap ==
  /\ loop = "sleep"
  /\ hasWrite' = 0
  /\ loop' = IF hasWrite # 0 THEN "reset" ELSE "load"
  /\ UNCHANGED <<misses, open, reader, owed, alive>>

\* There was a write: the misses are forgotten and no heartbeat is sent.
Reset_Keeps ==
  /\ loop = "reset"
  /\ loop' = "sleep"
  /\ UNCHANGED <<misses, hasWrite, open, reader, owed, alive>>
Reset ==
  /\ loop = "reset"
  /\ misses' = 0
  /\ loop' = "sleep"
  /\ UNCHANGED <<hasWrite, open, reader, owed, alive>>

\* Too many misses close the connection.
CheckMisses ==
  /\ loop = "load"
  /\ open' = (open /\ misses < MissLimit)
  /\ loop' = IF misses < MissLimit THEN "add" ELSE "done"
  /\ UNCHANGED <<hasWrite, misses, reader, owed, alive>>

AddMiss ==
  /\ loop = "add"
  /\ misses' = misses + 1
  /\ loop' = "send"
  /\ UNCHANGED <<hasWrite, open, reader, owed, alive>>

\* sendHeartbeat: writeFrame marks the connection active.
Send ==
  /\ loop = "send"
  /\ open
  /\ hasWrite' = 1
  /\ owed' = IF alive /\ owed < MaxOwed THEN owed + 1 ELSE owed
  /\ loop' = "sleep"
  /\ UNCHANGED <<misses, open, reader, alive>>

\* ... or fails, and the connection is closed.
SendFails ==
  /\ loop = "send"
  /\ open' = FALSE
  /\ loop' = "done"
  /\ UNCHANGED <<hasWrite, misses, reader, owed, alive>>

LoopExit ==
  /\ loop = "sleep"
  /\ ~open
  /\ loop' = "done"
  /\ UNCHANGED <<hasWrite, misses, open, reader, owed, alive>>

\* A data frame or an authentication request is written.
OtherWrite ==
  /\ open
  /\ hasWrite' = 1
  /\ UNCHANGED <<misses, open, loop, reader, owed, alive>>

\* readLoop gets a heartbeat response: two stores.
Response ==
  /\ reader = "read"
  /\ open
  /\ owed > 0
  /\ owed' = owed - 1
  /\ hasWrite' = 0
  /\ reader' = "clear"
  /\ UNCHANGED <<misses, open, loop, alive>>

ClearMisses ==
  /\ reader = "clear"
  /\ misses' = 0
  /\ reader' = "read"
  /\ UNCHANGED <<hasWrite, open, loop, owed, alive>>

\* readLoop sees the connection fail.
ReadFails ==
  /\ open
  /\ alive
  /\ open' = FALSE
  /\ UNCHANGED <<hasWrite, misses, loop, reader, owed, alive>>

\* The server answers nothing any more.
GoSilent ==
  /\ alive
  /\ alive' = FALSE
  /\ owed' = 0
  /\ UNCHANGED <<hasWrite, misses, open, loop, reader>>

LoopStep == TickSwap \/ Reset \/ CheckMisses \/ AddMiss \/ Send

Next == LoopStep \/ SendFails \/ LoopExit \/ OtherWrite \/ Response \/ ClearMisses
          \/ ReadFails \/ GoSilent

Spec == Init /\ [][Next]_vars

\* The ticker goes on ticking, the loop runs, the readLoop finishes its stores.
FairSpec == Spec /\ WF_vars(LoopStep) /\ WF_vars(ClearMisses) /\ WF_vars(LoopExit)

-----------------------------------------------------------------------------
(* Properties.                                                             *)

\* Two misses are the most that can add up, for a write of the heartbeat marks
\* the connection active and the next tick forgets the misses: the second comes
\* only from a tick between the two stores that handle a response.
TwoMisses == misses <= 2

\* A server that has gone silent is found out: heartbeatLoop closes the
\* connection ("heartbeat timed out after %d missed responses"), at the latest
\* once nothing but heartbeats is written.
SilenceDetected ==
  <>[][~OtherWrite]_vars => (~alive ~> ~open)

=============================================================================

------------------------------ MODULE ECStream ------------------------------
(***************************************************************************)
(* The layer-3 connection of EasyConnect under the gVisor stack: L3Conn    *)
(* (client/easyconnect/l3conn.go) is a connection to send on and one to    *)
(* receive on, each made anew by SendConn and RecvConn (protocol.go) when  *)
(* it fails. Stack.Run (stack/gvisor/stack.go) reads, the goroutines of    *)
(* the netstack write through WritePackets, one at a time under sendLock,  *)
(* and Stack.Close closes both. The stack is that of a mobile session:     *)
(* mobileFatal tells the host of an error and the process goes on.         *)
(*                                                                         *)
(* A failed redial leaves a typed nil, which L3Conn.Close takes for a      *)
(* connection. Its use panics: the process ends, except that log.Go        *)
(* recovers a relay that writes and recoverResult a Prepare that closes.   *)
(***************************************************************************)
EXTENDS Integers

CONSTANTS
  MaxErrors,  \* 5 in the code: reconnects of each side
  Senders     \* goroutines of the netstack that call WritePackets

ASSUME ECStreamAssumption == MaxErrors \in Nat \ {0}

VARIABLES
  send,     \* sendConn and recvConn: a connection that is "open", "broken" or
  recv,     \*   "closed", or "nil" when the last one could not be made
  errs,     \* sendErrCount and recvErrCount
  writer,   \* writer[w]: "idle", about to "redial" with sendLock, or to "report"
  run,      \* Run: "send" and "recv" of NewL3Conn, "read", "redial", "failed", "returned"
  l3Conn,   \* the endpoint has its l3Conn
  stopped,  \* Stack.closed
  closeAt,  \* Stack.Close: "no", "send", "recv", "done", "cut" by a recovered panic
  alive,    \* the client's lifecycleCtx
  told,     \* mobileFatal has told the host of an error
  crashed   \* a panic has ended the process

streamVars == <<send, recv, errs, writer, run, l3Conn, stopped, closeAt, alive, told,
                crashed>>

StreamInit ==
  /\ send = "nil" /\ recv = "nil" /\ errs = [send |-> 0, recv |-> 0]
  /\ writer = [w \in Senders |-> "idle"] /\ run = "send" /\ l3Conn = FALSE
  /\ stopped = FALSE /\ closeAt = "no" /\ alive = TRUE
  /\ told = FALSE /\ crashed = FALSE

Up == ~crashed
Fails(conn) == conn \in {"broken", "closed"}
Stops == UNCHANGED <<stopped, closeAt, alive>>

\* SendConn or RecvConn: a handshake with the gateway, which may refuse it, shut
\* the session down or ask to come back later.
Handshake(conn) == \/ alive /\ conn' = "open"
                   \/ conn' = "nil"

-----------------------------------------------------------------------------
(* Run.                                                                    *)

\* NewL3Conn: sendConn stays open when there is no recvConn.
NewSendConn ==
  /\ Up /\ run = "send"
  /\ Handshake(send)
  /\ run' = IF send' = "open" THEN "recv" ELSE "failed"
  /\ UNCHANGED <<recv, errs, writer, l3Conn, told, crashed>> /\ Stops

NewRecvConn ==
  /\ Up /\ run = "recv"
  /\ Handshake(recv)
  /\ run' = IF recv' = "open" THEN "read" ELSE "failed"
  /\ l3Conn' = (recv' = "open")
  /\ UNCHANGED <<send, errs, writer, told, crashed>> /\ Stops

\* Read fails: the connection is made again unless that was done five times.
ReadFails ==
  /\ Up /\ run = "read" /\ Fails(recv)
  /\ IF errs.recv < MaxErrors THEN run' = "redial" /\ recv' = "closed"
                              ELSE run' = "failed" /\ UNCHANGED recv
  /\ UNCHANGED <<send, errs, writer, l3Conn, told, crashed>> /\ Stops

\* With a new connection Read returns no packet and no error, so Run reads on.
RecvAgain ==
  /\ Up /\ run = "redial"
  /\ Handshake(recv)
  /\ IF recv' = "open" THEN run' = "read" /\ errs' = [errs EXCEPT !.recv = @ + 1]
                       ELSE run' = "failed" /\ UNCHANGED errs
  /\ UNCHANGED <<send, writer, l3Conn, told, crashed>> /\ Stops

\* Run returns on an error, which it does not report when Read failed after Close.
RunReturns_Silent ==
  /\ Up /\ run = "failed" /\ run' = "returned"
  /\ UNCHANGED <<send, recv, errs, writer, l3Conn, told, crashed>> /\ Stops
RunReturns ==
  /\ Up /\ run = "failed" /\ run' = "returned"
  /\ told' = (told \/ ~(l3Conn /\ stopped))
  /\ UNCHANGED <<send, recv, errs, writer, l3Conn, crashed>> /\ Stops

-----------------------------------------------------------------------------
(* WritePackets of several goroutines.                                     *)

Unlocked == \A w \in Senders : writer[w] # "redial"  \* sendLock
GoesTo(w, at) == writer' = [writer EXCEPT ![w] = at]

\* A packet of the netstack is written, also after an earlier error.
Write(w) ==
  /\ Up /\ l3Conn /\ writer[w] = "idle" /\ Unlocked
  /\ \/ send = "nil" /\ crashed' = TRUE /\ UNCHANGED <<send, writer>>
     \/ /\ Fails(send) /\ errs.send < MaxErrors
        /\ send' = "closed" /\ GoesTo(w, "redial")
        /\ UNCHANGED crashed
     \/ /\ Fails(send) /\ errs.send = MaxErrors
        /\ GoesTo(w, "report")
        /\ UNCHANGED <<send, crashed>>
  /\ UNCHANGED <<recv, errs, run, l3Conn, told>> /\ Stops

\* The packet that failed is not written to the new connection. sendLock is released
\* with the connection that could not be made in its place.
SendAgain(w) ==
  /\ Up /\ writer[w] = "redial"
  /\ Handshake(send)
  /\ IF send' = "open" THEN errs' = [errs EXCEPT !.send = @ + 1] /\ GoesTo(w, "idle")
                       ELSE UNCHANGED errs /\ GoesTo(w, "report")
  /\ UNCHANGED <<recv, run, l3Conn, told, crashed>> /\ Stops

Report(w) ==
  /\ Up /\ writer[w] = "report"
  /\ told' = TRUE
  /\ GoesTo(w, "idle")
  /\ UNCHANGED <<send, recv, errs, run, l3Conn, crashed>> /\ Stops

Breaks ==
  /\ Up
  /\ \/ send = "open" /\ send' = "broken" /\ UNCHANGED recv
     \/ recv = "open" /\ recv' = "broken" /\ UNCHANGED send
  /\ UNCHANGED <<errs, writer, run, l3Conn, told, crashed>> /\ Stops

-----------------------------------------------------------------------------
(* Stack.Close, once, and L3Conn.Close, which takes neither lock.          *)

StackClose ==
  /\ Up /\ ~stopped
  /\ stopped' = TRUE
  /\ closeAt' = IF l3Conn THEN "send" ELSE "done"
  /\ UNCHANGED <<send, recv, errs, writer, run, l3Conn, alive, told, crashed>>

Closes(conn, next) ==
  IF conn = "nil" THEN \/ crashed' = TRUE /\ UNCHANGED <<conn, closeAt>>
                       \/ closeAt' = "cut" /\ UNCHANGED <<conn, crashed>>
  ELSE conn' = "closed" /\ closeAt' = next /\ UNCHANGED crashed

CloseSend ==
  /\ Up /\ closeAt = "send" /\ Closes(send, "recv")
  /\ UNCHANGED <<recv, errs, writer, run, l3Conn, stopped, alive, told>>

CloseRecv ==
  /\ Up /\ closeAt = "recv" /\ Closes(recv, "done")
  /\ UNCHANGED <<send, errs, writer, run, l3Conn, stopped, alive, told>>

\* Client.Close, after the stack's.
ClientCloses ==
  /\ Up /\ alive /\ closeAt = "done"
  /\ alive' = FALSE
  /\ UNCHANGED <<send, recv, errs, writer, run, l3Conn, stopped, closeAt, told, crashed>>

StreamNext ==
  \/ NewSendConn \/ NewRecvConn \/ ReadFails \/ RecvAgain \/ RunReturns
  \/ \E w \in Senders : Write(w) \/ SendAgain(w) \/ Report(w)
  \/ Breaks \/ StackClose \/ CloseSend \/ CloseRecv \/ ClientCloses

StreamSpec == StreamInit /\ [][StreamNext]_streamVars

-----------------------------------------------------------------------------
(* Properties.                                                             *)

\* Every reachable state of the two connections and their users holds values of
\* their types, and one goroutine at a time redials (l3conn.go, sendLock).
StreamTypeOK ==
  /\ {send, recv} \subseteq {"open", "broken", "closed", "nil"}
  /\ errs \in [send : 0 .. MaxErrors, recv : 0 .. MaxErrors]
  /\ writer \in [Senders -> {"idle", "redial", "report"}]
  /\ \A v, w \in Senders : writer[v] = "redial" /\ writer[w] = "redial" => v = w
  /\ run \in {"send", "recv", "read", "redial", "failed", "returned"}
  /\ {l3Conn, stopped, alive, told, crashed} \subseteq BOOLEAN
  /\ closeAt \in {"no", "send", "recv", "done", "cut"}

\* The host learns of every end (mobileFatal, gvisor/mobile.go:33) but the one that
\* it makes with Stack.Close: Run has not returned without telling it, and of a
\* connection that could not be made again it was told, or the goroutine that lost
\* the connection is about to tell. Another one may use it before that, and panic.
HostTold ==
  /\ run = "returned" /\ ~stopped => told
  /\ l3Conn /\ send = "nil" => told \/ \E w \in Senders : writer[w] = "report"
  /\ l3Conn /\ recv = "nil" => told \/ stopped \/ run = "failed"
=============================================================================

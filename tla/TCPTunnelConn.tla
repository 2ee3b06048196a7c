--------------------------- MODULE TCPTunnelConn ----------------------------
(***************************************************************************)
(* A TCP connection over the aTrust tunnel (client/atrust/tcptunnel.go):   *)
(* DialTCP with a handshake that a context can cancel, then framed data in *)
(* both directions and the close of the tcpTunnelConn.                     *)
(*                                                                         *)
(* Bytes are counted, not named: the transport keeps their order, and what *)
(* the code can do wrong is to lose, repeat or mix them.                   *)
(***************************************************************************)
EXTENDS Integers, Sequences

CONSTANTS
  MaxFrame,   \* bound: bytes of a frame (65535 in the code)
  MaxBuffer,  \* bound: bytes of a caller's buffer
  MaxFrames,  \* bound: frames the server sends
  Writers     \* the callers of Write

ASSUME TCPTunnelAssumption ==
  /\ {MaxFrame, MaxBuffer, MaxFrames} \subseteq Nat \ {0}
  /\ Writers \cap {"nobody", "close"} = {}  \* a goroutine is neither of these

VARIABLES
  zeroRTT,  \* tcpTunnelZeroRTT, constant: data is framed
  dial,     \* where DialTCP is
  ctx,      \* the context is alive
  watch,    \* context.AfterFunc: "off", "set", "firing" (it runs), "fired"
  conn,     \* the TLS connection: "none", "open", "broken" (a write failed), "closed"
  failure,  \* err of waitForTCPConnectReply is set
  reuse,    \* reuse
  wire,     \* lengths of the frames that the server has sent, 0 for a close frame
  sent,     \* frames sent so far
  readBuf,  \* bytes in readBuf
  balance,  \* bytes sent by the server less the bytes that Read returned; 0 once astray
  astray,   \* a Read was cut inside a frame: no later one starts at a header
  eof,      \* Read has returned io.EOF
  left,     \* left[w]: bytes of w's Write that are to be sent, 0 between Writes
  holder,   \* who holds writeMu: a writer, "close" or "nobody"
  out,      \* the frames sent: by whom, and whether more of that Write follows
  closing   \* CloseWrite and Close: "no", "write", "written", "closed"

dialVars == <<zeroRTT, dial, ctx, watch, conn, failure, reuse>>
inVars == <<wire, sent, readBuf, balance, astray, eof>>
outVars == <<left, holder, out, closing>>
tcpVars == <<zeroRTT, dial, ctx, watch, conn, failure, reuse, wire, sent, readBuf, balance, astray, eof,
             left, holder, out, closing>>

TCPInit ==
  /\ zeroRTT \in BOOLEAN
  /\ dial = "check" /\ ctx = TRUE /\ watch = "off" /\ conn = "none"
  /\ failure = FALSE /\ reuse = FALSE
  /\ wire = <<>> /\ sent = 0 /\ readBuf = 0 /\ balance = 0 /\ astray = FALSE /\ eof = FALSE
  /\ left = [w \in Writers |-> 0]
  /\ holder = "nobody" /\ out = <<>> /\ closing = "no"

-----------------------------------------------------------------------------
(* DialTCP.                                                                *)

DialTo(d, c) == dial' = d /\ conn' = c

\* No session, no resource, no node or no connection: there is nothing to close.
\* What the rest of the request needs can fail after the connection is made.
Prepare ==
  /\ dial = "check"
  /\ \/ DialTo("failed", "none")
     \/ DialTo("failed", "closed")
     \/ DialTo("watch", "open")
  /\ UNCHANGED <<zeroRTT, ctx, watch, failure, reuse, inVars, outVars>>

\* waitForTCPConnectReply: the context is checked, then watched.
StartWatch ==
  /\ dial = "watch"
  /\ IF ctx THEN watch' = "set" /\ dial' = "reply" /\ UNCHANGED failure
            ELSE failure' = TRUE /\ dial' = "return" /\ UNCHANGED watch
  /\ UNCHANGED <<zeroRTT, ctx, conn, reuse, inVars, outVars>>

ContextEnds ==
  /\ ctx
  /\ ctx' = FALSE
  /\ watch' = IF watch = "set" THEN "firing" ELSE watch
  /\ UNCHANGED <<zeroRTT, dial, conn, failure, reuse, inVars, outVars>>

WatchFires ==
  /\ watch = "firing"
  /\ watch' = "fired"
  /\ conn' = "closed"
  /\ UNCHANGED <<zeroRTT, dial, ctx, failure, reuse, inVars, outVars>>

\* The hello, the answer to the authentication and the connect reply are read, from
\* the reader's buffer even if the connection is closed by now; or one of them is
\* refused, malformed, late or missing.
Reply ==
  /\ dial = "reply"
  /\ dial' = "unwatch"
  /\ \E ok, again \in BOOLEAN : failure' = ~ok /\ reuse' = (ok /\ zeroRTT /\ again)
  /\ UNCHANGED <<zeroRTT, ctx, watch, conn, inVars, outVars>>

\* The deferred function: the watch is stopped, or it is waited for; an ended context
\* is the error.
StopWatch_NoWait ==
  /\ dial = "unwatch"
  /\ watch' = IF watch = "set" THEN "off" ELSE watch
  /\ dial' = "return"
  /\ UNCHANGED <<zeroRTT, ctx, conn, failure, reuse, inVars, outVars>>
StopWatch ==
  /\ dial = "unwatch"
  /\ watch # "firing"
  /\ watch' = IF watch = "set" THEN "off" ELSE watch
  /\ failure' = (failure \/ ~ctx)
  /\ dial' = "return"
  /\ UNCHANGED <<zeroRTT, ctx, conn, reuse, inVars, outVars>>

\* The read deadline is cleared, which fails on a closed connection.
Return ==
  /\ dial = "return"
  /\ IF failure THEN DialTo("failed", "closed")
     ELSE DialTo("failed", "closed") \/ (conn = "open" /\ DialTo("open", conn))
  /\ UNCHANGED <<zeroRTT, ctx, watch, failure, reuse, inVars, outVars>>

DialStep == Prepare \/ StartWatch \/ WatchFires \/ Reply \/ StopWatch \/ Return

-----------------------------------------------------------------------------
(* Read, with framing when zeroRTT.                                        *)

ServerSends(n) ==
  /\ dial = "open"
  /\ sent < MaxFrames
  /\ ~astray  \* from then on, frames are not told apart
  /\ ~eof /\ \A i \in DOMAIN wire : wire[i] # 0
  /\ wire' = Append(wire, n)
  /\ sent' = sent + 1
  /\ balance' = balance + n
  /\ UNCHANGED <<dialVars, readBuf, astray, eof, outVars>>

AtMost(a, b) == IF a <= b THEN a ELSE b

ReadStart == dial = "open" /\ conn \in {"open", "broken"} /\ ~eof

ReadRaw(size) ==
  /\ ReadStart /\ ~zeroRTT /\ wire # <<>>
  /\ LET n == AtMost(size, Head(wire)) IN
     /\ wire' = IF n = Head(wire) THEN Tail(wire) ELSE <<Head(wire) - n>> \o Tail(wire)
     /\ balance' = balance - n
     /\ eof' = (Head(wire) = 0)
  /\ UNCHANGED <<dialVars, sent, readBuf, astray, outVars>>

ReadBuffered(size) ==
  /\ ReadStart /\ readBuf > 0
  /\ LET n == AtMost(size, readBuf) IN
     readBuf' = readBuf - n /\ balance' = IF astray THEN balance ELSE balance - n
  /\ UNCHANGED <<dialVars, wire, sent, astray, eof, outVars>>

\* A Read of a framed connection with nothing in readBuf.
ReadHeader == ReadStart /\ zeroRTT /\ readBuf = 0

\* A whole frame is taken; what the caller's buffer cannot hold is kept.
ReadFrame_Drops(size) ==
  /\ ReadHeader /\ wire # <<>> /\ ~astray
  /\ LET n == AtMost(size, Head(wire)) IN
     balance' = balance - n
  /\ eof' = (Head(wire) = 0)
  /\ wire' = Tail(wire)
  /\ UNCHANGED <<dialVars, sent, readBuf, astray, outVars>>
ReadFrame(size) ==
  /\ ReadHeader /\ wire # <<>> /\ ~astray
  /\ LET n == AtMost(size, Head(wire)) IN
     readBuf' = Head(wire) - n /\ balance' = balance - n
  /\ eof' = (Head(wire) = 0)
  /\ wire' = Tail(wire)
  /\ UNCHANGED <<dialVars, sent, astray, outVars>>

\* The read deadline or a close ends io.ReadFull inside a frame.  The bytes that it has
\* taken of the header or the payload are dropped with the error, and what is left in
\* the connection does not start at a header: the frames are frames no more.
ReadCut ==
  /\ ReadHeader /\ wire # <<>> /\ ~astray
  /\ astray' = TRUE
  /\ wire' = <<>> /\ balance' = 0
  /\ UNCHANGED <<dialVars, sent, readBuf, eof, outVars>>

\* Any bytes are taken for a header: an error, an end, or data.
ReadAstray ==
  /\ ReadHeader /\ astray
  /\ readBuf' \in 0 .. MaxBuffer
  /\ eof' \in BOOLEAN
  /\ UNCHANGED <<dialVars, wire, sent, balance, astray, outVars>>

ReadStep ==
  \/ \E size \in 1 .. MaxBuffer : ReadRaw(size) \/ ReadBuffered(size) \/ ReadFrame(size)
  \/ ReadCut \/ ReadAstray

-----------------------------------------------------------------------------
(* Write, CloseWrite and Close.                                            *)

WriteBegins_NoLock(w, n) ==
  /\ dial = "open" /\ left[w] = 0
  /\ left' = [left EXCEPT ![w] = n]
  /\ holder' = w
  /\ UNCHANGED <<dialVars, inVars, out, closing>>
WriteBegins(w, n) ==
  /\ dial = "open" /\ left[w] = 0
  /\ holder = "nobody"
  /\ left' = [left EXCEPT ![w] = n]
  /\ holder' = w
  /\ UNCHANGED <<dialVars, inVars, out, closing>>

\* One frame goes out; or the write fails, Write ends, and TLS refuses all later ones.
WriteChunk(w) ==
  LET n == AtMost(left[w], MaxFrame) IN
  /\ left[w] > 0
  /\ \/ /\ conn = "open"
        /\ out' = Append(out, [by |-> w, more |-> left[w] > n])
        /\ left' = [left EXCEPT ![w] = @ - n]
        /\ UNCHANGED conn
     \/ /\ conn' = IF conn = "open" THEN "broken" ELSE conn
        /\ left' = [left EXCEPT ![w] = 0]
        /\ UNCHANGED out
  /\ holder' = IF left'[w] = 0 THEN "nobody" ELSE holder
  /\ UNCHANGED <<zeroRTT, dial, ctx, watch, failure, reuse, inVars, closing>>

CloseWriteBegins ==
  /\ dial = "open"
  /\ closing = "no" /\ holder = "nobody"
  /\ closing' = "write"
  /\ holder' = "close"
  /\ UNCHANGED <<dialVars, inVars, left, out>>

CloseFrame == [by |-> "close", more |-> FALSE]

\* A close frame when the connection is reused, else the transport's half-close.
CloseWriteEnds ==
  /\ closing = "write"
  /\ closing' = "written"
  /\ holder' = "nobody"
  /\ out' = IF reuse /\ conn = "open" THEN Append(out, CloseFrame) ELSE out
  /\ UNCHANGED <<dialVars, inVars, left>>

CloseConn ==
  /\ closing = "written"
  /\ closing' = "closed"
  /\ conn' = "closed"
  /\ UNCHANGED <<zeroRTT, dial, ctx, watch, failure, reuse, inVars, left, holder, out>>

WriteStep(w) == WriteChunk(w) \/ (\E n \in 1 .. MaxBuffer : Len(out) < 2 * MaxFrames /\ WriteBegins(w, n))

TCPNext ==
  \/ DialStep
  \/ ContextEnds
  \/ \E n \in 0 .. MaxBuffer : ServerSends(n)
  \/ ReadStep
  \/ \E w \in Writers : WriteStep(w)
  \/ CloseWriteBegins
  \/ CloseWriteEnds
  \/ CloseConn

\* DialTCP goes on, an ended context closes the connection, and a Write or a Close
\* under way goes on (a write that never returns is the transport's, not modelled).
TCPFairness ==
  /\ WF_tcpVars(DialStep)
  /\ \A w \in Writers : WF_tcpVars(WriteChunk(w))
  /\ WF_tcpVars(CloseWriteEnds)

TCPSpec == TCPInit /\ [][TCPNext]_tcpVars /\ TCPFairness

-----------------------------------------------------------------------------
(* Properties.                                                             *)

\* The types of the connection's state; nobody sends without writeMu.
TCPTypeOK ==
  /\ dial \in {"check", "watch", "reply", "unwatch", "return", "open", "failed"}
  /\ watch \in {"off", "set", "firing", "fired"} /\ conn \in {"none", "open", "broken", "closed"}
  /\ {zeroRTT, ctx, failure, reuse, astray, eof} \subseteq BOOLEAN
  /\ wire \in Seq(0 .. MaxBuffer) /\ sent \in 0 .. MaxFrames
  /\ readBuf \in 0 .. MaxBuffer
  /\ left \in [Writers -> 0 .. MaxBuffer]
  /\ holder \in Writers \cup {"nobody", "close"}
  /\ \A w \in Writers : left[w] > 0 => holder = w
  /\ closing \in {"no", "write", "written", "closed"}

\* DialTCP never returns a connection that the end of the context has closed or will
\* still close (waitForTCPConnectReply: stopCancel, cancelDone, ctx.Err).
ReturnsOpen == dial = "open" /\ closing # "closed" => conn # "closed" /\ watch = "off"

\* A failed dial leaves no connection open.
FailsClosed == dial = "failed" => conn # "open"

\* The bytes of the frames.
Total(frames) ==
  LET f[i \in 0 .. Len(frames)] == IF i = 0 THEN 0 ELSE f[i - 1] + frames[i] IN f[Len(frames)]

\* As long as no Read was cut inside a frame, Read returns every byte once, across
\* frames and buffers of any size, and io.EOF only after all of them.
NothingLost == ~astray => balance = readBuf + Total(wire) /\ (eof => balance = 0)

\* The frames of one Write follow one another: no frame of another Write, and no
\* close frame, comes in between.
WritesWhole == \A i \in 1 .. Len(out) - 1 : out[i].more => out[i + 1].by = out[i].by

\* A close frame is sent at most once, and only on a connection the server reuses.
CloseFrameOnce ==
  LET closes == {i \in DOMAIN out : out[i] = CloseFrame} IN
  closes # {} => reuse /\ \E i \in closes : closes = {i}

\* DialTCP ends, also when its context ends while it reads or unwinds.
DialEnds == <>(dial \in {"open", "failed"})

=============================================================================

------------------------------ MODULE MCATrust ------------------------------
(***************************************************************************)
(* Small instances of the parts of the aTrust client that share no state   *)
(* with one another beyond what their modules name: the login, the session *)
(* that is set up, refreshed and closed, a TCP connection over the tunnel, *)
(* the heartbeat of a layer-3 connection, and the capture of what passes   *)
(* outside the VPN.  A behaviour exercises one of them, and the others     *)
(* rest in one initial state.                                              *)
(***************************************************************************)
EXTENDS Heartbeat, TCPTunnelConn, Login, ATrustClient, Capture

VARIABLE part  \* the part that is exercised

atrustVars == <<part, vars, tcpVars, loginVars, clientVars, captureVars>>

\* A part at rest has one initial state.
AtRest ==
  /\ part # "tcp" => zeroRTT
  /\ part # "login" => sess.method = "none" /\ gw.due = <<>> /\ gw.loggedIn = FALSE
  /\ part # "client" => notes.embedded

ATrustInit ==
  /\ part \in {"heartbeat", "tcp", "login", "client", "capture"}
  /\ Init /\ TCPInit /\ LoginInit /\ ClientInit /\ CaptureInit
  /\ AtRest

\* A step of one part, which leaves the others alone.
OfHeartbeat(act) == part = "heartbeat" /\ act /\ UNCHANGED <<part, tcpVars, loginVars, clientVars, captureVars>>
OfTCP(act) == part = "tcp" /\ act /\ UNCHANGED <<part, vars, loginVars, clientVars, captureVars>>
OfLogin(act) == part = "login" /\ act /\ UNCHANGED <<part, vars, tcpVars, clientVars, captureVars>>
OfClient(act) == part = "client" /\ act /\ UNCHANGED <<part, vars, tcpVars, loginVars, captureVars>>
OfCapture(act) == part = "capture" /\ act /\ UNCHANGED <<part, vars, tcpVars, loginVars, clientVars>>

ATrustNext ==
  \/ OfHeartbeat(Next) \/ OfTCP(TCPNext) \/ OfLogin(LoginNext) \/ OfClient(ClientNext)
  \/ OfCapture(CaptureNext)

\* The fairness of TCPSpec, LoginSpec, ClientSpec and CaptureSpec, each for its own part.
ATrustFairness ==
  /\ WF_atrustVars(OfTCP(DialStep)) /\ WF_atrustVars(OfTCP(CloseWriteEnds))
  /\ \A w \in Writers : WF_atrustVars(OfTCP(WriteChunk(w)))
  /\ WF_atrustVars(OfLogin(LoginNext))
  /\ WF_atrustVars(OfClient(SetupStep)) /\ WF_atrustVars(OfClient(RefreshStep))
  /\ WF_atrustVars(OfClient(CloseStep))
  /\ \A d \in Directions : WF_atrustVars(OfCapture(CaptureStep(d)))
  /\ WF_atrustVars(OfCapture(WriteLoop)) /\ WF_atrustVars(OfCapture(CaptureClose))

ATrustSpec == ATrustInit /\ [][ATrustNext]_atrustVars /\ ATrustFairness

-----------------------------------------------------------------------------
\* The types of every part (tcptunnel.go, auth.go, client.go, pcap.go).
ATrustTypeOK == TCPTypeOK /\ LoginTypeOK /\ ClientTypeOK /\ CaptureTypeOK

\* DialTCP hands out a connection that neither has been nor will be closed by the
\* end of its context, and leaves none open when it fails (tcptunnel.go:207, 530).
DialOutcome == ReturnsOpen /\ FailsClosed

\* Both directions of a TCP connection are intact: until a Read is cut inside a frame,
\* by its deadline or a close, Read returns every byte once across frames and buffers
\* of any size; the frames of one Write stay together, and a close frame is sent at
\* most once (tcpTunnelConn.Read, Write, CloseWrite).
StreamIntact == NothingLost /\ WritesWhole /\ CloseFrameOnce

\* The client answers the gateway's factors: it never sends what the gateway does
\* not wait for, and success means that every factor was passed (continueAuth,
\* authStepFromData, completeSMS).
FactorsAnswered == NeverRefused /\ AllFactorsPassed

\* What is started ends: DialTCP, also when its context ends while it unwinds; a
\* login, even against a gateway that asks for ever; Close, whatever the refresh
\* goroutine is doing; an enqueue on a full queue of the capture, and its Close
\* (tcptunnel.go:222, auth.go:244, client.go:117, pcap.go:114).
CallsEnd ==
  /\ part = "tcp" => DialEnds
  /\ part = "login" => LoginEnds
  /\ CloseReturns
  /\ part = "capture" => CaptureEnds

=============================================================================

------------------------------ MODULE MCMobile ------------------------------
(***************************************************************************)
(* Small instances of what runs on a phone: the session its host drives    *)
(* with the TUN stack, one call of the resolver with all its sources, the  *)
(* pool of its fake addresses, the EasyConnect client and its layer-3      *)
(* connection under the gVisor stack.  They meet only where one succeeds   *)
(* or fails for the other, so a behaviour exercises one of them, and the   *)
(* others rest in one initial state.                                       *)
(***************************************************************************)
EXTENDS MobileSession, Resolver, IPPool, EasyConnect, ECStream

VARIABLE part  \* the part that is exercised

mobileVars == <<part, sessionVars, vars, poolVars, ecVars, streamVars>>

\* A part at rest has one initial state.
AtRest == part # "easyconnect" => ~ecCl.creds /\ ecCl.twfID = 0 /\ ecCl.multi /\ ecCl.fetch

MobileInit ==
  /\ part \in {"session", "resolver", "pool", "easyconnect", "stream"}
  /\ SessionInit /\ Init /\ PoolInit /\ ECInit /\ StreamInit
  /\ AtRest

\* A step of one part, which leaves the others alone.
OfSession(act) == part = "session" /\ act /\ UNCHANGED <<part, vars, poolVars, ecVars, streamVars>>
OfResolver(act) == part = "resolver" /\ act /\ UNCHANGED <<part, sessionVars, poolVars, ecVars, streamVars>>
OfPool(act) == part = "pool" /\ act /\ UNCHANGED <<part, sessionVars, vars, ecVars, streamVars>>
OfEasyConnect(act) == part = "easyconnect" /\ act /\ UNCHANGED <<part, sessionVars, vars, poolVars, streamVars>>
OfStream(act) == part = "stream" /\ act /\ UNCHANGED <<part, sessionVars, vars, poolVars, ecVars>>

MobileNext ==
  \/ OfSession(SessionNext) \/ OfResolver(Next) \/ OfPool(PoolNext)
  \/ OfEasyConnect(ECNext) \/ OfStream(StreamNext)

\* The fairness of SessionSpec and ECSpec, each for its own part.
MobileFairness ==
  /\ \A c \in Calls : WF_mobileVars(OfSession(CallStep(c)))
  /\ \A k \in Stacks : /\ WF_mobileVars(OfSession(RunStep(k)))
                       /\ WF_mobileVars(OfSession(~tun[k].file /\ TunReadFails(k)))
                       /\ WF_mobileVars(OfSession(FlowEnds(k)))
  /\ WF_mobileVars(OfEasyConnect(InSetup))
  /\ WF_mobileVars(OfEasyConnect(KeepaliveAnswered))
  /\ SF_mobileVars(OfEasyConnect(KeepaliveStops))

MobileSpec == MobileInit /\ [][MobileNext]_mobileVars /\ MobileFairness

-----------------------------------------------------------------------------
\* The types of every part (mobile_android.go, ippool.go, easyconnect/client.go,
\* l3conn.go).
MobileTypeOK == SessionTypeOK /\ PoolTypeOK /\ ECTypeOK /\ StreamTypeOK

\* The EasyConnect client's session, token and address belong together, no raw
\* connection is lost, and Close leaves one at the most (easyconnect/client.go:242,
\* 136, request.go:723).
ECInStep == OneLine /\ RawHeld /\ ClosedLeavesOne

\* What is stopped ends: every Stop returns, a closed session's stacks and flows
\* come to rest (mobile_android.go:487, 969), and a closed EasyConnect client's
\* Setup and keepalive loop end (easyconnect/client.go:136).
StoppedEnds ==
  /\ part = "session" => StopEnds /\ ClosedGoesQuiet
  /\ part = "easyconnect" => CloseEndsClient

=============================================================================

--------------------------- MODULE MobileSession ----------------------------
(***************************************************************************)
(* The session an Android host drives (mobile/mobile_android.go) and the   *)
(* TUN stack it runs on (stack/mobiletun/stack_android.go).  The host      *)
(* calls Prepare, StartProxy, Stop and the rest from any thread; a call is *)
(* a process here, and a step of it is one critical section of sessionMu,  *)
(* mu or proxyMu, or one blocking operation.                               *)
(*                                                                         *)
(* The host logs in once at a time and gives StartStack one TUN at a time. *)
(***************************************************************************)
EXTENDS Naturals, FiniteSets

CONSTANTS
  MaxCalls,     \* bound: calls of the host
  MaxAtOnce,    \* bound: those in progress at a time
  MaxSessions,  \* bound: sessions made by createSession
  MaxStacks     \* bound: TUN stacks made by mobiletun.New

ASSUME SessionAssumption == {MaxCalls, MaxAtOnce, MaxSessions, MaxStacks} \subseteq Nat \ {0}

VARIABLES
  activeSession,  \* the session of the host, 0 if none
  session,        \* session[s]: the mobileSession made s-th
  tun,            \* tun[k]: the mobiletun.Stack made k-th, and its Run
  call,           \* call[c]: a call of the host that is in progress
  begun           \* calls begun so far

sessionVars == <<activeSession, session, tun, call, begun>>

Calls == 1 .. MaxAtOnce
Sessions == 1 .. MaxSessions
Stacks == 1 .. MaxStacks
Logins == {"prepare", "startProxy"}
Kinds == Logins \cup {"stop", "startProxyFrontend", "stopProxyFrontend",
                      "startStack", "stopStack"}

\* made: createSession has returned it; up: resolver, policy stack, client and
\* underlay are open; listening: it has proxy servers; tunStack: the field.
NoSession == [made |-> FALSE, closed |-> FALSE, up |-> FALSE, listening |-> FALSE,
              tunStack |-> 0]
\* of: its session; flow: a UDP flow is open; run: where Run is, "dial" with udpMu.
NoStack == [of |-> 0, closed |-> FALSE, once |-> "no", file |-> FALSE, lwip |-> FALSE,
            flow |-> FALSE, started |-> FALSE, run |-> "no"]
NoCall == [kind |-> "none", pc |-> "returned", own |-> 0, sess |-> 0, stack |-> 0]

SessionInit ==
  /\ activeSession = 0
  /\ session = [s \in Sessions |-> NoSession]
  /\ tun = [k \in Stacks |-> NoStack]
  /\ call = [c \in Calls |-> NoCall] /\ begun = 0

Kind(c) == call[c].kind
At(c, pc) == call[c].pc = pc
\* A call that returns makes room for another one.
Becomes(c, r) == /\ call' = [call EXCEPT ![c] = IF r.pc = "returned" THEN NoCall ELSE r]
                 /\ UNCHANGED begun
Goto(c, pc) == Becomes(c, [call[c] EXCEPT !.pc = pc])
InProgress(c) == ~At(c, "returned")

BeginCall(c, kind) ==
  /\ ~InProgress(c) /\ \A d \in Calls : d < c => InProgress(d)
  /\ begun < MaxCalls /\ begun' = begun + 1
  /\ kind \in Logins => \A d \in Calls : InProgress(d) => Kind(d) \notin Logins
  /\ kind = "startStack" => \A d \in Calls : InProgress(d) => Kind(d) # "startStack"
  /\ call' = [call EXCEPT ![c].kind = kind,
                          ![c].pc = IF kind \in Logins THEN "login"
                                    ELSE IF kind = "stop" THEN "take" ELSE "get"]
  /\ UNCHANGED <<activeSession, session, tun>>

-----------------------------------------------------------------------------
(* prepare, startProxy, replaceSession, Stop.                              *)

\* createSession with setupPolicy: a session with everything open, or an error
\* after which everything is closed again.
CreateSession(c) ==
  /\ At(c, "login")
  /\ \/ Goto(c, "returned") /\ UNCHANGED session
     \/ \E s \in Sessions :
          /\ ~session[s].made
          /\ \A r \in Sessions : r < s => session[r].made
          /\ session' = [session EXCEPT ![s].made = TRUE, ![s].up = TRUE]
          /\ Becomes(c, [call[c] EXCEPT !.own = s,
                        !.pc = IF Kind(c) = "prepare" THEN "take" ELSE "serve"])
  /\ UNCHANGED <<activeSession, tun>>

\* The method startProxy: the second listener can fail after the first started.
\* The function startProxy then closes the session it made.
StartListeners_Leaves(c) ==
  LET s == IF Kind(c) = "startProxy" THEN call[c].own ELSE call[c].sess IN
  /\ At(c, "serve")
  /\ \E started, failed \in BOOLEAN :
       /\ IF session[s].listening THEN ~started /\ failed ELSE started \/ failed
       /\ session' = [session EXCEPT ![s].listening = @ \/ started]
       /\ Becomes(c, [call[c] EXCEPT !.sess = s,
                     !.pc = IF Kind(c) # "startProxy" THEN "returned"
                               ELSE IF failed THEN "returned" ELSE "take"])
  /\ UNCHANGED <<activeSession, tun>>
StartListeners(c) ==
  LET s == IF Kind(c) = "startProxy" THEN call[c].own ELSE call[c].sess IN
  /\ At(c, "serve")
  /\ \E started, failed \in BOOLEAN :
       /\ IF session[s].listening THEN ~started /\ failed ELSE started \/ failed
       /\ session' = [session EXCEPT ![s].listening = @ \/ started]
       /\ Becomes(c, [call[c] EXCEPT !.sess = s,
                     !.pc = IF Kind(c) # "startProxy" THEN "returned"
                               ELSE IF failed THEN "mark" ELSE "take"])
  /\ UNCHANGED <<activeSession, tun>>

\* Stop takes the active session.
TakeActive(c) ==
  /\ At(c, "take")
  /\ activeSession' = 0
  /\ Becomes(c, [call[c] EXCEPT !.sess = activeSession,
                !.pc = IF activeSession # 0 THEN "mark"
                          ELSE IF Kind(c) = "stop" THEN "returned" ELSE "publish"])
  /\ UNCHANGED <<session, tun>>

Publish(c) ==
  /\ At(c, "publish")
  /\ activeSession' = call[c].own
  /\ Goto(c, "returned")
  /\ UNCHANGED <<session, tun>>

\* close: what follows when it returns.
AfterClose(c) == IF call[c].own \in {0, call[c].sess} THEN "returned" ELSE "publish"

MarkClosed(c) ==
  LET s == call[c].sess IN
  /\ At(c, "mark")
  /\ IF session[s].closed
     THEN Goto(c, AfterClose(c)) /\ UNCHANGED session
     ELSE /\ session' = [session EXCEPT ![s].closed = TRUE, ![s].tunStack = 0]
          /\ Becomes(c, [call[c] EXCEPT !.pc = "quiet", !.stack = session[s].tunStack])
  /\ UNCHANGED <<activeSession, tun>>

StopListeners(c) ==
  /\ At(c, "quiet")
  /\ session' = [session EXCEPT ![call[c].sess].listening = FALSE]
  /\ Goto(c, IF call[c].stack = 0 THEN "down" ELSE "close")
  /\ UNCHANGED <<activeSession, tun>>

TearDown(c) ==
  /\ At(c, "down")
  /\ session' = [session EXCEPT ![call[c].sess].up = FALSE]
  /\ Goto(c, AfterClose(c))
  /\ UNCHANGED <<activeSession, tun>>

-----------------------------------------------------------------------------
(* The calls on the active session.                                        *)

GetActive(c) ==
  /\ At(c, "get")
  /\ Becomes(c, [call[c] EXCEPT !.sess = activeSession,
                !.pc = IF activeSession = 0 THEN "returned"
                          ELSE CASE Kind(c) = "startProxyFrontend" -> "serve"
                                 [] Kind(c) = "stopProxyFrontend" -> "unserve"
                                 [] Kind(c) = "stopStack" -> "detach"
                                 [] OTHER -> "create"])
  /\ UNCHANGED <<activeSession, session, tun>>

StopProxy(c) ==
  /\ At(c, "unserve")
  /\ session' = [session EXCEPT ![call[c].sess].listening = FALSE]
  /\ Goto(c, "returned")
  /\ UNCHANGED <<activeSession, tun>>

\* StopStack takes the stack out of the session and then closes it.
DetachStack(c) ==
  LET k == session[call[c].sess].tunStack IN
  /\ At(c, "detach")
  /\ session' = [session EXCEPT ![call[c].sess].tunStack = 0]
  /\ Becomes(c, [call[c] EXCEPT !.stack = k, !.pc = IF k = 0 THEN "returned" ELSE "close"])
  /\ UNCHANGED <<activeSession, tun>>

\* StartStack: mobiletun.New, then the stack enters the session and runs.
CreateStack_Active(c) ==
  /\ At(c, "create")
  /\ \/ Goto(c, "returned") /\ UNCHANGED tun
     \/ \E k \in Stacks :
          /\ tun[k].of = 0
          /\ \A j \in Stacks : j < k => tun[j].of # 0
          /\ tun' = [tun EXCEPT ![k].of = activeSession, ![k].file = TRUE, ![k].lwip = TRUE]
          /\ Becomes(c, [call[c] EXCEPT !.stack = k, !.pc = "attach"])
  /\ UNCHANGED <<activeSession, session>>
CreateStack(c) ==
  /\ At(c, "create")
  /\ \/ Goto(c, "returned") /\ UNCHANGED tun
     \/ \E k \in Stacks :
          /\ tun[k].of = 0
          /\ \A j \in Stacks : j < k => tun[j].of # 0
          /\ tun' = [tun EXCEPT ![k].of = call[c].sess, ![k].file = TRUE, ![k].lwip = TRUE]
          /\ Becomes(c, [call[c] EXCEPT !.stack = k, !.pc = "attach"])
  /\ UNCHANGED <<activeSession, session>>

AttachStack(c) ==
  LET s == call[c].sess IN
  /\ At(c, "attach")
  /\ IF session[s].closed
     THEN Goto(c, "close") /\ UNCHANGED session
     ELSE /\ session' = [session EXCEPT ![s].tunStack = call[c].stack]
          /\ Goto(c, "run")
  /\ UNCHANGED <<activeSession, tun>>

RunReturned(c) ==
  LET s == call[c].sess IN
  /\ At(c, "run")
  /\ tun[call[c].stack].run = "done"
  /\ session' = [session EXCEPT ![s].tunStack = IF @ = call[c].stack THEN 0 ELSE @]
  /\ Goto(c, "returned")
  /\ UNCHANGED <<activeSession, tun>>

-----------------------------------------------------------------------------
(* mobiletun.Stack: Close by one caller, the others wait (closeOnce).      *)

AfterStackClose(c) == IF Kind(c) \in {"startStack", "stopStack"} THEN "returned" ELSE "down"

CloseBegins(c) ==
  LET k == call[c].stack IN
  /\ At(c, "close")
  /\ \/ /\ tun[k].once = "no"
        /\ tun' = [tun EXCEPT ![k].once = "busy", ![k].closed = TRUE]
        /\ Goto(c, "sweep")
     \/ /\ tun[k].once = "done"
        /\ Goto(c, AfterStackClose(c))
        /\ UNCHANGED tun
  /\ UNCHANGED <<activeSession, session>>

\* The flows are closed under udpMu.
CloseSweep(c) ==
  LET k == call[c].stack IN
  /\ At(c, "sweep")
  /\ tun[k].run # "dial"
  /\ tun' = [tun EXCEPT ![k].flow = FALSE]
  /\ Goto(c, "file")
  /\ UNCHANGED <<activeSession, session>>

\* The descriptor is closed, which wakes Run.
CloseFile_KeepsFile(c) ==
  /\ At(c, "file")
  /\ Goto(c, "look")
  /\ UNCHANGED <<activeSession, session, tun>>
CloseFile(c) ==
  /\ At(c, "file")
  /\ tun' = [tun EXCEPT ![call[c].stack].file = FALSE]
  /\ Goto(c, "look")
  /\ UNCHANGED <<activeSession, session>>

\* Run is waited for if it has started.
CloseLooks(c) ==
  /\ At(c, "look")
  /\ Goto(c, IF tun[call[c].stack].started THEN "drain" ELSE "lwip")
  /\ UNCHANGED <<activeSession, session, tun>>

\* lwipMu is free when Run is outside Write.
CloseLwip_Now(c) ==
  LET k == call[c].stack IN
  /\ At(c, "drain") \/ At(c, "lwip")
  /\ tun' = [tun EXCEPT ![k].lwip = FALSE, ![k].once = "done"]
  /\ Goto(c, AfterStackClose(c))
  /\ UNCHANGED <<activeSession, session>>
CloseLwip(c) ==
  LET k == call[c].stack IN
  /\ \/ At(c, "drain") /\ tun[k].run = "done"
     \/ At(c, "lwip") /\ tun[k].run \notin {"write", "dial"}
  /\ tun' = [tun EXCEPT ![k].lwip = FALSE, ![k].once = "done"]
  /\ Goto(c, AfterStackClose(c))
  /\ UNCHANGED <<activeSession, session>>

\* Run and the handlers it calls.
RunTo(k, from, to) ==
  /\ tun[k].run = from
  /\ tun' = [tun EXCEPT ![k].run = to]
  /\ UNCHANGED <<activeSession, session, call, begun>>

RunStarts(k) ==
  /\ \E c \in Calls : At(c, "run") /\ call[c].stack = k
  /\ tun[k].run = "no"
  /\ tun' = [tun EXCEPT ![k].run = "read", ![k].started = TRUE]
  /\ UNCHANGED <<activeSession, session, call, begun>>
Packet(k) == tun[k].file /\ RunTo(k, "read", "got")
TunReadFails(k) == RunTo(k, "read", "done")
RunWrites(k) == RunTo(k, "got", IF tun[k].closed THEN "done" ELSE "write")
\* A packet is handled; one that opens a flow is dialed for with udpMu held.
OpenFlow(k) == ~tun[k].flow /\ RunTo(k, "write", "dial")
Dialed(k) ==
  /\ tun[k].run = "dial"
  /\ \E ok \in BOOLEAN : tun' = [tun EXCEPT ![k].run = "read", ![k].flow = ok]
  /\ UNCHANGED <<activeSession, session, call, begun>>
RunWritten(k) == RunTo(k, "write", "read")

\* readUDPFlow ends: the flow was idle, or its connection failed or was closed.
FlowEnds(k) ==
  /\ tun[k].flow
  /\ tun[k].run # "dial"
  /\ tun' = [tun EXCEPT ![k].flow = FALSE]
  /\ UNCHANGED <<activeSession, session, call, begun>>

RunStep(k) == RunStarts(k) \/ RunWrites(k) \/ Dialed(k) \/ RunWritten(k)
CallStep(c) ==
  \/ CreateSession(c) \/ StartListeners(c) \/ TakeActive(c) \/ Publish(c)
  \/ MarkClosed(c) \/ StopListeners(c) \/ TearDown(c)
  \/ GetActive(c) \/ StopProxy(c) \/ DetachStack(c)
  \/ CreateStack(c) \/ AttachStack(c) \/ RunReturned(c)
  \/ CloseBegins(c) \/ CloseSweep(c) \/ CloseFile(c) \/ CloseLooks(c) \/ CloseLwip(c)

SessionNext ==
  \/ \E c \in Calls : CallStep(c) \/ (\E kind \in Kinds : BeginCall(c, kind))
  \/ \E k \in Stacks : RunStep(k) \/ Packet(k) \/ TunReadFails(k) \/ OpenFlow(k) \/ FlowEnds(k)

\* A call goes on when it can; so does Run, whose dials end, whose read fails once
\* the descriptor is closed, and whose flows are idle in the end.
SessionFairness ==
  /\ \A c \in Calls : WF_sessionVars(CallStep(c))
  /\ \A k \in Stacks : /\ WF_sessionVars(RunStep(k))
                       /\ WF_sessionVars(~tun[k].file /\ TunReadFails(k))
                       /\ WF_sessionVars(FlowEnds(k))

SessionSpec == SessionInit /\ [][SessionNext]_sessionVars /\ SessionFairness

-----------------------------------------------------------------------------
(* Properties.                                                             *)

\* The types of the session's state; a session's stack was made for it.
SessionTypeOK ==
  /\ activeSession \in Sessions \cup {0}
  /\ session \in [Sessions -> [made : BOOLEAN, closed : BOOLEAN, up : BOOLEAN,
                               listening : BOOLEAN, tunStack : Stacks \cup {0}]]
  /\ tun \in [Stacks -> [of : Sessions \cup {0}, closed : BOOLEAN,
                         once : {"no", "busy", "done"}, file : BOOLEAN, lwip : BOOLEAN,
                         flow : BOOLEAN, started : BOOLEAN,
                         run : {"no", "read", "got", "write", "dial", "done"}]]
  /\ \A c \in Calls : /\ Kind(c) \in Kinds \cup {"none"}
                      /\ {call[c].own, call[c].sess} \subseteq Sessions \cup {0}
                      /\ call[c].stack \in Stacks \cup {0}
  /\ \A s \in Sessions : session[s].tunStack # 0 => tun[session[s].tunStack].of = s

\* The calls that will still publish or close a session they made or took.
Holds(c, s) == InProgress(c) /\ s \in {call[c].own, call[c].sess} /\ Kind(c) \in Logins \cup {"stop"}

\* With one login at a time, no session is lost with everything open: it is the
\* active one, or a call in progress will publish or close it, or it is closed
\* (replaceSession, Stop).
NoOrphan ==
  \A s \in Sessions : session[s].up => s = activeSession \/ \E c \in Calls : Holds(c, s)

\* lwIP is not torn down while Run is inside Write (stack_android.go:115), whoever
\* closes the stack and whenever Run starts.
LwipSafe == \A k \in Stacks : tun[k].run \in {"write", "dial"} => tun[k].lwip

\* The calls that are about to close a stack that is in no session.
Closing(c, k) ==
  /\ call[c].stack = k
  /\ call[c].pc \in {"attach", "close", "sweep", "file", "look", "drain", "lwip"}

\* Run of a TUN stack takes no more packets when what its handlers use is closed
\* (close), unless StopStack or StartStack is closing that stack at the moment.
StoppedOrStopping ==
  \A k \in Stacks : tun[k].of # 0 /\ ~session[tun[k].of].up
                      => \/ tun[k].run = "done"
                         \/ ~tun[k].file /\ tun[k].run \in {"no", "read"}
                         \/ \E c \in Calls : Closing(c, k)

\* The data plane is taken down in an order its users survive: lwIP not under a
\* Write of Run, and what the handlers use not while Run takes packets
\* (stack_android.go:103, mobile_android.go:969).
DataPlaneSafe == LwipSafe /\ StoppedOrStopping

\* Every Stop returns: it waits for Run, for a dial under udpMu and for another
\* caller of Close, never for ever.
StopEnds == \A c \in Calls : (InProgress(c) /\ Kind(c) = "stop") ~> ~InProgress(c)

\* When a session is closed, every StartStack on it returns and no UDP flow of its
\* stacks stays, also one opened after Close had swept them.
ClosedGoesQuiet ==
  \A s \in Sessions :
    session[s].closed ~> \A k \in Stacks : tun[k].of = s 
                            => tun[k].run \in {"no", "done"} /\ ~tun[k].flow

=============================================================================

---------------------------- MODULE ATrustClient ----------------------------
(***************************************************************************)
(* The aTrust client around its tunnels (client/atrust/client.go,          *)
(* session.go, ip.go, auth/refresh.go): Setup, which restores or logs in a *)
(* session, publishes its SID, asks for the virtual address, creates the   *)
(* layer-3 tunnel, saves the cookies and starts the refresh goroutine; the *)
(* refresh loop; and Close.  The process may be killed and started again   *)
(* with the client data file it wrote.                                     *)
(*                                                                         *)
(* A SID is a number: every answer of the control plane may replace the    *)
(* cookie in the HTTP client's jar by a newer one.  The login itself is    *)
(* module Login, the tunnel is L3Tunnel; here they succeed or fail.        *)
(***************************************************************************)
EXTENDS Integers

CONSTANTS MaxSID,     \* bound: SIDs the gateway issues
          MaxStarts,  \* bound: starts of the process
          Embedded    \* SetEmbeddedMode was called (Android)

ASSUME ClientAssumption == MaxSID \in Nat \ {0} /\ MaxStarts \in Nat \ {0} /\ Embedded \subseteq BOOLEAN

VARIABLES setup,    \* Setup's next step
          refresh,  \* the refresh goroutine's next step
          closer,   \* Close's next step
          jar,      \* SID cookie in the jar, 0 when there is none
          cl,       \* the client's fields
          file,     \* client data file: the SID saved, 0 no file, Torn half written
          notes     \* what happened: see the type invariant

clientVars == <<setup, refresh, closer, jar, cl, file, notes>>

Torn == 0 - 1

NewClient == [sid |-> 0, expired |-> FALSE, tunnel |-> "none", cancelled |-> FALSE, started |-> FALSE]

ClientInit ==
  /\ setup = "parse" /\ refresh = "off" /\ closer = "no"
  /\ jar = 0 /\ file = 0 /\ cl = NewClient
  /\ \E e \in Embedded : notes = [embedded |-> e, starts |-> 1, missed |-> FALSE, unsaved |-> FALSE]

\* An answer of the gateway may carry a newer SID cookie.
Rotate == jar' \in {jar} \cup (IF jar < MaxSID THEN {jar + 1} ELSE {})

Running == setup # "exit"
Quiet == UNCHANGED <<refresh, closer>>

-----------------------------------------------------------------------------
(* Setup *)

SetupFails == setup' = "failed" /\ UNCHANGED <<refresh, closer, jar, cl, file, notes>>

\* The client data file is decoded before anything else.
ParseClientData ==
  /\ setup = "parse"
  /\ IF file = Torn THEN SetupFails
     ELSE setup' = "manifest" /\ UNCHANGED <<refresh, closer, jar, cl, file, notes>>

\* ServerVersionInfo: a cached manifest stands in for one that cannot be read;
\* the client data hold one when a setup has been saved before.
Manifest ==
  /\ setup = "manifest"
  /\ \E got \in BOOLEAN : IF got \/ file > 0
                          THEN setup' = "session" ELSE setup' = "failed"
  /\ UNCHANGED <<refresh, closer, jar, cl, file, notes>>

\* canResume: the SID given on the command line is put into the jar and wins
\* over the saved cookies; Login starts from those, and ends with whatever the
\* gateway set, which may be nothing.
Restore ==
  /\ setup = "session" /\ setup' = "snapshot"
  /\ jar' = 1
  /\ Quiet /\ UNCHANGED <<cl, file, notes>>

LogIn ==
  /\ setup = "session" /\ setup' = "resource"
  /\ jar' \in {file} \cup (IF file < MaxSID THEN {file + 1} ELSE {})
  /\ Quiet /\ UNCHANGED <<cl, file, notes>>

\* ClientResource: one more answer that may replace the SID.
FetchResource ==
  /\ setup = "resource" /\ setup' = "snapshot" /\ Rotate
  /\ Quiet /\ UNCHANGED <<cl, file, notes>>

\* Snapshot, after the last answer, and setSessionSID.
Snapshot ==
  /\ setup = "snapshot"
  /\ IF jar = 0 THEN SetupFails
     ELSE /\ setup' = "resources" /\ cl' = [cl EXCEPT !.sid = jar]
          /\ Quiet /\ UNCHANGED <<jar, file, notes>>

\* parseResource and getBestNodes.
ParseResources == /\ setup = "resources" /\ setup' = "ip"
                  /\ Quiet /\ UNCHANGED <<jar, cl, file, notes>>

\* getIP: authenticated with the published SID.  An invalid session ends the
\* process, unless the client is embedded and its host is told.
GetIP ==
  /\ setup = "ip"
  /\ \/ setup' = "tunnel"
     \/ setup' = IF notes.embedded THEN "failed" ELSE "exit"
  /\ Quiet /\ UNCHANGED <<jar, cl, file, notes>>

CreateTunnel == /\ setup = "tunnel" /\ setup' = "save" /\ cl' = [cl EXCEPT !.tunnel = "open"]
                /\ Quiet /\ UNCHANGED <<jar, file, notes>>

\* SaveClientData: os.WriteFile empties the file and then writes it.
SaveBegins == /\ setup = "save" /\ setup' = "saving" /\ file' = Torn
              /\ Quiet /\ UNCHANGED <<jar, cl, notes>>
SaveEnds == /\ setup = "saving" /\ setup' = "start" /\ file' = cl.sid
            /\ Quiet /\ UNCHANGED <<jar, cl, notes>>

\* startSessionRefresh, when an interval is configured.
StartRefresh ==
  /\ setup = "start" /\ setup' = "ready"
  /\ \E interval \in BOOLEAN :
       /\ refresh' = IF interval THEN "timer" ELSE "off"
       /\ cl' = [cl EXCEPT !.started = interval]
  /\ UNCHANGED <<closer, jar, file, notes>>

\* Any request, the tunnel, the save: the error is returned as it is.
SetupError == /\ setup \in {"session", "resource", "resources", "ip", "tunnel", "save", "saving"}
              /\ SetupFails

SetupStep == \/ ParseClientData \/ Manifest \/ Restore \/ LogIn \/ FetchResource
             \/ Snapshot \/ ParseResources \/ GetIP \/ CreateTunnel
             \/ SaveBegins \/ SaveEnds \/ StartRefresh

-----------------------------------------------------------------------------
(* startSessionRefresh: the goroutine. *)

TimerFires == /\ refresh = "timer" /\ Running /\ refresh' = "ask"
              /\ UNCHANGED <<setup, closer, jar, cl, file, notes>>

\* The context is cancelled while the goroutine sleeps or asks.
RefreshCancelled ==
  /\ refresh \in {"timer", "ask"} /\ cl.cancelled /\ Running
  /\ refresh' = "ended"
  /\ UNCHANGED <<setup, closer, jar, cl, file, notes>>

\* The answer is in the jar; a cancelled context wins over what it says.
\* Session.Refresh publishes nothing when it fails, even if a SID came with
\* the failing answer.
RefreshAnswered ==
  /\ refresh = "ask" /\ Running /\ Rotate
  /\ \E outcome \in {"publish", "timer", "invalid"} :
       /\ refresh' = IF cl.cancelled THEN "ended" ELSE outcome
       /\ notes' = [notes EXCEPT !.missed = outcome # "publish" /\ (@ \/ jar' # jar)]
  /\ UNCHANGED <<setup, closer, cl, file>>

\* handleSessionInvalid: the host is told, or the process ends.
SessionInvalid ==
  /\ refresh = "invalid" /\ Running
  /\ IF notes.embedded THEN refresh' = "expire" /\ setup' = setup ELSE setup' = "exit" /\ refresh' = refresh
  /\ UNCHANGED <<closer, jar, cl, file, notes>>

Expire == /\ refresh = "expire" /\ Running /\ refresh' = "drop"
          /\ cl' = [cl EXCEPT !.sid = 0, !.expired = TRUE]
          /\ UNCHANGED <<setup, closer, jar, file, notes>>

DropTunnel == /\ refresh = "drop" /\ Running /\ refresh' = "ended"
              /\ cl' = [cl EXCEPT !.tunnel = "closed"]
              /\ UNCHANGED <<setup, closer, jar, file, notes>>

Publish_KeepsOld == /\ refresh = "publish" /\ Running /\ refresh' = "save"
                    /\ UNCHANGED <<setup, cl, closer, jar, file, notes>>
Publish == /\ refresh = "publish" /\ Running /\ refresh' = "save"
           /\ cl' = [cl EXCEPT !.sid = jar, !.expired = FALSE]
           /\ UNCHANGED <<setup, closer, jar, file, notes>>

\* The save callback, as in Setup; a failure is logged and leaves the file as
\* it is, or torn.
RefreshSaves ==
  /\ refresh = "save" /\ Running
  /\ \/ refresh' = "saving" /\ file' = Torn /\ notes' = notes
     \/ refresh' = "timer" /\ file' = file /\ notes' = [notes EXCEPT !.unsaved = TRUE]
  /\ UNCHANGED <<setup, closer, jar, cl>>

RefreshSaved ==
  /\ refresh = "saving" /\ Running /\ refresh' = "timer"
  /\ \E ok \in BOOLEAN : file' = (IF ok THEN jar ELSE file) /\ notes' = [notes EXCEPT !.unsaved = ~ok]
  /\ UNCHANGED <<setup, closer, jar, cl>>

RefreshStep == \/ RefreshCancelled \/ RefreshAnswered \/ SessionInvalid \/ Expire
               \/ DropTunnel \/ Publish \/ RefreshSaves \/ RefreshSaved

-----------------------------------------------------------------------------
(* Close, which the owner calls once Setup has returned. *)

CloseBegins ==
  /\ closer = "no" /\ setup \in {"ready", "failed"}
  /\ closer' = "wait" /\ cl' = [cl EXCEPT !.cancelled = TRUE]
  /\ UNCHANGED <<setup, refresh, jar, file, notes>>

\* <-refreshDone, when the goroutine was started.
CloseWaits_Not == /\ closer = "wait" /\ Running /\ closer' = "tunnel"
                  /\ UNCHANGED <<setup, refresh, jar, cl, file, notes>>
CloseWaits ==
  /\ closer = "wait" /\ Running /\ (cl.started => refresh = "ended")
  /\ closer' = "tunnel"
  /\ UNCHANGED <<setup, refresh, jar, cl, file, notes>>

CloseTunnel ==
  /\ closer = "tunnel" /\ Running /\ closer' = "closed"
  /\ cl' = [cl EXCEPT !.tunnel = IF @ = "open" THEN "closed" ELSE @]
  /\ UNCHANGED <<setup, refresh, jar, file, notes>>

CloseStep == CloseWaits \/ CloseTunnel

\* The process is killed, or has ended, and is started again.
Restart ==
  /\ notes.starts < MaxStarts
  /\ setup' = "parse" /\ refresh' = "off" /\ closer' = "no" /\ jar' = 0 /\ cl' = NewClient
  /\ notes' = [notes EXCEPT !.starts = @ + 1, !.missed = FALSE, !.unsaved = FALSE]
  /\ UNCHANGED file

ClientNext == \/ SetupStep \/ SetupError \/ TimerFires \/ RefreshStep
              \/ CloseBegins \/ CloseStep \/ Restart

\* Requests have deadlines, goroutines are scheduled, timers fire.  Close is
\* called when the owner wishes, and processes are killed at will.
ClientFair == WF_clientVars(SetupStep) /\ WF_clientVars(RefreshStep) /\ WF_clientVars(CloseStep)
ClientSpec == ClientInit /\ [][ClientNext]_clientVars /\ ClientFair

-----------------------------------------------------------------------------
\* Type correctness.  The notes say whether the client is embedded, how often
\* the process was started, whether the last refresh failed with an answer
\* that carried a SID, and whether the last save failed.  No setup goes on without a SID.
ClientTypeOK ==
  /\ setup \in {"parse", "manifest", "session", "resource", "snapshot", "resources", "ip", "tunnel",
             "save", "saving", "start", "ready", "failed", "exit"}
  /\ refresh \in {"off", "timer", "ask", "invalid", "expire", "drop", "publish", "save", "saving", "ended"}
  /\ closer \in {"no", "wait", "tunnel", "closed"}
  /\ jar \in 0..MaxSID /\ file \in Torn..MaxSID
  /\ cl \in [sid : 0..MaxSID, expired : BOOLEAN, tunnel : {"none", "open", "closed"},
             cancelled : BOOLEAN, started : BOOLEAN]
  /\ setup \in {"resources", "ip", "tunnel", "save", "saving", "start", "ready"} => cl.sid # 0 \/ cl.expired
  /\ notes \in [embedded : BOOLEAN, starts : 1..MaxStarts, missed : BOOLEAN, unsaved : BOOLEAN]

\* Between two refreshes the tunnels authenticate with the newest SID the
\* gateway has set, and the file holds it too (Snapshot "must be taken after
\* the last HTTP response", setSessionSID, SaveClientData), unless a refresh
\* or a save failed.
SIDInStep ==
  setup = "ready" /\ refresh = "timer" /\ ~notes.missed
    => cl.sid = jar /\ (~notes.unsaved => file = jar)

\* After Close has returned nobody writes the client data file, which the
\* owner may be about to read or to delete.
NoSaveAfterClose == [][closer = "closed" /\ closer' = "closed" => file' = file]_clientVars

\* Close returns, whatever the refresh goroutine is doing (<-refreshDone).
CloseReturns == closer = "wait" ~> closer # "wait" \/ setup = "exit"
=============================================================================

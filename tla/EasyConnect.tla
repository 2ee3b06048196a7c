---------------------------- MODULE EasyConnect ----------------------------
(***************************************************************************)
(* The EasyConnect client (client/easyconnect): Setup with its login, the  *)
(* choice of a line, the token and the connection that holds the client's  *)
(* address; the keepalive loop, a TCP dial and Close beside it.            *)
(*                                                                         *)
(* A TwfID is a number, the index of its session at the gateway; 0 is the  *)
(* empty TwfID. Raw connections are numbered too, and ecNet holds the open *)
(* ones. A request and its answer are one step.                            *)
(***************************************************************************)
EXTENDS Integers, Sequences, FiniteSets

CONSTANTS
  Lines,       \* the gateway's lines, every one with a colon in it
  Home,        \* the line of the configuration
  Latencies,   \* milliseconds that three pings can take on the average
  MaxSetups,   \* bound: calls of Setup
  MaxTwfIDs,   \* bound: sessions at the gateway
  MaxRaw       \* bound: raw TLS connections

ASSUME EasyConnectAssumption ==
  /\ Home \in Lines /\ IsFiniteSet(Lines)
  /\ Latencies \subseteq Nat
  /\ {MaxSetups, MaxTwfIDs, MaxRaw} \subseteq Nat

VARIABLES
  ecAt,     \* what Setup does next, "idle" between its calls
  ecCl,     \* the client's fields
  ecSrv,    \* the sessions at the gateway: of which line, and authorised
  ecNet,    \* the raw connections that are open
  ecMade,   \* the line of each raw connection made so far
  ecTick,   \* the keepalive loop: "off", "wait", "asking", "done"
  ecDial,   \* a DialTCP: its next step and its connection
  ecClose,  \* Close: "no", "cancelled", "done"
  ecRuns    \* calls of Setup, and how the last one ended

ecVars == <<ecAt, ecCl, ecSrv, ecNet, ecMade, ecTick, ecDial, ecClose, ecRuns>>

Beside == UNCHANGED <<ecTick, ecDial, ecClose>>  \* a step of Setup
NoRaw == UNCHANGED <<ecNet, ecMade>>

\* NewClient: the credentials, a TwfID that may be given, and the options.
ECInit ==
  /\ ecAt = "idle" /\ ecNet = {} /\ ecMade = <<>>
  /\ ecTick = "off" /\ ecDial = [at |-> "off", conn |-> 0] /\ ecClose = "no"
  /\ ecRuns = [calls |-> 0, ended |-> "no"]
  /\ \E creds, given, multi, fetch \in BOOLEAN :
       /\ ecSrv = IF given THEN <<[line |-> Home, ok |-> TRUE]>> ELSE <<>>
       /\ ecCl = [creds |-> creds, server |-> Home, twfID |-> Len(ecSrv), multi |-> multi,
                  fetch |-> fetch, tcpOnly |-> FALSE, token |-> 0, making |-> 0, ipConn |-> 0]

Alive == ecClose = "no"  \* lifecycleCtx

Ended(how) == /\ ecAt' = "idle"
              /\ ecRuns' = [ecRuns EXCEPT !.ended = how]
              /\ Beside
Goes(to) == ecAt' = to /\ UNCHANGED ecRuns /\ Beside

Setup ==
  /\ ecAt = "idle" /\ ecRuns.calls < MaxSetups
  /\ ecRuns' = [calls |-> ecRuns.calls + 1, ended |-> "no"]
  /\ ecAt' = IF ecCl.twfID # 0 THEN "session"
             ELSE IF ecCl.creds THEN "auth" ELSE "refused"
  /\ UNCHANGED <<ecCl, ecSrv>> /\ NoRaw /\ Beside

\* Any request of Setup can fail, and fails once the client is closed; a refused
\* challenge ends the login as well. It is the last word except for the probes
\* and the resources, which Setup can do without.
Failing == {"auth", "captcha", "psw", "sms", "smsCode", "sms1", "totpCode", "totp",
            "cert", "cert1", "token", "ip", "refused"}

SetupFails ==
  /\ ecAt \in Failing
  /\ Ended("error") /\ UNCHANGED <<ecCl, ecSrv>> /\ NoRaw

-----------------------------------------------------------------------------
(* The login.                                                              *)

\* loginAuthAndPsw stores the TwfID before it has looked for the RSA key.
LoginAuth ==
  /\ ecAt = "auth" /\ Alive /\ Len(ecSrv) < MaxTwfIDs
  /\ ecSrv' = Append(ecSrv, [line |-> ecCl.server, ok |-> FALSE])
  /\ ecCl' = [ecCl EXCEPT !.twfID = Len(ecSrv) + 1]
  /\ \/ Goes("psw") \/ Goes("captcha") \/ Ended("error")
  /\ NoRaw

\* The captcha's image, the code of an SMS and of an authenticator, the request
\* that has the SMS sent and the certificate of the server.
Prompt ==
  /\ \/ ecAt = "captcha" /\ Alive /\ Goes("psw")
     \/ ecAt = "sms" /\ Alive /\ Goes("smsCode")
     \/ ecAt = "smsCode" /\ Goes("sms1")
     \/ ecAt = "totpCode" /\ Goes("totp")
     \/ ecAt = "cert" /\ Alive /\ Goes("cert1")
  /\ UNCHANGED <<ecCl, ecSrv>> /\ NoRaw

\* The password is one factor, and the gateway may ask for one more, whatever the
\* client has for it.
NextAuth ==
  /\ ecAt = "psw" /\ Alive
  /\ Goes("sms") \/ Goes("totpCode") \/ Goes("cert")
  /\ UNCHANGED <<ecCl, ecSrv>> /\ NoRaw

\* The last factor is right: the session is authorised under its TwfID or under
\* a new one. loginTOTP fails when the answer has none.
Authorised ==
  /\ Alive
  /\ ecAt \in {"psw", "sms1", "totp", "cert1"}
  /\ \/ /\ ecSrv' = [ecSrv EXCEPT ![ecCl.twfID].ok = TRUE]
        /\ UNCHANGED ecCl
        /\ IF ecAt = "totp" THEN Goes("session") \/ Ended("error") ELSE Goes("session")
     \/ /\ Len(ecSrv) < MaxTwfIDs
        /\ ecSrv' = Append(ecSrv, [line |-> ecCl.server, ok |-> TRUE])
        /\ ecCl' = [ecCl EXCEPT !.twfID = Len(ecSrv) + 1]
        /\ Goes("session")
  /\ NoRaw

-----------------------------------------------------------------------------
(* The line.                                                               *)

\* findBestLine: took has what the three pings of a target took, by the number of the
\* target, and nothing for one without all three; a best of 0 ms counts as none. An
\* entry with a port that does not parse is no target, so that target i may be behind
\* list[i], the line that is chosen for it.
Improves(best, ms) == best.ms = 0 \/ ms < best.ms
FindBestLine(list, took) ==
  LET best[i \in 0 .. Len(list)] ==
        IF i = 0 THEN [line |-> "none", ms |-> 0]
        ELSE LET b == best[i - 1] IN
             IF i \in DOMAIN took /\ Improves(b, took[i])
             THEN [line |-> list[i], ms |-> took[i]] ELSE b
  IN best[Len(list)]

\* The probes are made at most once, and not on the line they led to.
Probe ==
  /\ ecAt = "session"
  /\ IF ecCl.multi /\ Alive THEN Goes("probe") ELSE Goes("token")
  /\ UNCHANGED <<ecCl, ecSrv>> /\ NoRaw

\* No configuration, no list in it, or no line that answers: Setup stays here.
StayOnLine ==
  /\ ecAt = "probe" /\ Goes("token")
  /\ UNCHANGED <<ecCl, ecSrv>> /\ NoRaw

Orders == {list \in [1 .. Cardinality(Lines) -> Lines] :
             \A i, j \in DOMAIN list : list[i] = list[j] => i = j}

Switch_KeepsTwfID(best) == [ecCl EXCEPT !.server = best, !.multi = FALSE]
Switch(best) == [ecCl EXCEPT !.server = best, !.multi = FALSE, !.twfID = 0]
UseLine(best) ==
  IF best = ecCl.server THEN Goes("token") /\ UNCHANGED ecCl
  ELSE /\ ecCl' = Switch(best)
       /\ Goes(IF ecCl'.twfID = 0 THEN "auth" ELSE "token")

ParseLineList ==
  /\ ecAt = "probe"
  /\ \E list \in Orders : \E up \in (SUBSET DOMAIN list) \ {{}} :
       \E took \in [up -> Latencies] : UseLine(FindBestLine(list, took).line)
  /\ UNCHANGED ecSrv /\ NoRaw

-----------------------------------------------------------------------------
(* The token, the resources and the address.                               *)

\* tlsConn: a raw connection to the line in use.
Raw == Len(ecMade) + 1
DialRaw == /\ Alive /\ Raw <= MaxRaw
           /\ ecMade' = Append(ecMade, ecCl.server)
           /\ ecNet' = ecNet \cup {Raw}

\* requestToken and requestIP ask on a raw connection of their own.
RawRequest(at, reply) ==
  /\ ecAt = at /\ DialRaw
  /\ ecCl' = [ecCl EXCEPT !.making = Raw]
  /\ Goes(reply) /\ UNCHANGED ecSrv

RequestToken == RawRequest("token", "tokenReply")

\* Any answer makes the token: it says nothing about the session.
TokenReply ==
  /\ ecAt = "tokenReply" /\ Alive
  /\ ecNet' = ecNet \ {ecCl.making}
  /\ ecCl' = [ecCl EXCEPT !.token = ecCl.twfID, !.making = 0]
  /\ Goes(IF ecCl.fetch THEN "rclist" ELSE "address")
  /\ UNCHANGED <<ecSrv, ecMade>>

\* No answer, or not the one asked for: the connection is closed.
ReplyFails ==
  /\ ecAt \in {"tokenReply", "ipReply"} /\ Ended("error")
  /\ ecNet' = ecNet \ {ecCl.making}
  /\ ecCl' = [ecCl EXCEPT !.making = 0]
  /\ UNCHANGED <<ecSrv, ecMade>>

\* parseResources: an answer that holds resources says whether there is a virtual
\* address; an error later in it leaves that set.
Resources ==
  /\ ecAt = "rclist"
  /\ \/ UNCHANGED ecCl
     \/ /\ Alive /\ ecCl.twfID # 0 /\ ecSrv[ecCl.twfID].ok
        /\ \E only \in BOOLEAN : ecCl' = [ecCl EXCEPT !.tcpOnly = only]
  /\ Goes("address")
  /\ UNCHANGED ecSrv /\ NoRaw

Address ==
  /\ ecAt = "address"
  /\ Goes(IF ecCl.tcpOnly THEN "started" ELSE "ip")
  /\ UNCHANGED <<ecCl, ecSrv>> /\ NoRaw

RequestIP == RawRequest("ip", "ipReply")

\* The gateway gives an address to an authorised session of that line.
IPReply ==
  /\ ecAt = "ipReply" /\ Alive
  /\ ecSrv[ecCl.token] = [line |-> ecMade[ecCl.making], ok |-> TRUE]
  /\ Goes("keepConn")
  /\ UNCHANGED <<ecCl, ecSrv>> /\ NoRaw

\* setRequestIPConn does not look at the context.
SetRequestIPConn ==
  /\ ecAt = "keepConn" /\ Goes("started")
  /\ ecNet' = ecNet \ {ecCl.ipConn}
  /\ ecCl' = [ecCl EXCEPT !.ipConn = ecCl.making, !.making = 0]
  /\ UNCHANGED <<ecSrv, ecMade>>

\* keepAliveStarted: the loop is started by the first Setup that gets here.
SetupDone ==
  /\ ecAt = "started" /\ ecAt' = "idle"
  /\ ecRuns' = [ecRuns EXCEPT !.ended = "ready"]
  /\ ecTick' = IF ecTick = "off" THEN "wait" ELSE ecTick
  /\ UNCHANGED <<ecCl, ecSrv, ecDial, ecClose>> /\ NoRaw

-----------------------------------------------------------------------------
(* Beside Setup: runSessionKeepAlive, DialTCP and Close.                   *)

OutsideSetup == UNCHANGED <<ecAt, ecSrv, ecRuns>>

KeepaliveAsks ==
  /\ ecTick = "wait" /\ ecTick' = "asking"
  /\ OutsideSetup /\ UNCHANGED <<ecCl, ecDial, ecClose>> /\ NoRaw

\* Only a server that has no update_session ends the loop; errors are logged.
KeepaliveAnswered ==
  /\ ecTick = "asking"
  /\ \/ ecTick' = "wait"
     \/ Alive /\ ecTick' = "done"
  /\ OutsideSetup /\ UNCHANGED <<ecCl, ecDial, ecClose>> /\ NoRaw

KeepaliveStops ==
  /\ ecTick = "wait" /\ ~Alive /\ ecTick' = "done"
  /\ OutsideSetup /\ UNCHANGED <<ecCl, ecDial, ecClose>> /\ NoRaw

\* DialTCP takes the caller's context, not the client's.
DialTCP ==
  /\ ecDial.at = "off" /\ ecCl.twfID # 0 /\ Raw <= MaxRaw
  /\ ecMade' = Append(ecMade, ecCl.server)
  /\ ecNet' = ecNet \cup {Raw}
  /\ ecDial' = [at |-> "C01", conn |-> Raw]
  /\ OutsideSetup /\ UNCHANGED <<ecCl, ecTick, ecClose>>

NextCommand == [C01 |-> "C02", C02 |-> "C03", C03 |-> "connected"]

Command ==
  /\ ecDial.at \in DOMAIN NextCommand
  /\ ecDial' = [ecDial EXCEPT !.at = NextCommand[ecDial.at]]
  /\ OutsideSetup /\ UNCHANGED <<ecCl, ecTick, ecClose>> /\ NoRaw

\* A write, a reply that is too long or another one, or the deadline.
CommandFails ==
  /\ ecDial.at \in DOMAIN NextCommand
  /\ ecDial' = [at |-> "failed", conn |-> 0]
  /\ ecNet' = ecNet \ {ecDial.conn}
  /\ OutsideSetup /\ UNCHANGED <<ecCl, ecMade, ecTick, ecClose>>

CloseCancels ==
  /\ ecClose = "no" /\ ecClose' = "cancelled"
  /\ OutsideSetup /\ UNCHANGED <<ecCl, ecTick, ecDial>> /\ NoRaw

CloseConn ==
  /\ ecClose = "cancelled" /\ ecClose' = "done"
  /\ ecNet' = ecNet \ {ecCl.ipConn}
  /\ ecCl' = [ecCl EXCEPT !.ipConn = 0]
  /\ OutsideSetup /\ UNCHANGED <<ecMade, ecTick, ecDial>>

InSetup ==
  \/ SetupFails \/ LoginAuth \/ Prompt \/ NextAuth \/ Authorised \/ Probe
  \/ StayOnLine \/ ParseLineList \/ RequestToken \/ TokenReply \/ Resources \/ Address
  \/ RequestIP \/ IPReply \/ ReplyFails \/ SetRequestIPConn \/ SetupDone

Keepalive == KeepaliveAsks \/ KeepaliveAnswered \/ KeepaliveStops

ECNext ==
  \/ Setup \/ InSetup \/ Keepalive \/ DialTCP \/ Command \/ CommandFails
  \/ CloseCancels \/ CloseConn

ECSpec ==
  ECInit /\ [][ECNext]_ecVars
  /\ WF_ecVars(InSetup) /\ WF_ecVars(KeepaliveAnswered) /\ SF_ecVars(KeepaliveStops)

-----------------------------------------------------------------------------
(* Properties.                                                             *)

\* Every reachable state of the client, Setup and what runs beside it holds values
\* of their types (client.go, the fields of Client).
ECTypeOK ==
  /\ ecAt \in Failing \cup {"idle", "session", "probe", "tokenReply", "rclist", "address",
                            "ipReply", "keepConn", "started"}
  /\ ecCl \in [creds : BOOLEAN, server : Lines,
               twfID : 0 .. Len(ecSrv), multi : BOOLEAN, fetch : BOOLEAN, tcpOnly : BOOLEAN,
               token : 0 .. Len(ecSrv), making : 0 .. Len(ecMade), ipConn : 0 .. Len(ecMade)]
  /\ \A i \in DOMAIN ecSrv : ecSrv[i] \in [line : Lines, ok : BOOLEAN]
  /\ \A i \in DOMAIN ecMade : ecMade[i] \in Lines
  /\ ecNet \subseteq 1 .. Len(ecMade)
  /\ ecTick \in {"off", "wait", "asking", "done"}
  /\ ecDial.at \in DOMAIN NextCommand \cup {"off", "connected", "failed"}
  /\ ecClose \in {"no", "cancelled", "done"}
  /\ ecRuns \in [calls : 0 .. MaxSetups, ended : {"no", "ready", "error"}]

\* A Setup that succeeded (client.go:208) leaves a client whose TwfID, token and
\* address connection are all of the line it uses, whatever probes, switches and
\* earlier calls came before: an authorised session unless only TCP is used.
OneLine ==
  ecRuns.ended = "ready" =>
    /\ ecCl.token = ecCl.twfID
    /\ ecSrv[ecCl.token].line = ecCl.server
    /\ ecCl.ipConn # 0 /\ ~ecCl.tcpOnly =>
         ecMade[ecCl.ipConn] = ecCl.server /\ ecSrv[ecCl.token].ok

\* No raw connection is lost: what is open is the address connection, which "CAN NOT
\* be closed" (request.go:716), that of the request under way or the dial's, and each
\* of these is open. Failed requests, repeated calls of Setup and failed dials close
\* theirs.
RawHeld == ecNet = {ecCl.ipConn, ecCl.making, ecDial.conn} \ {0}

\* Close leaves one raw connection of Setup at the most, that of a request it overtook:
\* closed when the request fails, but kept open for good by setRequestIPConn.
ClosedLeavesOne == ecClose = "done" => \A r, s \in ecNet \ {ecDial.conn} : r = s

\* Once the client is closed (client.go:114), the keepalive loop ends and so does a
\* Setup under way.
CloseEndsClient == ecClose # "no" ~> (ecTick \in {"off", "done"} /\ ecAt = "idle")
=============================================================================

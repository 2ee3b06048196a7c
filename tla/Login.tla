------------------------------- MODULE Login -------------------------------
(***************************************************************************)
(* The login of an aTrust session (client/atrust/auth): the public         *)
(* configuration, the primary method (password, SMS code, CAS, OAuth2)     *)
(* with its captcha loop, the environment report, and the chain of further *)
(* authentication services the gateway asks for one at a time.             *)
(*                                                                         *)
(* The client is sequential: an action is one HTTP exchange, or one        *)
(* question to the user, with what the code does with its outcome.  The    *)
(* gateway is external.  It keeps the factors still due, hands out one     *)
(* service at a time in any of the shapes the tests and comments of the    *)
(* code show, may ask for a captcha or for the same service again, and     *)
(* refuses a request that is not the one it waits for.  Passwords, codes   *)
(* and cookies are abstracted to what the gateway checks about them: a     *)
(* secret is bound to a fresh or a stale antiReplayRand, a code belongs to *)
(* the last message sent or to an older one.                               *)
(***************************************************************************)
EXTENDS Integers, Sequences, FiniteSets, SequencesExt

CONSTANTS MaxAttempts,  \* captchas shown before the login is given up
          MaxSteps,     \* authentication services followed in one login
          Factors,      \* services a gateway may ask for after the primary one
          MaxFactors    \* bound: factors due in one login

ASSUME LoginAssumption == /\ MaxAttempts \in Nat \ {0}
                          /\ MaxSteps \in Nat \ {0}
                          /\ MaxFactors \in Nat
                          /\ Factors \cap {"", "sendSms"} = {} \* no service, and sms by another name

VARIABLES at,      \* what the login does next
          form,    \* the request the captcha loop repeats
          tries,   \* captchas shown in this captcha loop
          steps,   \* services followed so far
          step,    \* the service to follow
          sess,    \* the session's fields
          gw,      \* the gateway
          result   \* how the login ended

loginVars == <<at, form, tries, steps, step, sess, gw, result>>

Methods == {"psw", "smsCheckCode", "cas", "httpsOauth2", "none"}
Chains == UNION {[1..n -> Factors] : n \in 0..MaxFactors}

NoStep == [service |-> "", id |-> "", mode |-> "unknown"]

\* The services continueAuth knows.
Services == {"authCheck", "sms", "customSms", "totp", "radius", "challenge",
             "accessCheck", "enhanced", "bindAuthDevice"}

\* NewSessionWithScheme, and Login with the method and cookies it is given.
LoginInit ==
  /\ at = "config" /\ form = "psw" /\ tries = 0 /\ steps = 0
  /\ step = NoStep /\ result = "none"
  /\ \E m \in Methods :
       sess = [method |-> m, ticket |-> FALSE, next |-> "", rand |-> "none", code |-> "none"]
  /\ \E due \in Chains, in \in BOOLEAN :
       gw = [due |-> due, loggedIn |-> in, id |-> "", fresh |-> FALSE]

-----------------------------------------------------------------------------
(* The shapes in which a gateway names the service it waits for. *)

Entry(type, sub, id) == [type |-> type, sub |-> sub, id |-> id]

Shapes(f) ==
  LET mine  == Entry(f, "", "own")
      other == Entry("accessCheck", "", "other")
  IN  {[next |-> f, list |-> l] : l \in {<<>>, <<mine>>, <<other, mine>>}}
      \cup {[next |-> "", list |-> <<mine>>]}
      \cup (IF f # "sms" THEN {}
            ELSE {[next |-> "sendSms", list |-> <<>>], [next |-> "", list |-> <<Entry("", "", "own")>>]})
      \cup (IF f \in {"totp", "radius", "challenge"} THEN {[next |-> "token", list |-> <<mine>>]} ELSE {})
      \cup (IF f = "totp" THEN {[next |-> "token", list |-> <<Entry("token", "totp", "own")>>]} ELSE {})

Asks(due) == IF due = <<>> THEN {[next |-> "", list |-> <<>>]} ELSE Shapes(Head(due))

GivenID(d) == IF \E i \in DOMAIN d.list : d.list[i].id = "own" THEN "own" ELSE ""

\* authStepFromData: the entry of the named service, or the first; its type
\* names the service when the answer does not, and refines "auth/token".
Selected_First(d) == IF d.list = <<>> THEN Entry("", "", "") ELSE Head(d.list)
Selected(d) ==
  LET named == {i \in DOMAIN d.list : d.next # "" /\ d.list[i].type = d.next}
  IN  IF d.list = <<>> THEN Entry("", "", "")
      ELSE IF named # {} THEN d.list[CHOOSE i \in named : \A j \in named : i <= j]
      ELSE Head(d.list)

StepFromData(d) ==
  LET e == Selected(d)
      service == CASE d.next = "" -> e.type
                   [] d.next = "token" /\ e.type \in {"totp", "radius", "challenge"} -> e.type
                   [] d.next = "token" /\ e.type = "token" /\ e.sub = "totp" -> "totp"
                   [] OTHER -> d.next
      sms == service = "sendSms" \/ (service = "" /\ e.id # "")
      s == IF sms THEN "sms" ELSE service
  IN  [service |-> s, id |-> e.id,
       mode |-> IF s # "sms" THEN "unknown" ELSE IF e.id = "" THEN "withoutID" ELSE "withID"]

-----------------------------------------------------------------------------
Fail(why) == /\ at' = "done" /\ result' = why
             /\ UNCHANGED <<form, tries, steps, step, sess, gw>>

\* The exchange or the question fails: transport, HTTP status, undecodable
\* answer, a wrong secret or an aborted challenge.
Fails == /\ at \notin {"done", "smsPhone"}
         /\ at = "chain" => steps < MaxSteps /\ step.service \in Services
         /\ Fail("failed")

\* authConfigContext: the answer replaces the csrf token, the public key and
\* antiReplayRand; a gateway that wants the ticket refreshed sees it here.
AuthConfig == sess' = [sess EXCEPT !.rand = "fresh"]

\* Login up to the choice of the method.
FirstConfig ==
  /\ at = "config"
  /\ AuthConfig
  /\ at' = CASE gw.loggedIn -> "info"
             [] sess.method \in {"psw", "smsCheckCode"} -> "submit"
             [] sess.method \in {"cas", "httpsOauth2"} -> "callback"
             [] OTHER -> "done"
  /\ result' = IF ~gw.loggedIn /\ sess.method = "none" THEN "no method" ELSE result
  /\ form' = IF sess.method = "psw" THEN "psw" ELSE "sendSms"
  /\ UNCHANGED <<tries, steps, step, gw>>

\* The gateway does not offer the method for this login domain.
NotOffered == at = "config" /\ ~gw.loggedIn /\ sess.method # "none" /\ Fail("not offered")

-----------------------------------------------------------------------------
(* withGraphCheckCode: the request, and again with each captcha. *)

\* The gateway wants a captcha first.  It answers with an error code or with
\* none; only the second replaces the ticket and the next service.
CaptchaWanted ==
  /\ at = "submit"
  /\ \E ok \in BOOLEAN, r \in {sess.rand, "stale"} :
       sess' = [sess EXCEPT !.rand = IF form = "psw" THEN r ELSE @,
                            !.ticket = IF ok /\ form # "sendSms" THEN FALSE ELSE @,
                            !.next = IF ok /\ form = "psw" THEN "" ELSE @]
  /\ IF tries < MaxAttempts
     THEN at' = "image" /\ tries' = tries + 1 /\ result' = result
     ELSE at' = "done" /\ result' = "captcha" /\ tries' = tries
  /\ UNCHANGED <<form, steps, step, gw>>

\* checkCode: the picture.
GetImage == at = "image" /\ at' = "captchaConfig" /\ UNCHANGED <<form, tries, steps, step, sess, gw, result>>

\* The configuration is read again before the captcha is shown.
CaptchaConfig == /\ at = "captchaConfig" /\ at' = "captcha" /\ AuthConfig
                 /\ UNCHANGED <<form, tries, steps, step, gw, result>>

\* HandleClickCaptcha and graphCheckCodeFromResponse.
SolveCaptcha == at = "captcha" /\ at' = "submit" /\ UNCHANGED <<form, tries, steps, step, sess, gw, result>>

\* What a gateway accepts: a password bound to the rand it issued last, the
\* code of the message it sent last.
SubmitRight == CASE form = "psw" -> sess.rand = "fresh"
                 [] form = "smsCode" -> sess.code = "current"
                 [] OTHER -> TRUE

\* The gateway refuses what it does not wait for.
Refuse == at' = "done" /\ result' = "refused" /\ UNCHANGED <<step, sess, gw>>

\* psw: the ticket, the next service as the answer names it, if it does, and the
\* fresh rand the answer carries (or none).  It carries no list of services, so a
\* gateway that wants "sms" next names it in the answer to authCheck.
PswNames == {"", "authCheck"} \cup (IF gw.due = <<>> THEN {} ELSE {Head(gw.due)} \ {"sms"})

PswAccepted ==
  /\ \E next \in PswNames :
       sess' = [sess EXCEPT !.ticket = TRUE, !.next = next, !.rand = "fresh"]
  /\ at' = "report" /\ UNCHANGED <<step, gw, result>>

SubmitPsw == /\ at = "submit" /\ form = "psw"
             /\ IF SubmitRight THEN PswAccepted ELSE Refuse
             /\ UNCHANGED <<form, tries, steps>>

\* sendSms: a message leaves, and codes of earlier ones are void.
SmsSent ==
  /\ at = "submit" /\ form = "sendSms"
  /\ sess' = [sess EXCEPT !.code = IF @ = "none" THEN @ ELSE "old"]
  /\ at' = "code"
  /\ UNCHANGED <<form, tries, steps, step, gw, result>>

\* The user types the code; the captcha loop starts again for its check.
EnterCode ==
  /\ at = "code" /\ at' = "submit"
  /\ form' = "smsCode" /\ tries' = 0
  /\ sess' = [sess EXCEPT !.code = "current"]
  /\ UNCHANGED <<steps, step, gw, result>>

SmsCodeAccepted == /\ sess' = [sess EXCEPT !.ticket = TRUE]
                   /\ at' = "report" /\ UNCHANGED <<step, gw, result>>

SubmitSmsCode == /\ at = "submit" /\ form = "smsCode"
                 /\ IF SubmitRight THEN SmsCodeAccepted ELSE Refuse
                 /\ UNCHANGED <<form, tries, steps>>

\* cas and httpsOauth2: the callback, given or typed in by the user, is
\* followed up to the portal redirect that carries the ticket.
FollowCallback ==
  /\ at = "callback" /\ at' = "callbackConfig"
  /\ sess' = [sess EXCEPT !.ticket = TRUE]
  /\ UNCHANGED <<form, tries, steps, step, gw, result>>

CallbackConfig ==
  /\ at = "callbackConfig" /\ at' = "report" /\ AuthConfig
  /\ UNCHANGED <<form, tries, steps, step, gw, result>>

\* reportEnv, then the first service: the one psw named, or authCheck.
ReportEnv ==
  /\ at = "report"
  /\ IF sess.ticket
     THEN /\ at' = "chain"
          /\ step' = [NoStep EXCEPT !.service = IF sess.next = "" THEN "authCheck" ELSE sess.next]
          /\ result' = result
     ELSE at' = "done" /\ result' = "refused" /\ step' = step
  /\ UNCHANGED <<form, tries, steps, sess, gw>>

-----------------------------------------------------------------------------
(* continueAuth *)

Follow(service) == at = "chain" /\ steps < MaxSteps /\ step.service = service

ChainEnds == /\ Follow("") /\ at' = "info"
             /\ UNCHANGED <<form, tries, steps, step, sess, gw, result>>

\* A service the client does not know; "refused" when the gateway named one
\* it does know.
ChainUnsupported ==
  /\ at = "chain" /\ steps < MaxSteps /\ step.service \notin Services \cup {""}
  /\ Fail(IF gw.due # <<>> /\ Head(gw.due) \notin Services THEN "unsupported" ELSE "refused")

\* The loop has run MaxSteps times.
ChainTooLong == at = "chain" /\ steps = MaxSteps /\ Fail("too long")

\* The gateway waits for this service, named with the id it gave.
Waited(service) == gw.due # <<>> /\ Head(gw.due) = service
WaitedID(service) == Waited(service) /\ step.id = gw.id

\* The gateway's answer to an accepted request: the next service that is due,
\* or the same one again.
HandOut(dues) ==
  \E due \in dues : \E d \in Asks(due) :
    /\ step' = StepFromData(d)
    /\ gw' = [gw EXCEPT !.due = due, !.id = GivenID(d), !.fresh = FALSE]
    /\ at' = "chain"
    /\ UNCHANGED <<sess, result>>

Answered == HandOut({gw.due, Tail(gw.due)})

AuthCheck == /\ Follow("authCheck") /\ steps' = steps + 1
             /\ HandOut({gw.due})
             /\ UNCHANGED <<form, tries>>

\* completeTOTP, completeRadius, accessCheck, completeEnhancedAuth and
\* bindAuthDevice: one request each.  The token of auth/challenge is bound to
\* antiReplayRand, and the last two send the id of the step.
Right(service) == CASE service = "challenge" -> Waited(service) /\ sess.rand = "fresh"
                    [] service \in {"enhanced", "bindAuthDevice"} -> WaitedID(service)
                    [] OTHER -> Waited(service)

OneRequest_NotCounted(service) ==
  /\ Follow(service) /\ steps' = steps
  /\ IF Right(service) THEN Answered ELSE Refuse
  /\ UNCHANGED <<form, tries>>
OneRequest(service) ==
  /\ Follow(service) /\ steps' = steps + 1
  /\ IF Right(service) THEN Answered ELSE Refuse
  /\ UNCHANGED <<form, tries>>

Single == {"totp", "radius", "challenge", "accessCheck", "enhanced", "bindAuthDevice"}
CompleteStep == \E service \in Single : OneRequest(service)

\* completeSMS: with an id the configuration is refreshed before the message,
\* without one after it.
BeginSMS ==
  /\ Follow("sms") /\ steps' = steps + 1
  /\ CASE step.mode = "withID" -> at' = "smsConfig" /\ result' = result
       [] step.mode = "withoutID" -> at' = "smsPhone" /\ result' = result
       [] OTHER -> at' = "done" /\ result' = "refused"
  /\ UNCHANGED <<form, tries, step, sess, gw>>

SMSConfig ==
  /\ at \in {"smsConfig", "smsRefresh"}
  /\ at' = IF at = "smsConfig" THEN "smsPhone" ELSE "smsCode"
  /\ AuthConfig /\ gw' = [gw EXCEPT !.fresh = TRUE]
  /\ UNCHANGED <<form, tries, steps, step, result>>

\* phoneNumber: a failure is only logged.
PhoneNumber == at = "smsPhone" /\ at' = "smsSend" /\ UNCHANGED <<form, tries, steps, step, sess, gw, result>>

\* authSms: the gateway that gave an id wants the refresh before it.
SendRight == WaitedID("sms") /\ (step.mode = "withID" => gw.fresh)

SmsAccepted == /\ sess' = [sess EXCEPT !.code = IF @ = "none" THEN @ ELSE "old"]
               /\ at' = IF step.mode = "withoutID" THEN "smsRefresh" ELSE "smsCode"
               /\ UNCHANGED <<step, gw, result>>

AuthSms == /\ at = "smsSend"
           /\ IF SendRight THEN SmsAccepted ELSE Refuse
           /\ UNCHANGED <<form, tries, steps>>

\* smsCheckCode: the user's code, checked against the message sent last.
AskSMSCode ==
  /\ at = "smsCode" /\ at' = "smsCheck"
  /\ sess' = [sess EXCEPT !.code = "current"]
  /\ UNCHANGED <<form, tries, steps, step, gw, result>>

CheckRight == WaitedID("sms") /\ gw.fresh /\ sess.code = "current"

CheckSMS == /\ at = "smsCheck"
            /\ IF CheckRight THEN Answered ELSE Refuse
            /\ UNCHANGED <<form, tries, steps>>

\* completeCustomSMS: sendCustomSMS, then the code and its check.
SendCustomSMS ==
  /\ Follow("customSms") /\ steps' = steps + 1
  /\ IF Waited("customSms") THEN at' = "customCode" /\ result' = result
                            ELSE at' = "done" /\ result' = "refused"
  /\ UNCHANGED <<form, tries, step, sess, gw>>

CheckCustomSMS ==
  /\ at = "customCode" /\ Answered
  /\ UNCHANGED <<form, tries, steps>>

\* onlineInfo and sessionCookies.
OnlineInfo == /\ at = "info" /\ at' = "done" /\ result' = "ok"
              /\ UNCHANGED <<form, tries, steps, step, sess, gw>>

-----------------------------------------------------------------------------
Captcha == CaptchaWanted \/ GetImage \/ CaptchaConfig \/ SolveCaptcha
Primary == \/ SubmitPsw \/ SmsSent \/ EnterCode \/ SubmitSmsCode
           \/ FollowCallback \/ CallbackConfig
SecondSMS == BeginSMS \/ SMSConfig \/ PhoneNumber \/ AuthSms \/ AskSMSCode \/ CheckSMS
Chain == \/ ChainEnds \/ ChainUnsupported \/ ChainTooLong \/ AuthCheck
         \/ CompleteStep \/ SendCustomSMS \/ CheckCustomSMS

LoginNext == \/ FirstConfig \/ NotOffered \/ Captcha \/ Primary \/ ReportEnv
             \/ Chain \/ SecondSMS \/ OnlineInfo \/ Fails

\* Every exchange ends: the HTTP client has a timeout of 20 seconds.  That the
\* user answers is an assumption.
LoginFair == WF_loginVars(LoginNext)
LoginSpec == LoginInit /\ [][LoginNext]_loginVars /\ LoginFair

-----------------------------------------------------------------------------
\* Type correctness of the login's state.
LoginTypeOK ==
  /\ at \in {"config", "submit", "image", "captchaConfig", "captcha", "code", "callback",
             "callbackConfig", "report", "chain", "smsConfig", "smsPhone", "smsSend",
             "smsRefresh", "smsCode", "smsCheck", "customCode", "info", "done"}
  /\ form \in {"psw", "sendSms", "smsCode"}
  /\ tries \in 0..MaxAttempts /\ steps \in 0..MaxSteps
  /\ step \in [service : Services \cup Factors \cup {"", "token"}, id : {"", "own", "other"},
               mode : {"unknown", "withID", "withoutID"}]
  /\ sess \in [method : Methods, ticket : BOOLEAN, next : {"", "authCheck"} \cup Factors,
               rand : {"none", "fresh", "stale"}, code : {"none", "current", "old"}]
  /\ gw.due \in Chains /\ gw.loggedIn \in BOOLEAN /\ gw.id \in {"", "own"} /\ gw.fresh \in BOOLEAN
  /\ result \in {"none", "ok", "failed", "no method", "not offered", "captcha",
                "refused", "unsupported", "too long"}

\* The client understands the gateway: whatever shape an answer has, it never
\* sends a request the gateway does not wait for, a secret bound to a stale
\* antiReplayRand, a code of an older message or a code before the refresh the
\* gateway needs (authStepFromData, completeSMS, withGraphCheckCode, psw).
NeverRefused == result # "refused"

\* A login that reports success has passed every factor the gateway asked for
\* (continueAuth), unless the gateway took the saved cookies.
AllFactorsPassed == result = "ok" /\ ~gw.loggedIn => gw.due = <<>> /\ sess.ticket

\* A login ends, even against a gateway that wants one captcha after the other
\* or asks for the same service for ever (withGraphCheckCode, continueAuth).
LoginEnds == <>(at = "done")
=============================================================================

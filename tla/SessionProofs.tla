---------------------------- MODULE SessionProofs ----------------------------
(***************************************************************************)
(* What an Android host can rely on, for every number of calls, sessions   *)
(* and TUN stacks: no session is lost with everything open, and the data   *)
(* plane is not taken down under its users.  By induction on SessionInv,   *)
(* which says where every call stands and who cares for what it touches.   *)
(***************************************************************************)
EXTENDS MobileSession, TLAPS

USE SessionAssumption

Owners == Logins \cup {"stop"}

\* Call c closes its session, and how far it may have got.
Teardown == {"quiet", "close", "sweep", "file", "look", "drain", "lwip", "down"}
TearsDown(c, s) == Kind(c) \in Owners /\ call[c].pc \in Teardown /\ call[c].sess = s

CallRec == [kind : Kinds \cup {"none"},
            pc : Teardown \cup {"returned", "login", "serve", "take", "publish", "mark", "get",
                                "unserve", "detach", "create", "attach", "run"},
            own : Sessions \cup {0}, sess : Sessions \cup {0}, stack : Stacks \cup {0}]

\* A session, and a stack with its Run.
SessionRec == [made : BOOLEAN, closed : BOOLEAN, up : BOOLEAN, listening : BOOLEAN,
               tunStack : Stacks \cup {0}]
StackRec == [of : Sessions \cup {0}, closed : BOOLEAN, once : {"no", "busy", "done"},
             file : BOOLEAN, lwip : BOOLEAN, flow : BOOLEAN, started : BOOLEAN,
             run : {"no", "read", "got", "write", "dial", "done"}]

USE DEF SessionRec, StackRec

\* Sessions and stacks are as new until they are made.
New ==
  /\ \A s \in Sessions : ~session[s].made => session[s] = NoSession
  /\ \A k \in Stacks : tun[k].of = 0 => tun[k] = NoStack

MadeOrNone(s) == s = 0 \/ session[s].made

\* Where call c stands: what it has and what it is about.
Stands(c) ==
  LET r == call[c] IN
  /\ MadeOrNone(r.own) /\ MadeOrNone(r.sess)
  /\ r.pc = "returned" => r = NoCall
  /\ r.own # 0 => r.kind \in Logins
  /\ r.pc \in {"login", "take", "publish", "mark", "quiet", "down"} => r.kind \in Owners
  /\ r.pc \in {"login", "publish"} => r.kind \in Logins
  /\ r.pc = "login" => r.own = 0 /\ r.sess = 0
  /\ r.kind \in Logins /\ r.pc # "login" => r.own # 0
  /\ r.pc = "serve" => \/ r.kind = "startProxy" /\ r.sess = 0
                       \/ r.kind = "startProxyFrontend" /\ r.sess # 0
  /\ r.pc \in {"get", "unserve", "detach"} => r.kind \in Kinds \ Owners
  /\ r.pc = "take" => r.sess \in {0, r.own}
  /\ r.pc = "publish" => r.sess = 0 \/ session[r.sess].closed
  /\ r.pc \in {"mark", "unserve", "detach", "create", "attach", "run"} \cup Teardown => r.sess # 0
  /\ r.pc \in {"create", "attach", "run"} => r.kind = "startStack"
  /\ r.pc \in {"attach", "run"} => r.stack # 0 /\ tun[r.stack].of = r.sess
  /\ r.pc = "detach" => r.kind = "stopStack"
  /\ r.pc \in {"close", "sweep", "file", "look", "drain", "lwip"}
       => r.stack # 0 /\ tun[r.stack].of # 0 /\ r.kind \in Owners \cup {"startStack", "stopStack"}

CallsStand ==
  /\ call \in [Calls -> CallRec]
  /\ MadeOrNone(activeSession)
  /\ \A c \in Calls : Stands(c)

\* The host does one login and one StartStack at a time.
OneAtATime ==
  \A c, d \in Calls :
    \/ Kind(c) \in Logins /\ Kind(d) \in Logins
    \/ Kind(c) = "startStack" /\ Kind(d) = "startStack"
    => c = d

\* A login that has stopped what was active finds nothing active to replace.
NothingActive ==
  \A c \in Calls : Kind(c) \in Logins
    => \/ call[c].pc \in {"login", "serve", "take"}
       \/ call[c].own = call[c].sess /\ call[c].pc # "publish"
       \/ activeSession = 0

\* A closed session is taken down by one call, until everything is closed.
ClosedByOne ==
  /\ \A s \in Sessions : session[s].made
       => /\ session[s].up /\ session[s].closed => \E c \in Calls : TearsDown(c, s)
          /\ ~session[s].up => session[s].closed /\ \A c \in Calls : ~TearsDown(c, s)
          /\ session[s].closed => session[s].tunStack = 0
  /\ \A c, d \in Calls : \A s \in Sessions : TearsDown(c, s) /\ TearsDown(d, s) => c = d
  /\ \A c \in Calls : \A s \in Sessions : TearsDown(c, s) => session[s].closed

\* A stack in a session is the one that StartStack waits for there.
Attached ==
  \A s \in Sessions : session[s].tunStack # 0
    => \E c \in Calls : /\ At(c, "run") /\ call[c].sess = s
                        /\ call[c].stack = session[s].tunStack

\* Run has ended or can only read, and reads nothing.
Stopped(k) == tun[k].run = "done" \/ (~tun[k].file /\ tun[k].run \in {"no", "read"})

\* What is known of a stack and its Run ...
StackStands(k) ==
  /\ tun[k].run # "no" => tun[k].of # 0 /\ tun[k].started
  /\ tun[k].of # 0 => tun[k].lwip \/ tun[k].closed
  /\ tun[k].run \in {"write", "dial"} => tun[k].lwip
  /\ tun[k].once = "done" => Stopped(k)

\* ... and by a call that closes it.
StackOf(c) ==
  LET k == call[c].stack IN
  k # 0 => /\ At(c, "quiet") => tun[k].of = call[c].sess
           /\ call[c].pc \in {"sweep", "file", "look", "drain", "lwip"} => tun[k].closed
           /\ At(c, "look") => ~tun[k].file
           /\ At(c, "lwip") => Stopped(k)

StacksStand == (\A k \in Stacks : StackStands(k)) /\ (\A c \in Calls : StackOf(c))

\* Call c is about to close stack k.
WillClose(c, k) == Closing(c, k) \/ (At(c, "quiet") /\ call[c].stack = k)

\* A stack that was made is in its session, or somebody is about to close it, or
\* has.
CaredForStack ==
  \A k \in Stacks : tun[k].of # 0
    => \/ session[tun[k].of].tunStack = k
       \/ \E c \in Calls : WillClose(c, k)
       \/ Stopped(k)

SessionInv ==
  /\ SessionTypeOK /\ New /\ CallsStand /\ OneAtATime
  /\ NothingActive /\ ClosedByOne /\ NoOrphan
  /\ Attached /\ StacksStand /\ CaredForStack

-----------------------------------------------------------------------------
(* What a step of one call leaves of the others.                           *)

\* Only call c moves.
Moves(c) ==
  /\ call' \in [Calls -> CallRec]
  /\ \A d \in Calls \ {c} : call'[d] = call[d]

\* A session that was made or closed stays so; a stack stays with its session, and
\* closed or stopped.
Grows ==
  /\ \A s \in Sessions : /\ session[s].made => session'[s].made
                         /\ session[s].closed => session'[s].closed
  /\ \A k \in Stacks : tun[k].of # 0 => /\ tun'[k].of = tun[k].of
                                        /\ tun[k].closed => tun'[k].closed
                                        /\ tun'[k].file => tun[k].file
                                        /\ Stopped(k) => Stopped(k)'

\* The constants of a call.
LEMMA NoCallType == NoCall \in CallRec /\ NoCall.pc = "returned" /\ NoCall.kind = "none"
                    /\ NoCall.own = 0 /\ NoCall.sess = 0 /\ NoCall.stack = 0
BY DEF NoCall, CallRec

\* What Becomes does.
LEMMA BecomesEffect ==
  ASSUME CallsStand, NEW c \in Calls, NEW r \in CallRec, Becomes(c, r)
  PROVE  /\ Moves(c)
         /\ call'[c] = IF r.pc = "returned" THEN NoCall ELSE r
BY NoCallType DEF Becomes, Moves, CallsStand

\* And Goto.
LEMMA GotoEffect ==
  ASSUME CallsStand, NEW c \in Calls, NEW pc \in Teardown \cup
           {"returned", "login", "serve", "take", "publish", "mark", "get",
            "unserve", "detach", "create", "attach", "run"},
         Goto(c, pc)
  PROVE  /\ Moves(c)
         /\ pc = "returned" => call'[c] = NoCall
         /\ pc # "returned" => /\ call'[c].pc = pc /\ call'[c].kind = call[c].kind
                              /\ call'[c].own = call[c].own /\ call'[c].sess = call[c].sess
                              /\ call'[c].stack = call[c].stack
<1> DEFINE r == [call[c] EXCEPT !.pc = pc]
<1>1. /\ call[c] \in CallRec /\ r \in CallRec /\ r.pc = pc /\ r.kind = call[c].kind
      /\ r.own = call[c].own /\ r.sess = call[c].sess /\ r.stack = call[c].stack
  BY DEF CallsStand, CallRec
<1>2. Becomes(c, r)
  BY DEF Goto
<1> HIDE DEF r
<1> QED BY <1>1, <1>2, BecomesEffect

\* A call that takes a session it made, one it found, or a stack.
TakesOwn(c, x, pc) == Becomes(c, [call[c] EXCEPT !.own = x, !.pc = pc])
TakesSess(c, x, pc) == Becomes(c, [call[c] EXCEPT !.sess = x, !.pc = pc])
TakesStack(c, x, pc) == Becomes(c, [call[c] EXCEPT !.stack = x, !.pc = pc])

LEMMA TakesOwnEffect ==
  ASSUME CallsStand, NEW c \in Calls, NEW x \in Sessions, NEW pc \in {"take", "serve"},
         TakesOwn(c, x, pc)
  PROVE  /\ Moves(c)
         /\ pc = "returned" => call'[c] = NoCall
         /\ pc # "returned" => /\ call'[c].pc = pc /\ call'[c].own = x
                              /\ call'[c].kind = call[c].kind /\ call'[c].sess = call[c].sess /\ call'[c].stack = call[c].stack
<1> DEFINE r == [call[c] EXCEPT !.own = x, !.pc = pc]
<1>1. call[c] \in CallRec
  BY DEF CallsStand
<1>2. r \in CallRec
  BY <1>1 DEF CallRec, Teardown
<1>3. r.pc = pc /\ r.own = x
  BY <1>1 DEF CallRec
<1>4. /\ r.kind = call[c].kind /\ r.sess = call[c].sess /\ r.stack = call[c].stack
  BY <1>1 DEF CallRec
<1>5. Becomes(c, r)
  BY DEF TakesOwn
<1> HIDE DEF r
<1> QED BY <1>2, <1>3, <1>4, <1>5, BecomesEffect

LEMMA TakesSessEffect ==
  ASSUME CallsStand, NEW c \in Calls, NEW x \in Sessions \cup {0}, NEW pc \in {"mark", "returned", "publish"},
         TakesSess(c, x, pc)
  PROVE  /\ Moves(c)
         /\ pc = "returned" => call'[c] = NoCall
         /\ pc # "returned" => /\ call'[c].pc = pc /\ call'[c].sess = x
                              /\ call'[c].kind = call[c].kind /\ call'[c].own = call[c].own /\ call'[c].stack = call[c].stack
<1> DEFINE r == [call[c] EXCEPT !.sess = x, !.pc = pc]
<1>1. call[c] \in CallRec
  BY DEF CallsStand
<1>2. r \in CallRec
  BY <1>1 DEF CallRec, Teardown
<1>3. r.pc = pc /\ r.sess = x
  BY <1>1 DEF CallRec
<1>4. /\ r.kind = call[c].kind /\ r.own = call[c].own /\ r.stack = call[c].stack
  BY <1>1 DEF CallRec
<1>5. Becomes(c, r)
  BY DEF TakesSess
<1> HIDE DEF r
<1> QED BY <1>2, <1>3, <1>4, <1>5, BecomesEffect

LEMMA TakesStackEffect ==
  ASSUME CallsStand, NEW c \in Calls, NEW x \in Stacks \cup {0}, NEW pc \in {"returned", "close", "attach"},
         TakesStack(c, x, pc)
  PROVE  /\ Moves(c)
         /\ pc = "returned" => call'[c] = NoCall
         /\ pc # "returned" => /\ call'[c].pc = pc /\ call'[c].stack = x
                              /\ call'[c].kind = call[c].kind /\ call'[c].own = call[c].own /\ call'[c].sess = call[c].sess
<1> DEFINE r == [call[c] EXCEPT !.stack = x, !.pc = pc]
<1>1. call[c] \in CallRec
  BY DEF CallsStand
<1>2. r \in CallRec
  BY <1>1 DEF CallRec, Teardown
<1>3. r.pc = pc /\ r.stack = x
  BY <1>1 DEF CallRec
<1>4. /\ r.kind = call[c].kind /\ r.own = call[c].own /\ r.sess = call[c].sess
  BY <1>1 DEF CallRec
<1>5. Becomes(c, r)
  BY DEF TakesStack
<1> HIDE DEF r
<1> QED BY <1>2, <1>3, <1>4, <1>5, BecomesEffect

\* A call that does not move stands where it stood.
LEMMA StandsStill ==
  ASSUME SessionInv, NEW d \in Calls, call'[d] = call[d], Grows
  PROVE  Stands(d)' /\ StackOf(d)'
<1>1. /\ call[d] \in CallRec
      /\ Stands(d) /\ StackOf(d)
  BY DEF SessionInv, CallsStand, StacksStand
<1>2. /\ call[d].own \in Sessions \cup {0} /\ call[d].sess \in Sessions \cup {0}
      /\ call[d].stack \in Stacks \cup {0}
      /\ 0 \notin Sessions /\ 0 \notin Stacks
  BY <1>1 DEF CallRec, Sessions, Stacks
<1>3. /\ MadeOrNone(call[d].own) => MadeOrNone(call[d].own)'
      /\ MadeOrNone(call[d].sess) => MadeOrNone(call[d].sess)'
  BY <1>1, <1>2 DEF MadeOrNone, Grows
<1>4. Stands(d)'
  BY <1>1, <1>2, <1>3 DEF Stands, Grows, Teardown
<1>5. StackOf(d)'
  BY <1>1, <1>2 DEF Stands, StackOf, Grows, Teardown, At
<1> QED BY <1>4, <1>5

LEMMA OthersStand ==
  ASSUME SessionInv, NEW c \in Calls, Moves(c), Grows
  PROVE  \A d \in Calls \ {c} : Stands(d)' /\ StackOf(d)'
BY StandsStill DEF Moves

\* So only what call c does is left to show.
LEMMA CallsStandStep ==
  ASSUME SessionInv, NEW c \in Calls, Moves(c), Grows,
         MadeOrNone(activeSession)', Stands(c)'
  PROVE  CallsStand'
BY OthersStand DEF CallsStand, Moves

LEMMA StacksStandStep ==
  ASSUME SessionInv, NEW c \in Calls, Moves(c), Grows,
         \A k \in Stacks : StackStands(k)', StackOf(c)'
  PROVE  StacksStand'
BY OthersStand DEF StacksStand

\* A call that does not change its kind is as alone as before.
LEMMA OneAtATimeStep ==
  ASSUME SessionInv, NEW c \in Calls, Moves(c), call'[c].kind \in {call[c].kind, "none"}
  PROVE  OneAtATime'
BY DEF SessionInv, OneAtATime, Moves, Kind, Logins

LEMMA NothingActiveStep ==
  ASSUME SessionInv, NEW c \in Calls, Moves(c),
         activeSession' \in {activeSession, 0},
         call'[c].kind \in Logins
           => \/ call'[c].pc \in {"login", "serve", "take"}
              \/ call'[c].own = call'[c].sess /\ call'[c].pc # "publish"
              \/ activeSession' = 0
  PROVE  NothingActive'
BY DEF SessionInv, NothingActive, Moves, Kind

\* The sessions change at most in whether they listen.
SameSessions ==
  \A s \in Sessions : /\ session'[s].made = session[s].made /\ session'[s].up = session[s].up
                      /\ session'[s].closed = session[s].closed
                      /\ session'[s].tunStack = session[s].tunStack

LEMMA ClosedByOneStep ==
  ASSUME SessionInv, NEW c \in Calls, Moves(c), SameSessions,
         \A s \in Sessions : TearsDown(c, s)' <=> TearsDown(c, s)
  PROVE  ClosedByOne'
<1>1. \A d \in Calls : \A s \in Sessions : TearsDown(d, s)' <=> TearsDown(d, s)
  BY DEF TearsDown, Moves, Kind
<1> QED BY <1>1 DEF SessionInv, ClosedByOne, SameSessions

LEMMA NoOrphanStep ==
  ASSUME SessionInv, NEW c \in Calls, Moves(c), activeSession' = activeSession,
         \A s \in Sessions : /\ session'[s].up => session[s].up
                             /\ Holds(c, s) /\ session'[s].up => Holds(c, s)'
  PROVE  NoOrphan'
<1>1. \A d \in Calls \ {c} : \A s \in Sessions : Holds(d, s)' <=> Holds(d, s)
  BY DEF Holds, Moves, Kind, InProgress, At
<1> QED BY <1>1 DEF SessionInv, NoOrphan

LEMMA AttachedStep ==
  ASSUME SessionInv, NEW c \in Calls, Moves(c), ~At(c, "run"),
         \A s \in Sessions : session'[s].tunStack \in {session[s].tunStack, 0}
  PROVE  Attached'
<1>1. \A d \in Calls \ {c} : (At(d, "run")' <=> At(d, "run")) /\ call'[d] = call[d]
  BY DEF Moves, At
<1> QED BY <1>1 DEF SessionInv, Attached

LEMMA CaredForStep ==
  ASSUME SessionInv, NEW c \in Calls, Moves(c), Grows,
         \A k \in Stacks : /\ tun'[k].of = tun[k].of
                           /\ WillClose(c, k) => WillClose(c, k)' \/ Stopped(k)',
         \A s \in Sessions : session'[s].tunStack = session[s].tunStack
  PROVE  CaredForStack'
<1>1. \A d \in Calls \ {c} : \A k \in Stacks : WillClose(d, k)' <=> WillClose(d, k)
  BY DEF WillClose, Closing, Moves, At
<1>2. \A k \in Stacks : tun[k].of \in Sessions \cup {0}
  BY DEF SessionInv, SessionTypeOK
<1> QED BY <1>1, <1>2 DEF SessionInv, CaredForStack, Grows

\* The typed parts of the invariant.
LEMMA Typed ==
  ASSUME SessionInv
  PROVE  /\ call \in [Calls -> CallRec] /\ activeSession \in Sessions \cup {0}
         /\ session \in [Sessions -> SessionRec]
         /\ tun \in [Stacks -> StackRec]
         /\ 0 \notin Sessions /\ 0 \notin Stacks
         /\ \A c \in Calls : Stands(c) /\ StackOf(c)
         /\ \A k \in Stacks : StackStands(k)
<1>1. 0 \notin Sessions /\ 0 \notin Stacks
  BY DEF Sessions, Stacks
<1>2. activeSession \in Sessions \cup {0} /\ session \in [Sessions -> SessionRec]
      /\ tun \in [Stacks -> StackRec]
  BY DEF SessionInv, SessionTypeOK
<1>3. /\ call \in [Calls -> CallRec]
      /\ \A c \in Calls : Stands(c) /\ StackOf(c)
      /\ \A k \in Stacks : StackStands(k)
  BY DEF SessionInv, CallsStand, StacksStand
<1> QED BY <1>1, <1>2, <1>3

\* The type invariant, when the state is typed.
LEMMA TypeStep ==
  ASSUME NEW c \in Calls, Moves(c), activeSession' \in Sessions \cup {0},
         session' \in [Sessions -> SessionRec],
         tun' \in [Stacks -> StackRec],
         \A s \in Sessions : session'[s].tunStack # 0 => tun'[session'[s].tunStack].of = s
  PROVE  SessionTypeOK'
<1>1. \A d \in Calls : call'[d] \in CallRec
  BY DEF Moves
<1>2. \A d \in Calls : /\ call'[d].kind \in Kinds \cup {"none"}
                       /\ {call'[d].own, call'[d].sess} \subseteq Sessions \cup {0}
                       /\ call'[d].stack \in Stacks \cup {0}
  BY <1>1 DEF CallRec
<1> QED BY <1>2 DEF SessionTypeOK, Kind

\* A step that neither makes, takes nor closes a session, nor gives it a stack.
LEMMA CallMoves ==
  ASSUME SessionInv, NEW c \in Calls, Moves(c), call'[c].kind \in {call[c].kind, "none"},
         Grows, SameSessions, activeSession' = activeSession, SessionTypeOK', New',
         Stands(c)', StackOf(c)', \A k \in Stacks : StackStands(k)',
         call'[c].kind \in Logins
           => \/ call'[c].pc \in {"login", "serve", "take"}
              \/ call'[c].own = call'[c].sess /\ call'[c].pc # "publish"
              \/ activeSession = 0,
         \A s \in Sessions : /\ TearsDown(c, s)' <=> TearsDown(c, s)
                             /\ Holds(c, s) /\ session'[s].up => Holds(c, s)',
         ~At(c, "run"),
         \A k \in Stacks : /\ tun'[k].of = tun[k].of
                           /\ WillClose(c, k) => WillClose(c, k)' \/ Stopped(k)'
  PROVE  SessionInv'
<1>1. MadeOrNone(activeSession)'
  BY Typed DEF SessionInv, CallsStand, MadeOrNone, SameSessions
<1>2. CallsStand' /\ StacksStand'
  BY <1>1, CallsStandStep, StacksStandStep
<1>3. OneAtATime' /\ NothingActive' /\ ClosedByOne'
  BY OneAtATimeStep, NothingActiveStep, ClosedByOneStep
<1>4. NoOrphan' /\ Attached' /\ CaredForStack'
  BY NoOrphanStep, AttachedStep, CaredForStep DEF SameSessions
<1> QED BY <1>2, <1>3, <1>4 DEF SessionInv

\* The same when the stacks stay as they are.
LEMMA CallMovesOnly ==
  ASSUME SessionInv, NEW c \in Calls, Moves(c), call'[c].kind \in {call[c].kind, "none"},
         tun' = tun, activeSession' = activeSession, SameSessions,
         session' \in [Sessions -> SessionRec],
         \A s \in Sessions : ~session[s].made => session'[s] = session[s],
         Stands(c)', StackOf(c)',
         call'[c].kind \in Logins
           => \/ call'[c].pc \in {"login", "serve", "take"}
              \/ call'[c].own = call'[c].sess /\ call'[c].pc # "publish"
              \/ activeSession = 0,
         \A s \in Sessions : /\ TearsDown(c, s)' <=> TearsDown(c, s)
                             /\ Holds(c, s) /\ session'[s].up => Holds(c, s)',
         ~At(c, "run"),
         \A k \in Stacks : WillClose(c, k) => WillClose(c, k)' \/ Stopped(k)
  PROVE  SessionInv'
<1>1. Grows
  BY DEF Grows, SameSessions, Stopped
<1>2. SessionTypeOK'
  BY Typed DEF SessionInv, SessionTypeOK, SameSessions, Moves, CallRec, Kind
<1>3. New'
  BY DEF SessionInv, New, SameSessions
<1>4. \A k \in Stacks : StackStands(k)' /\ (Stopped(k)' <=> Stopped(k))
  BY Typed DEF StackStands, Stopped
<1> QED BY <1>1, <1>2, <1>3, <1>4, CallMoves

\* And when nothing but the call changes.
LEMMA CallMovesAlone ==
  ASSUME SessionInv, NEW c \in Calls, Moves(c), call'[c].kind \in {call[c].kind, "none"},
         UNCHANGED <<activeSession, session, tun>>,
         Stands(c)', StackOf(c)',
         call'[c].kind \in Logins
           => \/ call'[c].pc \in {"login", "serve", "take"}
              \/ call'[c].own = call'[c].sess /\ call'[c].pc # "publish"
              \/ activeSession = 0,
         \A s \in Sessions : /\ TearsDown(c, s)' <=> TearsDown(c, s)
                             /\ Holds(c, s) /\ session[s].up => Holds(c, s)',
         ~At(c, "run"),
         \A k \in Stacks : WillClose(c, k) => WillClose(c, k)' \/ Stopped(k)
  PROVE  SessionInv'
<1>1. SameSessions
  BY DEF SameSessions
<1> QED BY <1>1, Typed, CallMovesOnly

-----------------------------------------------------------------------------
(* Steps of a call that leave the sessions' life and the stacks alone.     *)

\* What is known of a call.
LEMMA Here ==
  ASSUME SessionInv, NEW c \in Calls
  PROVE  /\ CallsStand /\ call[c] \in CallRec /\ Stands(c) /\ StackOf(c)
         /\ call[c].kind \in Kinds \cup {"none"}
         /\ call[c].own \in Sessions \cup {0} /\ call[c].sess \in Sessions \cup {0}
         /\ call[c].stack \in Stacks \cup {0}
         /\ 0 \notin Sessions /\ 0 \notin Stacks
         /\ call[c].sess # 0 => session[call[c].sess].made
         /\ call[c].own # 0 => session[call[c].own].made
<1>1. /\ CallsStand /\ call[c] \in CallRec /\ Stands(c) /\ StackOf(c)
      /\ 0 \notin Sessions /\ 0 \notin Stacks
  BY Typed DEF SessionInv
<1>2. /\ call[c].sess # 0 => session[call[c].sess].made
      /\ call[c].own # 0 => session[call[c].own].made
  BY <1>1 DEF Stands, MadeOrNone
<1> QED BY <1>1, <1>2 DEF CallRec

\* A call that has returned has nothing.
LEMMA Returned ==
  ASSUME NEW c \in Calls, call'[c] = NoCall
  PROVE  /\ Stands(c)' /\ StackOf(c)'
         /\ \A s \in Sessions : ~TearsDown(c, s)' /\ ~Holds(c, s)'
         /\ \A k \in Stacks : ~WillClose(c, k)'
<1>1. Stands(c)' /\ StackOf(c)'
  BY NoCallType DEF Stands, StackOf, MadeOrNone, Teardown, Logins, At
<1>2. \A s \in Sessions : ~TearsDown(c, s)' /\ ~Holds(c, s)'
  BY NoCallType DEF TearsDown, Teardown, Holds, InProgress, At
<1>3. \A k \in Stacks : ~WillClose(c, k)'
  BY NoCallType DEF WillClose, Closing, At
<1> QED BY <1>1, <1>2, <1>3

\* GetActive: the call learns of the active session.
LEMMA GetActiveKeeps ==
  ASSUME SessionInv, NEW c \in Calls, GetActive(c)
  PROVE  SessionInv'
<1>0. /\ CallsStand /\ call[c] \in CallRec /\ call[c].pc = "get" /\ Stands(c)
      /\ call[c].kind \in Kinds \ Owners /\ call[c].own = 0
      /\ MadeOrNone(activeSession)
      /\ UNCHANGED <<activeSession, session, tun>>
  BY Typed DEF GetActive, At, SessionInv, CallsStand, Stands, Owners
<1>1. PICK r \in CallRec :
        /\ r.kind = call[c].kind /\ r.own = 0
        /\ r.sess = activeSession /\ r.stack = call[c].stack
        /\ \/ r.pc = "returned"
           \/ r.sess # 0 /\ r.kind = "startProxyFrontend" /\ r.pc = "serve"
           \/ r.sess # 0 /\ r.pc = "unserve"
           \/ r.sess # 0 /\ r.kind = "stopStack" /\ r.pc = "detach"
           \/ r.sess # 0 /\ r.kind = "startStack" /\ r.pc = "create"
        /\ Becomes(c, r)
  <2> DEFINE pc == IF activeSession = 0 THEN "returned"
                   ELSE CASE Kind(c) = "startProxyFrontend" -> "serve"
                          [] Kind(c) = "stopProxyFrontend" -> "unserve"
                          [] Kind(c) = "stopStack" -> "detach"
                          [] OTHER -> "create"
  <2>1. \/ pc = "returned"
        \/ activeSession # 0 /\ call[c].kind = "startProxyFrontend" /\ pc = "serve"
        \/ activeSession # 0 /\ pc = "unserve"
        \/ activeSession # 0 /\ call[c].kind = "stopStack" /\ pc = "detach"
        \/ activeSession # 0 /\ call[c].kind = "startStack" /\ pc = "create"
    BY <1>0 DEF Kinds, Owners, Kind
  <2>2. Becomes(c, [call[c] EXCEPT !.sess = activeSession, !.pc = pc])
    BY DEF GetActive
  <2> HIDE DEF pc
  <2>3. [call[c] EXCEPT !.sess = activeSession, !.pc = pc] \in CallRec
    BY <1>0, <2>1, Typed DEF CallRec
  <2> QED BY <1>0, <2>1, <2>2, <2>3 DEF CallRec
<1>2. /\ Moves(c)
      /\ call'[c] = IF r.pc = "returned" THEN NoCall ELSE r
  BY <1>0, <1>1, BecomesEffect
<1>3. Stands(c)' /\ StackOf(c)'
  <2>1. CASE r.pc = "returned"
    BY <1>2, <2>1, Returned
  <2>2. CASE r.pc # "returned"
    <3>1. call'[c] = r /\ r.kind \notin Owners /\ MadeOrNone(0)'
      BY <1>0, <1>1, <1>2, <2>2 DEF MadeOrNone
    <3>2. MadeOrNone(r.sess)'
      BY <1>0, <1>1 DEF MadeOrNone
    <3>3. r.kind \in Kinds \ Owners
      BY <1>0, <1>1
    <3>4. Stands(c)'
      BY <1>1, <2>2, <3>1, <3>2, <3>3 DEF Stands, Owners, Teardown
    <3> QED BY <1>1, <2>2, <3>1, <3>4 DEF StackOf, At
  <2> QED BY <2>1, <2>2
<1>5. \A s \in Sessions : (TearsDown(c, s)' <=> TearsDown(c, s)) /\ ~Holds(c, s)
  BY <1>0, <1>1, <1>2, NoCallType DEF TearsDown, Teardown, Holds, Kind, Owners
<1>6. \A k \in Stacks : ~WillClose(c, k)
  BY <1>0 DEF WillClose, Closing, At
<1> QED BY <1>0, <1>1, <1>2, <1>3, <1>5, <1>6, NoCallType, Typed, CallMovesOnly
        DEF SameSessions, Owners, At

\* Sessions that listen or not are made or not as before.
LEMMA ListeningOnly ==
  ASSUME SessionInv, NEW s \in Sessions, NEW l \in BOOLEAN, session[s].made,
         session' = [session EXCEPT ![s].listening = l]
  PROVE  /\ SameSessions
         /\ session' \in [Sessions -> SessionRec]
         /\ \A t \in Sessions : ~session[t].made => session'[t] = session[t]
         /\ session'[s].made /\ \A t \in Sessions : session[t].made => session'[t].made
BY Typed DEF SameSessions

\* StopProxy.
LEMMA StopProxyKeeps ==
  ASSUME SessionInv, NEW c \in Calls, StopProxy(c)
  PROVE  SessionInv'
<1>0. /\ call[c].pc = "unserve" /\ Stands(c) /\ UNCHANGED <<activeSession, tun>>
      /\ call[c].sess # 0 /\ call[c].kind \in Kinds \ Owners
  BY Here DEF StopProxy, At, Stands
<1>1. Moves(c) /\ call'[c] = NoCall
  BY Here, GotoEffect DEF StopProxy
<1>2. PICK s \in Sessions : session[s].made /\ session' = [session EXCEPT ![s].listening = FALSE]
  BY <1>0, Here DEF StopProxy
<1>3. \A t \in Sessions : ~TearsDown(c, t) /\ ~Holds(c, t)
  BY <1>0 DEF TearsDown, Teardown, Holds, Owners, Kind
<1>4. \A k \in Stacks : ~WillClose(c, k)
  BY <1>0 DEF WillClose, Closing, At
<1>5. /\ SameSessions
      /\ session' \in [Sessions -> SessionRec]
      /\ \A t \in Sessions : ~session[t].made => session'[t] = session[t]
  BY <1>2, ListeningOnly
<1>6. /\ Stands(c)' /\ StackOf(c)' /\ ~At(c, "run") /\ call'[c].kind = "none"
      /\ \A t \in Sessions : TearsDown(c, t)' <=> TearsDown(c, t)
  BY <1>0, <1>1, <1>3, NoCallType, Returned DEF At
<1> QED BY <1>0, <1>1, <1>3, <1>4, <1>5, <1>6, CallMovesOnly DEF Logins

\* StartListeners: the frontend of a session that was there returns ...
LEMMA StartFrontendKeeps ==
  ASSUME SessionInv, NEW c \in Calls, StartListeners(c), call[c].kind # "startProxy"
  PROVE  SessionInv'
<1>0. /\ call[c].pc = "serve" /\ Stands(c) /\ UNCHANGED <<activeSession, tun>>
      /\ call[c].sess # 0 /\ call[c].kind = "startProxyFrontend"
  BY Here DEF StartListeners, At, Stands
<1>1. PICK s \in Sessions, l \in BOOLEAN :
        /\ s = call[c].sess /\ session[s].made
        /\ session' = [session EXCEPT ![s].listening = l]
        /\ Becomes(c, [call[c] EXCEPT !.sess = s, !.pc = "returned"])
  <2>1. session[call[c].sess].listening \in BOOLEAN
    BY <1>0, Here, Typed
  <2> QED BY <1>0, <2>1, Here DEF StartListeners, Kind
<1>2. Moves(c) /\ call'[c] = NoCall
  <2>1. /\ [call[c] EXCEPT !.sess = s, !.pc = "returned"] \in CallRec
        /\ [call[c] EXCEPT !.sess = s, !.pc = "returned"].pc = "returned"
    BY <1>1, Here DEF CallRec
  <2> QED BY <1>1, <2>1, Here, BecomesEffect
<1>3. \A t \in Sessions : ~TearsDown(c, t) /\ ~Holds(c, t)
  BY <1>0 DEF TearsDown, Teardown, Holds, Owners, Logins, Kind
<1>4. \A k \in Stacks : ~WillClose(c, k)
  BY <1>0 DEF WillClose, Closing, At
<1>5. /\ SameSessions
      /\ session' \in [Sessions -> SessionRec]
      /\ \A t \in Sessions : ~session[t].made => session'[t] = session[t]
  BY <1>1, ListeningOnly
<1>6. /\ Stands(c)' /\ StackOf(c)' /\ ~At(c, "run") /\ call'[c].kind = "none"
      /\ \A t \in Sessions : TearsDown(c, t)' <=> TearsDown(c, t)
  BY <1>0, <1>2, <1>3, NoCallType, Returned DEF At
<1> QED BY <1>0, <1>2, <1>3, <1>4, <1>5, <1>6, CallMovesOnly DEF Logins

\* ... and startProxy goes on to replace the active session or to close its own.
LEMMA StartProxyKeeps ==
  ASSUME SessionInv, NEW c \in Calls, StartListeners(c), call[c].kind = "startProxy"
  PROVE  SessionInv'
<1>0. /\ call[c].pc = "serve" /\ Stands(c) /\ UNCHANGED <<activeSession, tun>>
      /\ call[c].own # 0 /\ call[c].sess = 0
  BY Here DEF StartListeners, At, Stands, Logins
<1>1. PICK s \in Sessions, l \in BOOLEAN, pc \in {"mark", "take"} :
        /\ s = call[c].own /\ session[s].made
        /\ session' = [session EXCEPT ![s].listening = l]
        /\ Becomes(c, [call[c] EXCEPT !.sess = s, !.pc = pc])
  <2>1. session[call[c].own].listening \in BOOLEAN
    BY <1>0, Here, Typed
  <2> QED BY <1>0, <2>1, Here DEF StartListeners, Kind
<1>2. /\ Moves(c) /\ call'[c] \in CallRec
      /\ call'[c].pc = pc /\ call'[c].kind = "startProxy"
      /\ call'[c].own = s /\ call'[c].sess = s /\ call'[c].stack = call[c].stack
  <2>1. PICK r \in CallRec : /\ r = [call[c] EXCEPT !.sess = s, !.pc = pc]
                            /\ r.pc = pc /\ r.kind = call[c].kind /\ r.own = call[c].own
                            /\ r.sess = s /\ r.stack = call[c].stack
    <3>1. [call[c] EXCEPT !.sess = s, !.pc = pc] \in CallRec
      BY <1>1, Here DEF CallRec
    <3> QED BY <3>1, Here DEF CallRec
  <2>2. Becomes(c, r) /\ r.pc # "returned"
    BY <1>1, <2>1
  <2>3. Moves(c) /\ call'[c] = r
    BY <2>2, Here, BecomesEffect
  <2> QED BY <1>1, <2>1, <2>3
<1>3. \A t \in Sessions : ~TearsDown(c, t) /\ ~TearsDown(c, t)' /\ (Holds(c, t) => Holds(c, t)')
  BY <1>0, <1>1, <1>2, Here DEF TearsDown, Teardown, Holds, Owners, Logins, Kind, InProgress, At
<1>4. \A k \in Stacks : ~WillClose(c, k)
  BY <1>0 DEF WillClose, Closing, At
<1>5. Stands(c)' /\ StackOf(c)'
  <2>1. MadeOrNone(s)'
    BY <1>1, ListeningOnly DEF MadeOrNone
  <2> QED BY <1>1, <1>2, <2>1, Here DEF Stands, StackOf, Owners, Logins, Teardown, At
<1>6. /\ SameSessions
      /\ session' \in [Sessions -> SessionRec]
      /\ \A t \in Sessions : ~session[t].made => session'[t] = session[t]
  BY <1>1, ListeningOnly
<1>7. /\ ~At(c, "run") /\ call'[c].kind = call[c].kind
      /\ call'[c].own = call'[c].sess /\ call'[c].pc # "publish"
      /\ \A t \in Sessions : TearsDown(c, t)' <=> TearsDown(c, t)
  BY <1>0, <1>1, <1>2, <1>3 DEF At
<1> QED BY <1>0, <1>2, <1>3, <1>4, <1>5, <1>6, <1>7, CallMovesOnly

\* StopListeners, in close.
LEMMA StopListenersKeeps ==
  ASSUME SessionInv, NEW c \in Calls, StopListeners(c)
  PROVE  SessionInv'
<1>0. /\ call[c].pc = "quiet" /\ Stands(c) /\ UNCHANGED <<activeSession, tun>>
      /\ call[c].sess # 0 /\ call[c].kind \in Owners
  BY Here DEF StopListeners, At, Stands, Teardown
<1>1. PICK s \in Sessions : /\ s = call[c].sess /\ session[s].made
                            /\ session' = [session EXCEPT ![s].listening = FALSE]
  BY <1>0, Here DEF StopListeners
<1>2. PICK pc \in {"down", "close"} :
        Goto(c, pc) /\ (pc = "down" <=> call[c].stack = 0)
  BY DEF StopListeners
<1>3. /\ Moves(c) /\ call'[c].pc = pc /\ call'[c].kind = call[c].kind
      /\ call'[c].own = call[c].own /\ call'[c].sess = call[c].sess
      /\ call'[c].stack = call[c].stack
  BY <1>2, Here, GotoEffect DEF Teardown
<1>4. \A t \in Sessions : (TearsDown(c, t)' <=> TearsDown(c, t)) /\ (Holds(c, t) => Holds(c, t)')
  BY <1>0, <1>2, <1>3 DEF TearsDown, Teardown, Holds, Kind, InProgress, At
<1>5. \A k \in Stacks : WillClose(c, k) => WillClose(c, k)'
  BY <1>0, <1>2, <1>3, Here DEF WillClose, Closing, At
<1>6. Stands(c)' /\ StackOf(c)'
  <2>1. MadeOrNone(call[c].own)' /\ MadeOrNone(call[c].sess)'
    <3>1. \A t \in Sessions : session[t].made => session'[t].made
      BY <1>1, ListeningOnly
    <3> QED BY <1>3, <3>1, Here DEF MadeOrNone
  <2>2. call[c].stack # 0 => tun[call[c].stack].of = call[c].sess
    BY <1>0, Here DEF StackOf, At
  <2>3. (call[c].own # 0 => call[c].kind \in Logins) /\ (call[c].kind \in Logins => call[c].own # 0)
    BY <1>0 DEF Stands
  <2>4. Stands(c)'
    BY <1>0, <1>2, <1>3, <2>1, <2>2, <2>3 DEF Stands, Owners, Teardown
  <2> QED BY <1>0, <1>2, <1>3, <2>2, <2>4 DEF StackOf, At
<1>7. call[c].kind \in Logins => call[c].own = call[c].sess \/ activeSession = 0
  BY <1>0 DEF SessionInv, NothingActive, Kind
<1>8. /\ SameSessions
      /\ session' \in [Sessions -> SessionRec]
      /\ \A t \in Sessions : ~session[t].made => session'[t] = session[t]
  BY <1>1, ListeningOnly
<1>9. ~At(c, "run") /\ call'[c].pc # "publish"
  BY <1>0, <1>2, <1>3 DEF At
<1> QED BY <1>0, <1>3, <1>4, <1>5, <1>6, <1>7, <1>8, <1>9, CallMovesOnly

\* createSession or mobiletun.New fails.
LEMMA CreateFails ==
  ASSUME SessionInv, NEW c \in Calls, call[c].pc \in {"login", "create"}, Goto(c, "returned"),
         UNCHANGED <<activeSession, session, tun>>
  PROVE  SessionInv'
<1>0. /\ Stands(c) /\ call[c].pc = "create" => call[c].kind \notin Owners
      /\ call[c].pc = "login" => call[c].own = 0 /\ call[c].sess = 0
  BY Here DEF Stands, Owners, Logins
<1>1. Moves(c) /\ call'[c] = NoCall
  BY Here, GotoEffect
<1>2. \A t \in Sessions : ~TearsDown(c, t) /\ ~Holds(c, t)
  BY <1>0, Here DEF TearsDown, Teardown, Holds, Owners, Kind
<1>3. \A k \in Stacks : ~WillClose(c, k)
  BY DEF WillClose, Closing, At
<1>4. /\ Stands(c)' /\ StackOf(c)' /\ ~At(c, "run") /\ call'[c].kind = "none"
      /\ \A t \in Sessions : TearsDown(c, t)' <=> TearsDown(c, t)
  BY <1>1, <1>2, NoCallType, Returned DEF At
<1> QED BY <1>1, <1>2, <1>3, <1>4, CallMovesAlone DEF Logins

\* AttachStack finds the session closed.
LEMMA AttachRefused ==
  ASSUME SessionInv, NEW c \in Calls, call[c].pc = "attach", Goto(c, "close"),
         UNCHANGED <<activeSession, session, tun>>
  PROVE  SessionInv'
<1>0. /\ call[c].kind = "startStack" /\ call[c].own = 0 /\ call[c].sess # 0
      /\ call[c].stack # 0 /\ tun[call[c].stack].of = call[c].sess
      /\ MadeOrNone(call[c].own) /\ MadeOrNone(call[c].sess)
  BY Here DEF Stands, Logins, Owners
<1>1. /\ Moves(c) /\ call'[c].pc = "close" /\ call'[c].kind = "startStack"
      /\ call'[c].own = 0 /\ call'[c].sess = call[c].sess /\ call'[c].stack = call[c].stack
  BY <1>0, Here, GotoEffect DEF Teardown
<1>2. \A t \in Sessions : ~TearsDown(c, t) /\ ~Holds(c, t) /\ ~TearsDown(c, t)'
  BY <1>0, <1>1 DEF TearsDown, Holds, Owners, Logins, Kind
<1>3. \A k \in Stacks : WillClose(c, k) => WillClose(c, k)'
  BY <1>0, <1>1 DEF WillClose, Closing, At
<1>4. Stands(c)' /\ StackOf(c)'
  <2>1. MadeOrNone(call[c].own)' /\ MadeOrNone(call[c].sess)'
    BY <1>0, <1>1 DEF MadeOrNone
  <2> QED BY <1>0, <1>1, <2>1 DEF Stands, StackOf, Owners, Logins, Teardown, At
<1>5. ~At(c, "run") /\ call'[c].kind \notin Logins
  BY <1>1 DEF At, Logins
<1> QED BY <1>0, <1>1, <1>2, <1>3, <1>4, <1>5, CallMovesAlone

-----------------------------------------------------------------------------
(* Closing a stack.                                                        *)

\* What follows when Close of a stack has returned: StartStack and StopStack return,
\* close takes the rest down.  The stack has stopped.
LEMMA AfterStackClosed ==
  ASSUME SessionInv, NEW c \in Calls, call[c].pc \in {"close", "drain", "lwip"},
         Goto(c, AfterStackClose(c))
  PROVE  /\ Moves(c) /\ call'[c].kind \in {call[c].kind, "none"} /\ ~At(c, "run")
         /\ SameSessions /\ UNCHANGED activeSession => Stands(c)' /\ StackOf(c)'
         /\ call'[c].kind \in Logins
              => \/ call'[c].own = call'[c].sess /\ call'[c].pc # "publish"
                 \/ activeSession = 0
         /\ \A s \in Sessions : /\ TearsDown(c, s)' <=> TearsDown(c, s)
                                /\ Holds(c, s) => Holds(c, s)'
         /\ \A k \in Stacks : WillClose(c, k) => k = call[c].stack
<1>0. /\ call[c].stack # 0 /\ tun[call[c].stack].of # 0 /\ call[c].sess # 0
      /\ call[c].kind \in Owners \cup {"startStack", "stopStack"}
      /\ call[c].own # 0 => call[c].kind \in Logins
      /\ call[c].kind \in Logins => call[c].own # 0
  BY Here DEF Stands, Teardown
<1>1. ~At(c, "run") /\ \A k \in Stacks : WillClose(c, k) => k = call[c].stack
  BY DEF At, WillClose, Closing
<1>2. CASE call[c].kind \in {"startStack", "stopStack"}
  <2>1. Moves(c) /\ call'[c] = NoCall
    BY <1>2, Here, GotoEffect DEF AfterStackClose, Kind
  <2>2. \A s \in Sessions : ~TearsDown(c, s) /\ ~Holds(c, s)
    BY <1>2 DEF TearsDown, Holds, Owners, Logins, Kind
  <2>3. \A s \in Sessions : ~TearsDown(c, s)'
    BY <2>1, Returned
  <2>4. Stands(c)' /\ StackOf(c)' /\ call'[c].kind = "none"
    BY <2>1, Returned, NoCallType
  <2> QED BY <1>1, <2>1, <2>2, <2>3, <2>4 DEF Logins
<1>3. CASE call[c].kind \in Owners
  <2>1. /\ Moves(c) /\ call'[c].pc = "down" /\ call'[c].kind = call[c].kind
        /\ call'[c].own = call[c].own /\ call'[c].sess = call[c].sess
        /\ call'[c].stack = call[c].stack
    BY <1>3, Here, GotoEffect DEF AfterStackClose, Kind, Owners, Logins, Teardown
  <2>2. \A s \in Sessions : /\ TearsDown(c, s)' <=> TearsDown(c, s)
                            /\ Holds(c, s) => Holds(c, s)'
    BY <2>1 DEF TearsDown, Holds, Teardown, Kind, InProgress, At
  <2>3. call[c].kind \in Logins => call[c].own = call[c].sess \/ activeSession = 0
    BY DEF SessionInv, NothingActive, Kind
  <2>4. ASSUME SameSessions PROVE Stands(c)' /\ StackOf(c)'
    <3>1. MadeOrNone(call[c].own)' /\ MadeOrNone(call[c].sess)'
      BY <2>1, <2>4, Here DEF MadeOrNone, SameSessions
    <3> QED BY <1>0, <1>3, <2>1, <3>1 DEF Stands, StackOf, Owners, Teardown, At
  <2> QED BY <1>1, <2>1, <2>2, <2>3, <2>4
<1> QED BY <1>0, <1>2, <1>3

\* CloseBegins finds the stack closed.
LEMMA AlreadyClosed ==
  ASSUME SessionInv, NEW c \in Calls, call[c].pc = "close", tun[call[c].stack].once = "done",
         Goto(c, AfterStackClose(c)), UNCHANGED <<activeSession, session, tun>>
  PROVE  SessionInv'
<1>1. SameSessions
  BY DEF SameSessions
<1>2. call[c].stack \in Stacks => Stopped(call[c].stack)
  BY Typed DEF StackStands
<1> QED BY <1>1, <1>2, AfterStackClosed, CallMovesAlone

-----------------------------------------------------------------------------
(* The steps that make, take, publish and close a session.                 *)

\* createSession returns a session to its call.
LEMMA CreateSessionMakes ==
  ASSUME SessionInv, NEW c \in Calls, NEW s \in Sessions, call[c].pc = "login",
         ~session[s].made, UNCHANGED <<activeSession, tun>>,
         session' = [session EXCEPT ![s].made = TRUE, ![s].up = TRUE],
         Becomes(c, [call[c] EXCEPT !.own = s,
                        !.pc = IF Kind(c) = "prepare" THEN "take" ELSE "serve"])
  PROVE  SessionInv'
<1>0. /\ call[c].kind \in Logins /\ call[c].own = 0 /\ call[c].sess = 0
      /\ session[s] = NoSession
  BY Here DEF Stands, SessionInv, New
<1>1. /\ Moves(c) /\ call'[c] \in CallRec /\ call'[c].pc \in {"take", "serve"}
      /\ call'[c].pc = "serve" => call[c].kind = "startProxy"
      /\ call'[c].kind = call[c].kind
      /\ call'[c].own = s /\ call'[c].sess = 0 /\ call'[c].stack = call[c].stack
  <2>1. PICK pc \in {"take", "serve"} :
          /\ pc = IF Kind(c) = "prepare" THEN "take" ELSE "serve"
          /\ pc = "serve" => call[c].kind = "startProxy"
    BY <1>0 DEF Kind, Logins
  <2>2. TakesOwn(c, s, pc)
    BY <2>1 DEF TakesOwn
  <2>3. CallsStand /\ (Moves(c) => call'[c] \in CallRec)
    BY Here DEF Moves
  <2> QED BY <1>0, <2>1, <2>2, <2>3, TakesOwnEffect
<1>2. /\ session'[s].made /\ session'[s].up /\ ~session'[s].closed /\ session'[s].tunStack = 0
      /\ session'[s] \in SessionRec
      /\ \A t \in Sessions \ {s} : session'[t] = session[t]
      /\ session' \in [Sessions -> SessionRec]
  <2>1. [session[s] EXCEPT !.made = TRUE, !.up = TRUE]
          \in SessionRec
    <3>1. session[s] \in SessionRec
      BY Typed
    <3> QED BY <3>1
  <2>2. session' = [session EXCEPT ![s] = [session[s] EXCEPT !.made = TRUE, !.up = TRUE]]
    BY Typed
  <2> QED BY <1>0, <2>1, <2>2, Typed DEF NoSession
<1>3. \A t \in Sessions : session'[t].tunStack = session[t].tunStack
  BY <1>0, <1>2 DEF NoSession
<1>4. Grows
  BY <1>0, <1>2 DEF Grows, NoSession, Stopped
<1>5. SessionTypeOK' /\ New'
  <2>1. SessionTypeOK'
    BY <1>1, <1>2, <1>3, Typed DEF SessionInv, SessionTypeOK, Moves, CallRec, Kind
  <2>2. New'
    BY <1>2 DEF SessionInv, New
  <2> QED BY <2>1, <2>2
<1>6. CallsStand' /\ StacksStand'
  <2>1. MadeOrNone(activeSession)'
    BY <1>4, Typed DEF SessionInv, CallsStand, MadeOrNone, Grows
  <2>2. Stands(c)' /\ StackOf(c)'
    BY <1>0, <1>1, <1>2, Here DEF Stands, StackOf, MadeOrNone, Owners, Logins, Teardown, At
  <2>3. \A k \in Stacks : StackStands(k)'
    BY Typed DEF StackStands, Stopped
  <2> QED BY <1>1, <1>4, <2>1, <2>2, <2>3, CallsStandStep, StacksStandStep
<1>7. OneAtATime' /\ NothingActive' /\ Attached'
  BY <1>0, <1>1, <1>3, OneAtATimeStep, NothingActiveStep, AttachedStep DEF At
<1>8. ClosedByOne'
  <2>1. \A d \in Calls : \A t \in Sessions : TearsDown(d, t)' <=> TearsDown(d, t)
    BY <1>1 DEF TearsDown, Moves, Kind, Teardown
  <2>2. \A d \in Calls : ~TearsDown(d, s)
    BY <1>0 DEF SessionInv, ClosedByOne, NoSession
  <2> QED BY <1>2, <2>1, <2>2 DEF SessionInv, ClosedByOne
<1>9. NoOrphan'
  <2>1. Holds(c, s)'
    BY <1>0, <1>1 DEF Holds, InProgress, At, Kind
  <2>2. \A d \in Calls : \A t \in Sessions : Holds(d, t) => Holds(d, t)'
    BY <1>0, <1>1, Here DEF Holds, Moves, Kind, InProgress, At
  <2> QED BY <1>2, <2>1, <2>2 DEF SessionInv, NoOrphan
<1>10. CaredForStack'
  <2>1. \A k \in Stacks : ~WillClose(c, k)
    BY DEF WillClose, Closing, At
  <2> QED BY <1>1, <1>3, <1>4, <2>1, CaredForStep
<1> QED BY <1>5, <1>6, <1>7, <1>8, <1>9, <1>10 DEF SessionInv

\* Stop takes the active session.
LEMMA TakeActiveKeeps ==
  ASSUME SessionInv, NEW c \in Calls, TakeActive(c)
  PROVE  SessionInv'
<1>0. /\ call[c].pc = "take" /\ Stands(c) /\ activeSession' = 0 /\ UNCHANGED <<session, tun>>
      /\ call[c].kind \in Owners /\ call[c].sess \in {0, call[c].own}
      /\ call[c].own # 0 => call[c].kind \in Logins
      /\ call[c].kind \in Logins => call[c].own # 0
      /\ MadeOrNone(activeSession)
  BY Here DEF TakeActive, At, Stands, CallsStand
<1>1. PICK s \in Sessions \cup {0}, pc \in {"mark", "returned", "publish"} :
        /\ s = activeSession /\ TakesSess(c, s, pc)
        /\ \/ s # 0 /\ pc = "mark"
           \/ s = 0 /\ call[c].kind = "stop" /\ pc = "returned"
           \/ s = 0 /\ call[c].kind \in Logins /\ pc = "publish"
  <2>1. PICK pc \in {"mark", "returned", "publish"} :
          /\ pc = IF activeSession # 0 THEN "mark"
                  ELSE IF Kind(c) = "stop" THEN "returned" ELSE "publish"
          /\ \/ activeSession # 0 /\ pc = "mark"
             \/ activeSession = 0 /\ call[c].kind = "stop" /\ pc = "returned"
             \/ activeSession = 0 /\ call[c].kind \in Logins /\ pc = "publish"
    BY <1>0 DEF Owners, Kind
  <2>2. TakesSess(c, activeSession, pc)
    BY <2>1 DEF TakeActive, TakesSess
  <2> QED BY <2>1, <2>2, Typed
<1>2. /\ Moves(c)
      /\ pc = "returned" => call'[c] = NoCall
      /\ pc # "returned" => /\ call'[c].pc = pc /\ call'[c].sess = s
                           /\ call'[c].kind = call[c].kind /\ call'[c].own = call[c].own
                           /\ call'[c].stack = call[c].stack
  BY <1>1, Here, TakesSessEffect
<1>3. SameSessions /\ Grows
  BY <1>0 DEF SameSessions, Grows, Stopped
<1>4. SessionTypeOK' /\ New'
  BY <1>0, <1>2, Typed DEF SessionInv, SessionTypeOK, New, Moves, CallRec, Kind
<1>5. CallsStand' /\ StacksStand'
  <2>1. MadeOrNone(activeSession)'
    BY <1>0 DEF MadeOrNone
  <2>2. \A k \in Stacks : StackStands(k)'
    BY <1>0, Typed DEF StackStands, Stopped
  <2>3. Stands(c)' /\ StackOf(c)'
    <3>1. CASE pc = "returned"
      BY <1>2, <3>1, Returned
    <3>2. CASE pc # "returned"
      <4>1. MadeOrNone(call[c].own)' /\ MadeOrNone(s)'
        BY <1>0, <1>1, <1>2, <3>2 DEF MadeOrNone, Stands
      <4>2. Stands(c)'
        BY <1>0, <1>1, <1>2, <3>2, <4>1 DEF Stands, Owners, Logins, Teardown
      <4>3. StackOf(c)'
        BY <1>1, <1>2, <3>2 DEF StackOf, At
      <4> QED BY <4>2, <4>3
    <3> QED BY <3>1, <3>2
  <2> QED BY <1>2, <1>3, <2>1, <2>2, <2>3, CallsStandStep, StacksStandStep
<1>6. OneAtATime' /\ NothingActive' /\ Attached'
  <2>1. call'[c].kind \in {call[c].kind, "none"}
    BY <1>1, <1>2, NoCallType
  <2> QED BY <1>0, <1>2, <2>1, OneAtATimeStep, NothingActiveStep, AttachedStep DEF At
<1>7. ClosedByOne'
  <2>1. \A t \in Sessions : TearsDown(c, t)' <=> TearsDown(c, t)
    BY <1>0, <1>1, <1>2, NoCallType DEF TearsDown, Teardown
  <2> QED BY <1>2, <1>3, <2>1, ClosedByOneStep
<1>8. NoOrphan'
  <2>1. \A t \in Sessions : t = activeSession => Holds(c, t)'
    BY <1>0, <1>1, <1>2, Typed DEF Holds, InProgress, At, Kind, Owners
  <2>2. \A t \in Sessions : Holds(c, t) => Holds(c, t)'
    BY <1>0, <1>1, <1>2, Typed DEF Holds, InProgress, At, Kind, Owners, Logins
  <2>3. \A d \in Calls \ {c} : \A t \in Sessions : Holds(d, t) => Holds(d, t)'
    BY <1>2 DEF Holds, Moves, Kind, InProgress, At
  <2> QED BY <1>0, <2>1, <2>2, <2>3, Typed DEF SessionInv, NoOrphan
<1>9. CaredForStack'
  <2>1. \A k \in Stacks : ~WillClose(c, k)
    BY <1>0 DEF WillClose, Closing, At
  <2> QED BY <1>0, <1>2, <1>3, <2>1, CaredForStep
<1> QED BY <1>4, <1>5, <1>6, <1>7, <1>8, <1>9 DEF SessionInv

\* A call publishes the session it made: there is none to lose.
LEMMA PublishKeeps ==
  ASSUME SessionInv, NEW c \in Calls, Publish(c)
  PROVE  SessionInv'
<1>0. /\ call[c].pc = "publish" /\ Stands(c) /\ UNCHANGED <<session, tun>>
      /\ activeSession' = call[c].own /\ activeSession = 0
      /\ call[c].kind \in Logins /\ MadeOrNone(call[c].own)
      /\ call[c].sess = 0 \/ session[call[c].sess].closed
  <2>1. call[c].pc = "publish" /\ call[c].kind \in Logins
    BY Here DEF Publish, At, Stands
  <2> QED BY <2>1, Here DEF Publish, Stands, SessionInv, NothingActive, Kind
<1>1. Moves(c) /\ call'[c] = NoCall
  BY Here, GotoEffect DEF Publish
<1>2. SameSessions /\ Grows
  BY <1>0 DEF SameSessions, Grows, Stopped
<1>3. SessionTypeOK' /\ New'
  BY <1>0, <1>1, Typed, Here DEF SessionInv, SessionTypeOK, New, Moves, CallRec, Kind
<1>4. CallsStand' /\ StacksStand'
  <2>1. MadeOrNone(activeSession)'
    BY <1>0 DEF MadeOrNone
  <2>2. Stands(c)' /\ StackOf(c)'
    BY <1>1, Returned
  <2> QED BY <1>0, <1>1, <1>2, <2>1, <2>2, Typed, CallsStandStep, StacksStandStep
          DEF StackStands, Stopped
<1>5. OneAtATime' /\ Attached'
  BY <1>0, <1>1, NoCallType, OneAtATimeStep, AttachedStep DEF At
<1>6. NothingActive'
  <2>1. \A d \in Calls : call'[d].kind \notin Logins
    BY <1>0, <1>1, NoCallType DEF SessionInv, OneAtATime, Moves, Kind, Logins
  <2> QED BY <2>1 DEF NothingActive, Kind
<1>7. ClosedByOne'
  <2>1. \A s \in Sessions : TearsDown(c, s)' <=> TearsDown(c, s)
    BY <1>0, <1>1, Returned DEF TearsDown, Teardown
  <2> QED BY <1>1, <1>2, <2>1, ClosedByOneStep
<1>8. NoOrphan'
  <2> SUFFICES ASSUME NEW s \in Sessions, session[s].up
               PROVE  s = activeSession' \/ \E d \in Calls : Holds(d, s)'
    BY <1>0 DEF NoOrphan
  <2>1. PICK d \in Calls : Holds(d, s)
    BY <1>0, Typed DEF SessionInv, NoOrphan
  <2>2. CASE d # c
    BY <1>1, <2>1, <2>2 DEF Holds, Moves, Kind, InProgress, At
  <2>3. CASE d = c /\ s = call[c].own
    BY <1>0, <2>3
  <2>4. CASE d = c /\ s # call[c].own
    <3>1. s = call[c].sess /\ session[s].closed /\ session[s].made
      BY <1>0, <2>1, <2>4, Here DEF Holds
    <3>2. PICK e \in Calls : TearsDown(e, s)
      BY <3>1 DEF SessionInv, ClosedByOne
    <3>3. e # c /\ call[e].kind \in Owners /\ call[e].pc \in Teardown /\ call[e].sess = s
      BY <1>0, <3>2 DEF TearsDown, Teardown, Kind
    <3>4. Holds(e, s)'
      BY <1>1, <3>3 DEF Holds, Moves, Kind, InProgress, At, Owners, Teardown
    <3> QED BY <3>4
  <2> QED BY <2>2, <2>3, <2>4
<1>9. CaredForStack'
  <2>1. \A k \in Stacks : ~WillClose(c, k)
    BY <1>0 DEF WillClose, Closing, At
  <2> QED BY <1>0, <1>1, <1>2, <2>1, CaredForStep
<1> QED BY <1>3, <1>4, <1>5, <1>6, <1>7, <1>8, <1>9 DEF SessionInv

\* close returns: its call publishes the session it made, or is done.
LEMMA AfterClosed ==
  ASSUME SessionInv, NEW c \in Calls, call[c].pc \in {"mark", "down"},
         session[call[c].sess].closed, Goto(c, AfterClose(c)), Grows
  PROVE  /\ Moves(c) /\ call'[c].kind \in {call[c].kind, "none"}
         /\ Stands(c)' /\ StackOf(c)' /\ ~At(c, "run")
         /\ call'[c].kind \in Logins
              => \/ call'[c].own = call'[c].sess /\ call'[c].pc # "publish"
                 \/ activeSession = 0
         /\ \A s \in Sessions : /\ ~TearsDown(c, s)'
                                /\ Holds(c, s) /\ s # call[c].sess => Holds(c, s)'
         /\ \A k \in Stacks : ~WillClose(c, k)
<1>0. /\ call[c].kind \in Owners /\ call[c].sess # 0
      /\ call[c].own # 0 => call[c].kind \in Logins
      /\ session[call[c].sess].made
  BY Here DEF Stands, Teardown
<1>1. ~At(c, "run") /\ \A k \in Stacks : ~WillClose(c, k)
  BY DEF At, WillClose, Closing
<1>2. CASE call[c].own \in {0, call[c].sess}
  <2>1. Moves(c) /\ call'[c] = NoCall
    BY <1>2, Here, GotoEffect DEF AfterClose
  <2>2. \A s \in Sessions : Holds(c, s) => s = call[c].sess
    BY <1>2, Here DEF Holds
  <2> QED BY <1>1, <2>1, <2>2, Returned, NoCallType DEF Logins
<1>3. CASE call[c].own \notin {0, call[c].sess}
  <2>1. /\ Moves(c) /\ call'[c].pc = "publish" /\ call'[c].kind = call[c].kind
        /\ call'[c].own = call[c].own /\ call'[c].sess = call[c].sess
        /\ call'[c].stack = call[c].stack
    BY <1>3, Here, GotoEffect DEF AfterClose
  <2>2. MadeOrNone(call[c].own)' /\ MadeOrNone(call[c].sess)' /\ session'[call[c].sess].closed
    BY <2>1, Here, <1>0 DEF MadeOrNone, Grows
  <2>3. Stands(c)' /\ StackOf(c)'
    BY <1>0, <1>3, <2>1, <2>2 DEF Stands, StackOf, Owners, Teardown, At
  <2>4. activeSession = 0
    BY <1>0, <1>3 DEF SessionInv, NothingActive, Kind
  <2>5. \A s \in Sessions : ~TearsDown(c, s)' /\ (Holds(c, s) => Holds(c, s)')
    BY <2>1 DEF TearsDown, Teardown, Holds, InProgress, At, Kind
  <2> QED BY <1>1, <2>1, <2>3, <2>4, <2>5
<1> QED BY <1>2, <1>3

\* close finds the session closed: another call is taking it down, or has.
LEMMA MarkedBefore ==
  ASSUME SessionInv, NEW c \in Calls, call[c].pc = "mark", session[call[c].sess].closed,
         Goto(c, AfterClose(c)), UNCHANGED <<activeSession, session, tun>>
  PROVE  SessionInv'
<1>0. call[c].sess \in Sessions /\ session[call[c].sess].made
  BY Here DEF Stands
<1>1. SameSessions /\ Grows
  BY DEF SameSessions, Grows, Stopped
<1>2. /\ Moves(c) /\ call'[c].kind \in {call[c].kind, "none"}
      /\ Stands(c)' /\ StackOf(c)' /\ ~At(c, "run")
      /\ call'[c].kind \in Logins
           => \/ call'[c].own = call'[c].sess /\ call'[c].pc # "publish"
              \/ activeSession = 0
      /\ \A s \in Sessions : /\ ~TearsDown(c, s)'
                             /\ Holds(c, s) /\ s # call[c].sess => Holds(c, s)'
      /\ \A k \in Stacks : ~WillClose(c, k)
  BY <1>1, AfterClosed
<1>3. SessionTypeOK' /\ New'
  BY <1>2, Typed DEF SessionInv, SessionTypeOK, New, Moves, CallRec, Kind
<1>4. CallsStand' /\ StacksStand'
  <2>1. MadeOrNone(activeSession)'
    BY DEF SessionInv, CallsStand, MadeOrNone
  <2> QED BY <1>1, <1>2, <2>1, Typed, CallsStandStep, StacksStandStep DEF StackStands, Stopped
<1>5. OneAtATime' /\ NothingActive' /\ Attached'
  BY <1>2, OneAtATimeStep, NothingActiveStep, AttachedStep
<1>6. ClosedByOne'
  <2>1. \A s \in Sessions : TearsDown(c, s)' <=> TearsDown(c, s)
    BY <1>2 DEF TearsDown, Teardown
  <2> QED BY <1>1, <1>2, <2>1, ClosedByOneStep
<1>7. NoOrphan'
  <2> SUFFICES ASSUME NEW s \in Sessions, session[s].up
               PROVE  s = activeSession \/ \E d \in Calls : Holds(d, s)'
    BY DEF NoOrphan
  <2>1. CASE s = call[c].sess
    <3>1. PICK e \in Calls : TearsDown(e, s)
      BY <1>0, <2>1 DEF SessionInv, ClosedByOne
    <3>2. Holds(e, s)'
      BY <1>2, <3>1 DEF TearsDown, Teardown, Holds, Moves, Kind, InProgress, At, Owners
    <3> QED BY <3>2
  <2>2. CASE s # call[c].sess
    <3>1. \A d \in Calls : Holds(d, s) => Holds(d, s)'
      BY <1>2, <2>2 DEF Holds, Moves, Kind, InProgress, At
    <3> QED BY <3>1 DEF SessionInv, NoOrphan
  <2> QED BY <2>1, <2>2
<1>8. CaredForStack'
  BY <1>1, <1>2, CaredForStep
<1> QED BY <1>3, <1>4, <1>5, <1>6, <1>7, <1>8 DEF SessionInv

\* close takes the session: from here on c alone takes it down.
LEMMA MarkedNow ==
  ASSUME SessionInv, NEW c \in Calls, NEW s \in Sessions, call[c].pc = "mark",
         s = call[c].sess, ~session[s].closed, UNCHANGED <<activeSession, tun>>,
         session' = [session EXCEPT ![s].closed = TRUE, ![s].tunStack = 0],
         Becomes(c, [call[c] EXCEPT !.pc = "quiet", !.stack = session[s].tunStack])
  PROVE  SessionInv'
<1>0. /\ call[c].kind \in Owners /\ Stands(c) /\ session[s].made
      /\ call[c].own # 0 => call[c].kind \in Logins
      /\ call[c].kind \in Logins => call[c].own # 0
  BY Here DEF Stands
<1>1. /\ Moves(c) /\ call'[c] \in CallRec /\ call'[c].pc = "quiet"
      /\ call'[c].kind = call[c].kind
      /\ call'[c].own = call[c].own /\ call'[c].sess = s /\ call'[c].stack = session[s].tunStack
  <2>1. PICK r \in CallRec : /\ r = [call[c] EXCEPT !.pc = "quiet", !.stack = session[s].tunStack]
                             /\ r.pc = "quiet" /\ r.kind = call[c].kind /\ r.own = call[c].own
                             /\ r.sess = s /\ r.stack = session[s].tunStack
    <3>1. session[s].tunStack \in Stacks \cup {0}
      BY Typed
    <3>2. [call[c] EXCEPT !.pc = "quiet", !.stack = session[s].tunStack] \in CallRec
      BY <3>1, Here DEF CallRec, Teardown
    <3> QED BY <3>2, Here DEF CallRec
  <2>2. Becomes(c, r)
    BY <2>1
  <2>3. Moves(c) /\ call'[c] = r
    BY <2>1, <2>2, Here, BecomesEffect
  <2> QED BY <2>1, <2>3
<1>2. /\ session'[s].made /\ session'[s].up = session[s].up
      /\ session'[s].closed /\ session'[s].tunStack = 0
      /\ \A t \in Sessions \ {s} : session'[t] = session[t]
      /\ session' \in [Sessions -> SessionRec]
  <2>1. /\ [session[s] EXCEPT !.closed = TRUE, !.tunStack = 0]
             \in SessionRec
        /\ session[s] \in SessionRec
    <3>1. session[s] \in SessionRec
      BY Typed
    <3> QED BY <3>1
  <2>2. session' = [session EXCEPT ![s] = [session[s] EXCEPT !.closed = TRUE, !.tunStack = 0]]
    BY Typed
  <2> QED BY <1>0, <2>1, <2>2, Typed
<1>3. \A t \in Sessions : session'[t].tunStack \in {session[t].tunStack, 0}
  BY <1>2
<1>4. Grows
  BY <1>0, <1>2 DEF Grows, Stopped
<1>5. SessionTypeOK' /\ New'
  <2>1. SessionTypeOK'
    <3>1. \A t \in Sessions : session'[t].tunStack # 0 => tun[session'[t].tunStack].of = t
      BY <1>3 DEF SessionInv, SessionTypeOK
    <3> QED BY <1>1, <1>2, <3>1, Typed, TypeStep
  <2>2. New'
    BY <1>2 DEF SessionInv, New
  <2> QED BY <2>1, <2>2
<1>6. CallsStand' /\ StacksStand'
  <2>1. MadeOrNone(activeSession)'
    BY <1>4, Typed DEF SessionInv, CallsStand, MadeOrNone, Grows
  <2>2. Stands(c)'
    <3>1. MadeOrNone(call[c].own)' /\ MadeOrNone(s)'
      BY <1>1, <1>4, Here, <1>0 DEF MadeOrNone, Grows
    <3> QED BY <1>0, <1>1, <3>1, Here DEF Stands, Owners, Teardown
  <2>3. StackOf(c)'
    <3>1. session[s].tunStack # 0 => tun[session[s].tunStack].of = s
      BY DEF SessionInv, SessionTypeOK
    <3> QED BY <1>1, <3>1 DEF StackOf, At
  <2>4. \A k \in Stacks : StackStands(k)'
    BY Typed DEF StackStands, Stopped
  <2> QED BY <1>1, <1>4, <2>1, <2>2, <2>3, <2>4, CallsStandStep, StacksStandStep
<1>7. OneAtATime' /\ NothingActive' /\ Attached'
  <2>1. call[c].kind \in Logins => call[c].own = call[c].sess \/ activeSession = 0
    BY DEF SessionInv, NothingActive, Kind
  <2> QED BY <1>1, <1>3, <2>1, OneAtATimeStep, NothingActiveStep, AttachedStep DEF At
<1>8. ClosedByOne'
  <2>1. /\ \A d \in Calls \ {c} : \A t \in Sessions : TearsDown(d, t)' <=> TearsDown(d, t)
        /\ \A t \in Sessions : ~TearsDown(c, t) /\ (TearsDown(c, t)' <=> t = s)
    BY <1>0, <1>1 DEF TearsDown, Moves, Kind, Teardown
  <2>2. session[s].up /\ \A d \in Calls : ~TearsDown(d, s)
    BY <1>0, Typed DEF SessionInv, ClosedByOne
  <2>3. \A t \in Sessions : session'[t].made
          => /\ session'[t].up /\ session'[t].closed => \E d \in Calls : TearsDown(d, t)'
             /\ ~session'[t].up => session'[t].closed /\ \A d \in Calls : ~TearsDown(d, t)'
             /\ session'[t].closed => session'[t].tunStack = 0
    <3>1. TearsDown(c, s)' /\ \A d \in Calls : \A t \in Sessions \ {s} :
                                TearsDown(d, t)' <=> TearsDown(d, t)
      BY <2>1
    <3>2. ASSUME NEW t \in Sessions \ {s}, session[t].made
          PROVE  /\ session[t].up /\ session[t].closed => \E d \in Calls : TearsDown(d, t)
                 /\ ~session[t].up => session[t].closed /\ \A d \in Calls : ~TearsDown(d, t)
                 /\ session[t].closed => session[t].tunStack = 0
      BY <3>2 DEF SessionInv, ClosedByOne
    <3> SUFFICES ASSUME NEW t \in Sessions, session'[t].made
                 PROVE  /\ session'[t].up /\ session'[t].closed => \E d \in Calls : TearsDown(d, t)'
                        /\ ~session'[t].up => session'[t].closed /\ \A d \in Calls : ~TearsDown(d, t)'
                        /\ session'[t].closed => session'[t].tunStack = 0
      OBVIOUS
    <3>3. CASE t = s
      BY <1>2, <2>2, <3>1, <3>3
    <3>4. CASE t # s
      <4>1. session'[t] = session[t] /\ \A d \in Calls : TearsDown(d, t)' <=> TearsDown(d, t)
        BY <1>2, <3>1, <3>4
      <4> QED BY <3>2, <3>4, <4>1
    <3> QED BY <3>3, <3>4
  <2>4. /\ \A d, e \in Calls : \A t \in Sessions : TearsDown(d, t)' /\ TearsDown(e, t)' => d = e
        /\ \A d \in Calls : \A t \in Sessions : TearsDown(d, t)' => session'[t].closed
    <3>1. /\ \A d, e \in Calls : \A t \in Sessions : TearsDown(d, t) /\ TearsDown(e, t) => d = e
          /\ \A d \in Calls : \A t \in Sessions : TearsDown(d, t) => session[t].closed
      BY DEF SessionInv, ClosedByOne
    <3>2. session'[s].closed /\ \A t \in Sessions : session[t].closed => session'[t].closed
      BY <1>2
    <3>3. \A d \in Calls : \A t \in Sessions :
            TearsDown(d, t)' => (t = s /\ d = c) \/ (t # s /\ TearsDown(d, t))
      BY <2>1, <2>2
    <3> QED BY <3>1, <3>2, <3>3
  <2> QED BY <2>3, <2>4 DEF ClosedByOne
<1>9. NoOrphan'
  <2>1. \A t \in Sessions : Holds(c, t) => Holds(c, t)'
    BY <1>1 DEF Holds, InProgress, At, Kind
  <2>2. \A t \in Sessions : session'[t].up => session[t].up
    BY <1>2
  <2> QED BY <1>1, <2>1, <2>2, NoOrphanStep
<1>10. CaredForStack'
  <2> SUFFICES ASSUME NEW k \in Stacks, tun[k].of # 0
               PROVE  \/ session'[tun[k].of].tunStack = k
                      \/ \E d \in Calls : WillClose(d, k)'
                      \/ Stopped(k)
    BY DEF CaredForStack, Stopped
  <2>1. CASE session[tun[k].of].tunStack = k
    <3>1. tun[k].of \in Sessions
      BY Typed
    <3>2. CASE tun[k].of = s
      BY <1>1, <2>1, <3>2 DEF WillClose, At
    <3>3. CASE tun[k].of # s
      BY <1>2, <2>1, <3>1, <3>3
    <3> QED BY <3>2, <3>3
  <2>2. CASE \E d \in Calls : WillClose(d, k)
    <3>1. ~WillClose(c, k)
      BY DEF WillClose, Closing, At
    <3> QED BY <1>1, <2>2, <3>1 DEF WillClose, Closing, Moves, At
  <2> QED BY <2>1, <2>2 DEF SessionInv, CaredForStack
<1> QED BY <1>5, <1>6, <1>7, <1>8, <1>9, <1>10 DEF SessionInv

\* close ends: everything of the session is closed, and nobody works on it any more.
LEMMA TearDownKeeps ==
  ASSUME SessionInv, NEW c \in Calls, TearDown(c)
  PROVE  SessionInv'
<1>0. /\ call[c].pc = "down" /\ UNCHANGED <<activeSession, tun>>
      /\ call[c].kind \in Owners /\ call[c].sess \in Sessions
      /\ Goto(c, AfterClose(c))
  BY Here DEF TearDown, At, Stands, Teardown
<1>1. PICK s \in Sessions : /\ s = call[c].sess /\ session[s].made
                            /\ session' = [session EXCEPT ![s].up = FALSE]
  BY <1>0, Here DEF TearDown
<1>2. TearsDown(c, s) /\ session[s].closed
  BY <1>0, <1>1 DEF TearsDown, Teardown, Kind, SessionInv, ClosedByOne
<1>3. /\ session'[s].made /\ ~session'[s].up /\ session'[s].closed
      /\ \A t \in Sessions \ {s} : session'[t] = session[t]
      /\ \A t \in Sessions : session'[t].tunStack = session[t].tunStack
      /\ session' \in [Sessions -> SessionRec]
  <2>1. session \in [Sessions -> SessionRec]
    BY Typed
  <2>2. session' = [session EXCEPT ![s] = [session[s] EXCEPT !.up = FALSE]]
    BY <1>1, <2>1
  <2>3. session[s].closed
    BY <1>2
  <2>4. /\ session'[s] = [session[s] EXCEPT !.up = FALSE]
        /\ \A t \in Sessions \ {s} : session'[t] = session[t]
    BY <2>1, <2>2
  <2>5. session' \in [Sessions -> SessionRec]
    <3>1. session[s] \in SessionRec
      BY <2>1
    <3>2. [session[s] EXCEPT !.up = FALSE] \in SessionRec
      BY <3>1
    <3> QED BY <2>1, <2>2, <3>2
  <2>6. /\ session'[s].made /\ ~session'[s].up /\ session'[s].closed
        /\ session'[s].tunStack = session[s].tunStack
    BY <1>1, <2>1, <2>3, <2>4
  <2> QED BY <2>4, <2>5, <2>6
<1>4. Grows
  BY <1>0, <1>1, <1>3 DEF Grows, Stopped
<1>5. /\ Moves(c) /\ call'[c].kind \in {call[c].kind, "none"}
      /\ Stands(c)' /\ StackOf(c)' /\ ~At(c, "run")
      /\ call'[c].kind \in Logins
           => \/ call'[c].own = call'[c].sess /\ call'[c].pc # "publish"
              \/ activeSession = 0
      /\ \A t \in Sessions : /\ ~TearsDown(c, t)'
                             /\ Holds(c, t) /\ t # s => Holds(c, t)'
      /\ \A k \in Stacks : ~WillClose(c, k)
  BY <1>0, <1>1, <1>2, <1>4, AfterClosed
<1>6. SessionTypeOK' /\ New'
  <2>1. \A t \in Sessions : session'[t].tunStack # 0 => tun[session'[t].tunStack].of = t
    BY <1>3 DEF SessionInv, SessionTypeOK
  <2>2. SessionTypeOK'
    BY <1>0, <1>3, <1>5, <2>1, Typed, TypeStep
  <2>3. New'
    BY <1>0, <1>3 DEF SessionInv, New
  <2> QED BY <2>2, <2>3
<1>7. CallsStand' /\ StacksStand'
  <2>1. MadeOrNone(activeSession)'
    BY <1>0, <1>4, Typed DEF SessionInv, CallsStand, MadeOrNone, Grows
  <2>2. \A k \in Stacks : StackStands(k)'
    BY <1>0, Typed DEF StackStands, Stopped
  <2> QED BY <1>4, <1>5, <2>1, <2>2, CallsStandStep, StacksStandStep
<1>8. OneAtATime' /\ NothingActive' /\ Attached'
  BY <1>0, <1>3, <1>5, OneAtATimeStep, NothingActiveStep, AttachedStep
<1>9. ClosedByOne'
  <2>1. /\ \A d \in Calls \ {c} : \A t \in Sessions : TearsDown(d, t)' <=> TearsDown(d, t)
        /\ \A t \in Sessions \ {s} : ~TearsDown(c, t)
    BY <1>1, <1>5 DEF TearsDown, Moves, Kind
  <2>2. \A d \in Calls \ {c} : ~TearsDown(d, s)
    BY <1>2 DEF SessionInv, ClosedByOne
  <2>3. \A d \in Calls : \A t \in Sessions : TearsDown(d, t)' => TearsDown(d, t) /\ t # s /\ d # c
    BY <1>5, <2>1, <2>2
  <2>4. \A d \in Calls : \A t \in Sessions \ {s} : TearsDown(d, t) => TearsDown(d, t)'
    BY <1>5, <2>1
  <2>5. \A t \in Sessions : session'[t].made
          => /\ session'[t].up /\ session'[t].closed => \E d \in Calls : TearsDown(d, t)'
             /\ ~session'[t].up => session'[t].closed /\ \A d \in Calls : ~TearsDown(d, t)'
             /\ session'[t].closed => session'[t].tunStack = 0
    BY <1>2, <1>3, <1>1, <2>3, <2>4 DEF SessionInv, ClosedByOne
  <2> QED BY <1>3, <2>3, <2>5 DEF SessionInv, ClosedByOne
<1>10. NoOrphan'
  <2>1. \A t \in Sessions : /\ session'[t].up => session[t].up
                            /\ Holds(c, t) /\ session'[t].up => Holds(c, t)'
    BY <1>3, <1>5
  <2> QED BY <1>0, <1>5, <2>1, NoOrphanStep
<1>11. CaredForStack'
  BY <1>0, <1>3, <1>4, <1>5, CaredForStep
<1> QED BY <1>6, <1>7, <1>8, <1>9, <1>10, <1>11 DEF SessionInv

LEMMA MarkClosedKeeps ==
  ASSUME SessionInv, NEW c \in Calls, MarkClosed(c)
  PROVE  SessionInv'
<1>0. /\ call[c].pc = "mark" /\ call[c].sess \in Sessions /\ UNCHANGED <<activeSession, tun>>
  BY Here DEF MarkClosed, At, Stands
<1>1. PICK s \in Sessions : s = call[c].sess
  BY <1>0
<1>2. CASE session[s].closed
  BY <1>0, <1>1, <1>2, MarkedBefore DEF MarkClosed
<1>3. CASE ~session[s].closed
  <2>1. /\ session' = [session EXCEPT ![s].closed = TRUE, ![s].tunStack = 0]
        /\ Becomes(c, [call[c] EXCEPT !.pc = "quiet", !.stack = session[s].tunStack])
    BY <1>1, <1>3 DEF MarkClosed
  <2> QED BY <1>0, <1>1, <1>3, <2>1, MarkedNow
<1> QED BY <1>2, <1>3

LEMMA CreateSessionKeeps ==
  ASSUME SessionInv, NEW c \in Calls, CreateSession(c)
  PROVE  SessionInv'
BY CreateFails, CreateSessionMakes DEF CreateSession, At

LEMMA StartListenersKeeps ==
  ASSUME SessionInv, NEW c \in Calls, StartListeners(c)
  PROVE  SessionInv'
BY StartFrontendKeeps, StartProxyKeeps

-----------------------------------------------------------------------------
(* The stack in its session and out of it.                                 *)

\* StopStack takes the stack out of the session, and will close it.
LEMMA DetachStackKeeps ==
  ASSUME SessionInv, NEW c \in Calls, DetachStack(c)
  PROVE  SessionInv'
<1>0. /\ call[c].pc = "detach" /\ UNCHANGED <<activeSession, tun>> /\ Stands(c)
      /\ call[c].kind = "stopStack" /\ call[c].sess \in Sessions /\ call[c].own = 0
  BY Here DEF DetachStack, At, Stands, Logins
<1>1. PICK s \in Sessions, k \in Stacks \cup {0} :
        /\ s = call[c].sess /\ k = session[s].tunStack /\ session[s].made
        /\ session' = [session EXCEPT ![s].tunStack = 0]
        /\ Becomes(c, [call[c] EXCEPT !.stack = k, !.pc = IF k = 0 THEN "returned" ELSE "close"])
  BY <1>0, Here, Typed DEF DetachStack
<1>2. k # 0 => tun[k].of = s
  BY <1>1 DEF SessionInv, SessionTypeOK
<1>3. /\ Moves(c)
      /\ k = 0 => call'[c] = NoCall
      /\ k # 0 => /\ call'[c].pc = "close" /\ call'[c].kind = "stopStack"
                  /\ call'[c].own = 0 /\ call'[c].sess = s /\ call'[c].stack = k
  <2>1. PICK pc \in {"returned", "close"} : pc = IF k = 0 THEN "returned" ELSE "close"
    OBVIOUS
  <2>2. TakesStack(c, k, pc)
    BY <1>1, <2>1 DEF TakesStack
  <2> QED BY <1>0, <1>1, <2>1, <2>2, Here, TakesStackEffect
<1>4. /\ \A t \in Sessions \ {s} : session'[t] = session[t]
      /\ session'[s].made /\ session'[s].tunStack = 0
      /\ session'[s].up = session[s].up /\ session'[s].closed = session[s].closed
      /\ session' \in [Sessions -> SessionRec]
  BY <1>1, Typed
<1>5. \A t \in Sessions : session'[t].tunStack \in {session[t].tunStack, 0}
  BY <1>4
<1>6. Grows
  BY <1>0, <1>4 DEF Grows, Stopped
<1>7. call'[c].kind \in {call[c].kind, "none"} /\ call'[c].kind \notin Logins
  BY <1>0, <1>3, NoCallType DEF Logins
<1>8. SessionTypeOK' /\ New'
  <2>1. \A t \in Sessions : session'[t].tunStack # 0 => tun[session'[t].tunStack].of = t
    BY <1>5 DEF SessionInv, SessionTypeOK
  <2>2. SessionTypeOK'
    BY <1>0, <1>3, <1>4, <2>1, Typed, TypeStep
  <2>3. New'
    BY <1>0, <1>4 DEF SessionInv, New
  <2> QED BY <2>2, <2>3
<1>9. CallsStand' /\ StacksStand'
  <2>1. MadeOrNone(activeSession)'
    BY <1>0, <1>6, Typed DEF SessionInv, CallsStand, MadeOrNone, Grows
  <2>2. \A j \in Stacks : StackStands(j)'
    BY <1>0, Typed DEF StackStands, Stopped
  <2>3. CASE k = 0
    BY <1>3, <1>6, <2>1, <2>2, <2>3, Returned, CallsStandStep, StacksStandStep
  <2>4. CASE k # 0
    <3>1. MadeOrNone(0)' /\ MadeOrNone(s)'
      BY <1>4 DEF MadeOrNone
    <3>2. k # 0 /\ tun'[k].of # 0 /\ s # 0
      BY <1>0, <1>1, <1>2, <2>4, Typed
    <3>3. Stands(c)'
      BY <1>3, <2>4, <3>1, <3>2 DEF Stands, Owners, Logins, Teardown
    <3>4. StackOf(c)'
      BY <1>3, <2>4 DEF StackOf, At
    <3> QED BY <1>3, <1>6, <2>1, <2>2, <3>3, <3>4, CallsStandStep, StacksStandStep
  <2> QED BY <2>3, <2>4
<1>10. OneAtATime' /\ NothingActive' /\ Attached'
  BY <1>0, <1>3, <1>5, <1>7, OneAtATimeStep, NothingActiveStep, AttachedStep DEF At
<1>11. /\ \A t \in Sessions : ~TearsDown(c, t) /\ ~TearsDown(c, t)' /\ ~Holds(c, t)
       /\ \A j \in Stacks : ~WillClose(c, j)
  BY <1>0, <1>3, NoCallType
     DEF TearsDown, Holds, WillClose, Closing, Owners, Logins, Kind, At
<1>12. ClosedByOne'
  <2>1. \A d \in Calls : \A t \in Sessions : TearsDown(d, t)' <=> TearsDown(d, t)
    BY <1>3, <1>11 DEF TearsDown, Moves, Kind
  <2> QED BY <1>4, <1>1, <2>1 DEF SessionInv, ClosedByOne
<1>13. NoOrphan'
  <2>1. \A t \in Sessions : session'[t].up => session[t].up
    BY <1>4
  <2> QED BY <1>0, <1>3, <1>11, <2>1, NoOrphanStep
<1>14. CaredForStack'
  <2> SUFFICES ASSUME NEW j \in Stacks, tun[j].of # 0
               PROVE  \/ session'[tun[j].of].tunStack = j
                      \/ \E d \in Calls : WillClose(d, j)'
                      \/ Stopped(j)
    BY <1>0 DEF CaredForStack, Stopped
  <2>1. CASE session[tun[j].of].tunStack = j
    <3>1. tun[j].of \in Sessions
      BY Typed
    <3>2. CASE tun[j].of = s
      BY <1>1, <1>3, <2>1, <3>2, Typed DEF WillClose, Closing, At
    <3>3. CASE tun[j].of # s
      BY <1>4, <2>1, <3>1, <3>3
    <3> QED BY <3>2, <3>3
  <2>2. CASE \E d \in Calls : WillClose(d, j)
    BY <1>3, <1>11, <2>2 DEF WillClose, Closing, Moves, At
  <2> QED BY <2>1, <2>2 DEF SessionInv, CaredForStack
<1> QED BY <1>8, <1>9, <1>10, <1>12, <1>13, <1>14 DEF SessionInv

\* StartStack makes a stack for the session it found.
LEMMA CreateStackMakes ==
  ASSUME SessionInv, NEW c \in Calls, NEW k \in Stacks, NEW s \in Sessions,
         call[c].pc = "create", s = call[c].sess, tun[k].of = 0,
         UNCHANGED <<activeSession, session>>,
         tun' = [tun EXCEPT ![k].of = s, ![k].file = TRUE, ![k].lwip = TRUE],
         Becomes(c, [call[c] EXCEPT !.stack = k, !.pc = "attach"])
  PROVE  SessionInv'
<1>0. /\ call[c].kind = "startStack" /\ call[c].own = 0 /\ session[s].made
      /\ tun[k] = NoStack
  BY Here DEF Stands, Logins, SessionInv, New
<1>1. /\ Moves(c) /\ call'[c] \in CallRec /\ call'[c].pc = "attach"
      /\ call'[c].kind = "startStack"
      /\ call'[c].own = 0 /\ call'[c].sess = s /\ call'[c].stack = k
  <2>1. TakesStack(c, k, "attach")
    BY DEF TakesStack
  <2>2. CallsStand /\ (Moves(c) => call'[c] \in CallRec)
    BY Here DEF Moves
  <2> QED BY <1>0, <2>1, <2>2, TakesStackEffect
<1>2. /\ tun'[k].of = s /\ tun'[k].lwip /\ tun'[k].run = "no" /\ tun'[k].once = "no"
      /\ \A j \in Stacks \ {k} : tun'[j] = tun[j]
      /\ tun' \in [Stacks -> StackRec]
  <2>1. tun \in [Stacks -> StackRec] /\ tun[k] \in StackRec
    BY Typed
  <2>2. /\ [tun[k] EXCEPT !.of = s, !.file = TRUE, !.lwip = TRUE] \in StackRec
        /\ [tun[k] EXCEPT !.of = s, !.file = TRUE, !.lwip = TRUE].of = s
        /\ [tun[k] EXCEPT !.of = s, !.file = TRUE, !.lwip = TRUE].lwip
        /\ [tun[k] EXCEPT !.of = s, !.file = TRUE, !.lwip = TRUE].run = "no"
        /\ [tun[k] EXCEPT !.of = s, !.file = TRUE, !.lwip = TRUE].once = "no"
    BY <1>0, <2>1 DEF StackRec, NoStack
  <2>3. tun' = [tun EXCEPT ![k] = [tun[k] EXCEPT !.of = s, !.file = TRUE, !.lwip = TRUE]]
    BY <2>1
  <2> QED BY <2>1, <2>2, <2>3
<1>3. SameSessions
  BY DEF SameSessions
<1>4. Grows
  <2>1. \A j \in Stacks : tun[j].of # 0 => tun'[j] = tun[j]
    BY <1>2
  <2>2. \A j \in Stacks : tun'[j] = tun[j] => (Stopped(j)' <=> Stopped(j))
    BY DEF Stopped
  <2> QED BY <2>1, <2>2 DEF Grows
<1>5. SessionTypeOK' /\ New'
  <2>1. \A t \in Sessions : session[t].tunStack # 0 => tun'[session[t].tunStack].of = t
    BY <1>2, Typed DEF SessionInv, SessionTypeOK
  <2>2. SessionTypeOK'
    <3>1. /\ Moves(c) /\ tun' \in [Stacks -> StackRec]
          /\ activeSession' \in Sessions \cup {0} /\ session' \in [Sessions -> SessionRec]
          /\ \A t \in Sessions : session'[t].tunStack # 0 => tun'[session'[t].tunStack].of = t
      BY <1>1, <1>2, <2>1, Typed
    <3> QED BY <3>1, TypeStep
  <2>3. New'
    BY <1>2, Typed DEF SessionInv, New
  <2> QED BY <2>2, <2>3
<1>6. CallsStand' /\ StacksStand'
  <2>1. MadeOrNone(activeSession)'
    BY DEF SessionInv, CallsStand, MadeOrNone
  <2>2. Stands(c)' /\ StackOf(c)'
    BY <1>0, <1>1, <1>2, Typed DEF Stands, StackOf, MadeOrNone, Owners, Logins, Teardown, At
  <2>3. \A j \in Stacks : StackStands(j)'
    BY <1>2, Typed DEF StackStands, Stopped
  <2> QED BY <1>1, <1>4, <2>1, <2>2, <2>3, CallsStandStep, StacksStandStep
<1>7. /\ \A t \in Sessions : ~TearsDown(c, t) /\ ~TearsDown(c, t)' /\ ~Holds(c, t)
      /\ \A j \in Stacks : ~WillClose(c, j)
  BY <1>0, <1>1 DEF TearsDown, Holds, WillClose, Closing, Owners, Logins, Kind, At
<1>8. OneAtATime' /\ NothingActive' /\ ClosedByOne'
  BY <1>0, <1>1, <1>3, <1>7, OneAtATimeStep, NothingActiveStep, ClosedByOneStep DEF Logins
<1>9. NoOrphan' /\ Attached'
  BY <1>1, <1>7, NoOrphanStep, AttachedStep DEF At
<1>10. CaredForStack'
  <2> SUFFICES ASSUME NEW j \in Stacks, tun'[j].of # 0
               PROVE  \/ session[tun'[j].of].tunStack = j
                      \/ \E d \in Calls : WillClose(d, j)'
                      \/ Stopped(j)'
    BY DEF CaredForStack
  <2>1. CASE j = k
    BY <1>1, <2>1 DEF WillClose, Closing, At
  <2>2. CASE j # k
    <3>1. \A d \in Calls : WillClose(d, j) => WillClose(d, j)'
      BY <1>1, <1>7 DEF WillClose, Closing, Moves, At
    <3> QED BY <1>2, <2>2, <3>1 DEF SessionInv, CaredForStack, Stopped
  <2> QED BY <2>1, <2>2
<1> QED BY <1>5, <1>6, <1>8, <1>9, <1>10 DEF SessionInv

\* AttachStack gives the stack to its session, which has none: the host starts one
\* at a time.
LEMMA AttachNow ==
  ASSUME SessionInv, NEW c \in Calls, NEW s \in Sessions, call[c].pc = "attach",
         s = call[c].sess, ~session[s].closed, UNCHANGED <<activeSession, tun>>,
         session' = [session EXCEPT ![s].tunStack = call[c].stack], Goto(c, "run")
  PROVE  SessionInv'
<1>0. /\ call[c].kind = "startStack" /\ call[c].own = 0 /\ session[s].made
      /\ call[c].stack \in Stacks /\ tun[call[c].stack].of = s
  BY Here DEF Stands, Logins
<1>1. PICK k \in Stacks : k = call[c].stack
  BY <1>0
<1>2. /\ Moves(c) /\ call'[c].pc = "run" /\ call'[c].kind = "startStack"
      /\ call'[c].own = 0 /\ call'[c].sess = s /\ call'[c].stack = k
  BY <1>0, <1>1, Here, GotoEffect
<1>3. session[s].tunStack = 0
  <2>1. SUFFICES ASSUME session[s].tunStack # 0 PROVE FALSE
    OBVIOUS
  <2>2. PICK d \in Calls : call[d].pc = "run"
    BY <2>1 DEF SessionInv, Attached, At
  <2>3. call[d].kind = "startStack"
    BY <2>2, Here DEF Stands
  <2>4. d = c
    BY <1>0, <2>3 DEF SessionInv, OneAtATime, Kind
  <2> QED BY <2>2, <2>4
<1>4. /\ \A t \in Sessions \ {s} : session'[t] = session[t]
      /\ session'[s].made /\ session'[s].tunStack = k
      /\ session'[s].up = session[s].up /\ session'[s].closed = session[s].closed
      /\ session' \in [Sessions -> SessionRec]
  BY <1>0, <1>1, Typed
<1>5. Grows
  BY <1>4 DEF Grows, Stopped
<1>6. SessionTypeOK' /\ New'
  <2>1. \A t \in Sessions : session'[t].tunStack # 0 => tun[session'[t].tunStack].of = t
    BY <1>0, <1>1, <1>4 DEF SessionInv, SessionTypeOK
  <2>2. SessionTypeOK'
    BY <1>2, <1>4, <2>1, Typed, TypeStep
  <2>3. New'
    BY <1>4 DEF SessionInv, New
  <2> QED BY <2>2, <2>3
<1>7. CallsStand' /\ StacksStand'
  <2>1. MadeOrNone(activeSession)'
    BY <1>5, Typed DEF SessionInv, CallsStand, MadeOrNone, Grows
  <2>2. Stands(c)' /\ StackOf(c)'
    BY <1>0, <1>1, <1>2, <1>4, Typed DEF Stands, StackOf, MadeOrNone, Owners, Logins, Teardown, At
  <2>3. \A j \in Stacks : StackStands(j)'
    BY Typed DEF StackStands, Stopped
  <2> QED BY <1>2, <1>5, <2>1, <2>2, <2>3, CallsStandStep, StacksStandStep
<1>8. /\ \A t \in Sessions : ~TearsDown(c, t) /\ ~TearsDown(c, t)' /\ ~Holds(c, t)
      /\ \A j \in Stacks : WillClose(c, j) => j = k
  BY <1>0, <1>1, <1>2 DEF TearsDown, Holds, WillClose, Closing, Owners, Logins, Kind, At
<1>9. OneAtATime' /\ NothingActive'
  BY <1>0, <1>2, OneAtATimeStep, NothingActiveStep DEF Logins
<1>10. ClosedByOne'
  <2>1. \A d \in Calls : \A t \in Sessions : TearsDown(d, t)' <=> TearsDown(d, t)
    BY <1>2, <1>8 DEF TearsDown, Moves, Kind
  <2> QED BY <1>4, <2>1 DEF SessionInv, ClosedByOne
<1>11. NoOrphan'
  <2>1. \A t \in Sessions : session'[t].up => session[t].up
    BY <1>4
  <2> QED BY <1>2, <1>8, <2>1, NoOrphanStep
<1>12. Attached'
  <2>1. \A d \in Calls \ {c} : call'[d] = call[d]
    BY <1>2 DEF Moves
  <2> QED BY <1>2, <1>4, <2>1 DEF SessionInv, Attached, At
<1>13. CaredForStack'
  <2> SUFFICES ASSUME NEW j \in Stacks, tun[j].of # 0
               PROVE  \/ session'[tun[j].of].tunStack = j
                      \/ \E d \in Calls : WillClose(d, j)'
                      \/ Stopped(j)
    BY DEF CaredForStack, Stopped
  <2>1. CASE session[tun[j].of].tunStack = j
    <3>1. tun[j].of \in Sessions /\ j # 0
      BY Typed
    <3> QED BY <1>3, <1>4, <2>1, <3>1
  <2>2. CASE \E d \in Calls : WillClose(d, j)
    <3>1. \A d \in Calls \ {c} : WillClose(d, j) => WillClose(d, j)'
      BY <1>2 DEF WillClose, Closing, Moves, At
    <3> QED BY <1>0, <1>1, <1>4, <1>8, <2>2, <3>1
  <2> QED BY <2>1, <2>2 DEF SessionInv, CaredForStack
<1> QED BY <1>6, <1>7, <1>9, <1>10, <1>11, <1>12, <1>13 DEF SessionInv

\* StartStack returns when Run has ended, and takes its stack out of the session.
LEMMA RunReturnedKeeps ==
  ASSUME SessionInv, NEW c \in Calls, RunReturned(c)
  PROVE  SessionInv'
<1>0. /\ call[c].pc = "run" /\ UNCHANGED <<activeSession, tun>> /\ Goto(c, "returned")
      /\ call[c].kind = "startStack" /\ call[c].sess \in Sessions /\ call[c].stack \in Stacks
      /\ tun[call[c].stack].run = "done"
  BY Here DEF RunReturned, At, Stands
<1>1. PICK s \in Sessions, k \in Stacks :
        /\ s = call[c].sess /\ k = call[c].stack /\ session[s].made /\ Stopped(k)
        /\ session' = [session EXCEPT ![s].tunStack = IF @ = k THEN 0 ELSE @]
  BY <1>0, Here DEF RunReturned, Stopped
<1>2. Moves(c) /\ call'[c] = NoCall
  BY <1>0, Here, GotoEffect
<1>3. /\ \A t \in Sessions \ {s} : session'[t] = session[t]
      /\ session'[s].made
      /\ session'[s].tunStack = IF session[s].tunStack = k THEN 0 ELSE session[s].tunStack
      /\ session'[s].up = session[s].up /\ session'[s].closed = session[s].closed
      /\ session' \in [Sessions -> SessionRec]
  BY <1>1, Typed
<1>4. \A t \in Sessions : session'[t].tunStack \in {session[t].tunStack, 0}
  BY <1>3
<1>5. Grows
  BY <1>0, <1>3 DEF Grows, Stopped
<1>6. SessionTypeOK' /\ New'
  <2>1. \A t \in Sessions : session'[t].tunStack # 0 => tun[session'[t].tunStack].of = t
    BY <1>4 DEF SessionInv, SessionTypeOK
  <2>2. SessionTypeOK'
    BY <1>0, <1>2, <1>3, <2>1, Typed, TypeStep
  <2>3. New'
    BY <1>0, <1>1, <1>3 DEF SessionInv, New
  <2> QED BY <2>2, <2>3
<1>7. CallsStand' /\ StacksStand'
  <2>1. MadeOrNone(activeSession)'
    BY <1>0, <1>5, Typed DEF SessionInv, CallsStand, MadeOrNone, Grows
  <2>2. Stands(c)' /\ StackOf(c)'
    BY <1>2, Returned
  <2>3. \A j \in Stacks : StackStands(j)'
    BY <1>0, Typed DEF StackStands, Stopped
  <2> QED BY <1>2, <1>5, <2>1, <2>2, <2>3, CallsStandStep, StacksStandStep
<1>8. /\ \A t \in Sessions : ~TearsDown(c, t) /\ ~TearsDown(c, t)' /\ ~Holds(c, t)
      /\ \A j \in Stacks : ~WillClose(c, j)
  BY <1>0, <1>2, Returned DEF TearsDown, Holds, WillClose, Closing, Owners, Logins, Kind, At
<1>9. OneAtATime' /\ NothingActive'
  BY <1>0, <1>2, NoCallType, OneAtATimeStep, NothingActiveStep DEF Logins
<1>10. ClosedByOne'
  <2>1. \A d \in Calls : \A t \in Sessions : TearsDown(d, t)' <=> TearsDown(d, t)
    BY <1>2, <1>8 DEF TearsDown, Moves, Kind
  <2>2. \A t \in Sessions : /\ session'[t].made => session[t].made
                            /\ session'[t].up = session[t].up
                            /\ session'[t].closed = session[t].closed
                            /\ session[t].tunStack = 0 => session'[t].tunStack = 0
    BY <1>1, <1>3
  <2> QED BY <2>1, <2>2 DEF SessionInv, ClosedByOne
<1>11. NoOrphan'
  <2>1. \A t \in Sessions : session'[t].up => session[t].up
    BY <1>3
  <2> QED BY <1>0, <1>2, <1>8, <2>1, NoOrphanStep
<1>12. Attached'
  <2> SUFFICES ASSUME NEW t \in Sessions, session'[t].tunStack # 0
               PROVE  \E d \in Calls : /\ At(d, "run")' /\ call'[d].sess = t
                                       /\ call'[d].stack = session'[t].tunStack
    BY DEF Attached
  <2>1. session'[t].tunStack = session[t].tunStack
    BY <1>4
  <2>2. PICK d \in Calls : /\ call[d].pc = "run" /\ call[d].sess = t
                           /\ call[d].stack = session[t].tunStack
    BY <2>1 DEF SessionInv, Attached, At
  <2>3. d # c
    BY <1>1, <1>3, <2>1, <2>2, Typed
  <2> QED BY <1>2, <2>1, <2>2, <2>3 DEF Moves, At
<1>13. CaredForStack'
  <2> SUFFICES ASSUME NEW j \in Stacks, tun[j].of # 0
               PROVE  \/ session'[tun[j].of].tunStack = j
                      \/ \E d \in Calls : WillClose(d, j)'
                      \/ Stopped(j)
    BY <1>0 DEF CaredForStack, Stopped
  <2>1. CASE session[tun[j].of].tunStack = j
    <3>1. tun[j].of \in Sessions
      BY Typed
    <3> QED BY <1>1, <1>3, <2>1, <3>1
  <2>2. CASE \E d \in Calls : WillClose(d, j)
    <3>1. \A d \in Calls \ {c} : WillClose(d, j) => WillClose(d, j)'
      BY <1>2 DEF WillClose, Closing, Moves, At
    <3> QED BY <1>8, <2>2, <3>1
  <2> QED BY <2>1, <2>2 DEF SessionInv, CaredForStack
<1> QED BY <1>6, <1>7, <1>9, <1>10, <1>11, <1>12, <1>13 DEF SessionInv

LEMMA CreateStackKeeps ==
  ASSUME SessionInv, NEW c \in Calls, CreateStack(c)
  PROVE  SessionInv'
<1>1. call[c].pc = "create" /\ UNCHANGED <<activeSession, session>> /\ call[c].sess \in Sessions
  BY Here DEF CreateStack, At, Stands
<1>2. CASE Goto(c, "returned") /\ UNCHANGED tun
  BY <1>1, <1>2, CreateFails
<1>3. CASE ~(Goto(c, "returned") /\ UNCHANGED tun)
  <2>1. PICK s \in Sessions : s = call[c].sess
    BY <1>1
  <2>2. PICK k \in Stacks :
          /\ tun[k].of = 0
          /\ tun' = [tun EXCEPT ![k].of = s, ![k].file = TRUE, ![k].lwip = TRUE]
          /\ Becomes(c, [call[c] EXCEPT !.stack = k, !.pc = "attach"])
    BY <1>3, <2>1 DEF CreateStack
  <2> QED BY <1>1, <2>1, <2>2, CreateStackMakes
<1> QED BY <1>2, <1>3

LEMMA AttachStackKeeps ==
  ASSUME SessionInv, NEW c \in Calls, AttachStack(c)
  PROVE  SessionInv'
<1>1. call[c].pc = "attach" /\ UNCHANGED <<activeSession, tun>> /\ call[c].sess \in Sessions
  BY Here DEF AttachStack, At, Stands
<1>2. PICK s \in Sessions : s = call[c].sess
  BY <1>1
<1> QED BY <1>1, <1>2, AttachRefused, AttachNow DEF AttachStack

-----------------------------------------------------------------------------
(* What Close and Run do to a stack.                                       *)

\* Stack r may be what a step makes of stack k: what was settled stays so.
MayBecome(k, r) ==
  /\ r \in StackRec /\ tun[k].of # 0 /\ r.of = tun[k].of
  /\ tun[k].closed => r.closed
  /\ r.file => tun[k].file
  /\ Stopped(k) => r.run = "done" \/ (~r.file /\ r.run \in {"no", "read"})
  /\ r.run # "no" => r.started
  /\ r.lwip \/ r.closed
  /\ r.run \in {"write", "dial"} => r.lwip
  /\ r.once = "done" => r.run = "done" \/ (~r.file /\ r.run \in {"no", "read"})

LEMMA StackChanges ==
  ASSUME SessionInv, NEW k \in Stacks, NEW r \in StackRec, MayBecome(k, r),
         tun' = [tun EXCEPT ![k] = r], UNCHANGED session
  PROVE  /\ tun'[k] = r /\ \A j \in Stacks \ {k} : tun'[j] = tun[j]
         /\ \A j \in Stacks : tun'[j].of = tun[j].of
         /\ Grows /\ New' /\ SameSessions
         /\ tun' \in [Stacks -> StackRec]
         /\ \A s \in Sessions : session[s].tunStack # 0 => tun'[session[s].tunStack].of = s
         /\ \A j \in Stacks : StackStands(j)'
<1>1. /\ tun'[k] = r /\ \A j \in Stacks \ {k} : tun'[j] = tun[j]
      /\ tun' \in [Stacks -> StackRec]
  BY Typed
<1>2. \A j \in Stacks : tun'[j].of = tun[j].of
  BY <1>1 DEF MayBecome
<1>3. Grows /\ SameSessions
  BY <1>1 DEF MayBecome, Grows, SameSessions, Stopped
<1>4. New'
  BY <1>1 DEF MayBecome, SessionInv, New
<1>5. \A s \in Sessions : session[s].tunStack # 0 => tun'[session[s].tunStack].of = s
  BY <1>2, Typed DEF SessionInv, SessionTypeOK
<1>6. StackStands(k)'
  BY <1>1 DEF MayBecome, StackStands, Stopped
<1>7. \A j \in Stacks \ {k} : StackStands(j)'
  BY <1>1, Typed DEF StackStands, Stopped
<1> QED BY <1>1, <1>2, <1>3, <1>4, <1>5, <1>6, <1>7

\* A step of Run.
LEMMA RunMoves ==
  ASSUME SessionInv, NEW k \in Stacks, NEW r \in StackRec, MayBecome(k, r),
         tun' = [tun EXCEPT ![k] = r], UNCHANGED <<activeSession, session, call>>
  PROVE  SessionInv'
<1>1. /\ \A j \in Stacks : tun'[j].of = tun[j].of
      /\ Grows /\ New' /\ SameSessions
      /\ tun' \in [Stacks -> StackRec]
      /\ \A s \in Sessions : session[s].tunStack # 0 => tun'[session[s].tunStack].of = s
      /\ \A j \in Stacks : StackStands(j)'
  BY StackChanges
<1>2. SessionTypeOK'
  BY <1>1, Typed DEF SessionInv, SessionTypeOK, StackRec, Kind
<1>3. CallsStand' /\ StacksStand'
  <2>1. \A c \in Calls : Stands(c)' /\ StackOf(c)'
    BY <1>1, StandsStill
  <2> QED BY <1>1, <2>1 DEF SessionInv, CallsStand, StacksStand, MadeOrNone
<1>4. OneAtATime' /\ NothingActive' /\ Attached'
  BY DEF SessionInv, OneAtATime, NothingActive, Attached, Kind, At
<1>5. ClosedByOne'
  BY DEF SessionInv, ClosedByOne, TearsDown, Kind
<1>6. NoOrphan'
  BY DEF SessionInv, NoOrphan, Holds, Kind, InProgress, At
<1>7. CaredForStack'
  <2>1. \A j \in Stacks : Stopped(j) /\ tun[j].of # 0 => Stopped(j)'
    BY <1>1 DEF Grows
  <2> QED BY <1>1, <2>1 DEF SessionInv, CaredForStack, WillClose, Closing, At
<1> QED BY <1>1, <1>2, <1>3, <1>4, <1>5, <1>6, <1>7 DEF SessionInv

\* A step of Close.
LEMMA CloseMoves ==
  ASSUME SessionInv, NEW c \in Calls, NEW k \in Stacks, NEW r \in StackRec, MayBecome(k, r),
         tun' = [tun EXCEPT ![k] = r], UNCHANGED <<activeSession, session>>,
         Moves(c), call'[c].kind \in {call[c].kind, "none"},
         Stands(c)', StackOf(c)',
         call'[c].kind \in Logins
           => \/ call'[c].own = call'[c].sess /\ call'[c].pc # "publish"
              \/ activeSession = 0,
         \A s \in Sessions : /\ TearsDown(c, s)' <=> TearsDown(c, s)
                             /\ Holds(c, s) => Holds(c, s)',
         ~At(c, "run"),
         \A j \in Stacks : WillClose(c, j) => WillClose(c, j)' \/ Stopped(j)'
  PROVE  SessionInv'
<1>1. /\ \A j \in Stacks : tun'[j].of = tun[j].of
      /\ Grows /\ New' /\ SameSessions
      /\ tun' \in [Stacks -> StackRec]
      /\ \A s \in Sessions : session[s].tunStack # 0 => tun'[session[s].tunStack].of = s
      /\ \A j \in Stacks : StackStands(j)'
  BY StackChanges
<1>2. SessionTypeOK'
  BY <1>1, Typed, TypeStep
<1> QED BY <1>1, <1>2, CallMoves

\* What is known of a call that closes a stack, and of the stack.
LEMMA ClosingHere ==
  ASSUME SessionInv, NEW c \in Calls, call[c].pc \in {"close", "sweep", "file", "look", "drain", "lwip"}
  PROVE  /\ call[c].stack \in Stacks /\ tun[call[c].stack].of # 0
         /\ tun[call[c].stack] \in StackRec /\ StackStands(call[c].stack)
         /\ call[c].sess # 0 /\ ~At(c, "run")
         /\ call[c].kind \in Owners \cup {"startStack", "stopStack"}
         /\ \A k \in Stacks : WillClose(c, k) <=> k = call[c].stack
         /\ call[c].kind \in Logins => call[c].own = call[c].sess \/ activeSession = 0
<1>1. call[c].stack \in Stacks /\ tun[call[c].stack] \in StackRec /\ StackStands(call[c].stack)
  BY Here, Typed DEF Stands, StackRec
<1>2. call[c].kind \in Logins => call[c].own = call[c].sess \/ activeSession = 0
  BY DEF SessionInv, NothingActive, Kind
<1> QED BY <1>1, <1>2, Here DEF Stands, Teardown, WillClose, Closing, At

\* A step of Close to another one of its places.
LEMMA ClosingOn ==
  ASSUME SessionInv, NEW c \in Calls, NEW pc \in {"sweep", "file", "look", "drain", "lwip"},
         call[c].pc \in {"close", "sweep", "file", "look"}, Goto(c, pc), UNCHANGED <<session, activeSession>>,
         \A j \in Stacks : tun'[j].of = tun[j].of
  PROVE  /\ Moves(c) /\ call'[c].pc = pc /\ call'[c].kind = call[c].kind
         /\ call'[c].own = call[c].own /\ call'[c].sess = call[c].sess
         /\ call'[c].stack = call[c].stack
         /\ Stands(c)'
         /\ \A s \in Sessions : /\ TearsDown(c, s)' <=> TearsDown(c, s)
                                /\ Holds(c, s) => Holds(c, s)'
         /\ \A j \in Stacks : WillClose(c, j) => WillClose(c, j)'
<1>1. /\ Moves(c) /\ call'[c].pc = pc /\ call'[c].kind = call[c].kind
      /\ call'[c].own = call[c].own /\ call'[c].sess = call[c].sess
      /\ call'[c].stack = call[c].stack
  BY Here, GotoEffect DEF Teardown
<1>2. /\ call[c].stack \in Stacks /\ tun[call[c].stack].of # 0 /\ call[c].sess # 0
      /\ call[c].kind \in Owners \cup {"startStack", "stopStack"}
      /\ \A k \in Stacks : WillClose(c, k) <=> k = call[c].stack
  BY ClosingHere
<1>3. /\ MadeOrNone(call[c].own)' /\ MadeOrNone(call[c].sess)'
      /\ call[c].own # 0 => call[c].kind \in Logins
      /\ call[c].kind \in Logins => call[c].own # 0
  BY <1>1, Here DEF MadeOrNone, Stands
<1>4. tun'[call[c].stack].of # 0 /\ call[c].stack # 0
  BY <1>2, Typed
<1>5. Stands(c)'
  BY <1>1, <1>2, <1>3, <1>4 DEF Stands, Owners, Teardown
<1>6. \A s \in Sessions : /\ TearsDown(c, s)' <=> TearsDown(c, s)
                          /\ Holds(c, s) => Holds(c, s)'
  BY <1>1 DEF TearsDown, Teardown, Holds, InProgress, Kind, At
<1>7. \A j \in Stacks : WillClose(c, j) => WillClose(c, j)'
  BY <1>1, <1>2 DEF WillClose, Closing, At
<1> QED BY <1>1, <1>5, <1>6, <1>7

LEMMA CloseBeginsKeeps ==
  ASSUME SessionInv, NEW c \in Calls, CloseBegins(c)
  PROVE  SessionInv'
<1>0. /\ call[c].pc = "close" /\ UNCHANGED <<activeSession, session>>
      /\ call[c].stack \in Stacks
  BY ClosingHere DEF CloseBegins, At
<1>1. PICK k \in Stacks : k = call[c].stack
  BY <1>0
<1>2. CASE tun[k].once = "done" /\ Goto(c, AfterStackClose(c)) /\ UNCHANGED tun
  BY <1>0, <1>1, <1>2, AlreadyClosed
<1>3. CASE ~(tun[k].once = "done" /\ Goto(c, AfterStackClose(c)) /\ UNCHANGED tun)
  <2>1. /\ tun[k].once = "no" /\ Goto(c, "sweep")
        /\ tun' = [tun EXCEPT ![k].once = "busy", ![k].closed = TRUE]
    BY <1>1, <1>3 DEF CloseBegins
  <2>2. tun[k] \in StackRec /\ StackStands(k) /\ tun[k].of # 0
    BY <1>0, <1>1, ClosingHere
  <2>3. PICK r \in StackRec : /\ r = [tun[k] EXCEPT !.once = "busy", !.closed = TRUE]
                              /\ r.of = tun[k].of /\ r.closed /\ r.once = "busy"
                              /\ r.run = tun[k].run /\ r.file = tun[k].file
                              /\ r.lwip = tun[k].lwip /\ r.started = tun[k].started
    <3>1. [tun[k] EXCEPT !.once = "busy", !.closed = TRUE] \in StackRec
      BY <2>2
    <3> QED BY <2>2, <3>1
  <2>4. tun' = [tun EXCEPT ![k] = r]
    BY <2>1, <2>3, Typed
  <2>5. MayBecome(k, r)
    BY <2>2, <2>3 DEF MayBecome, StackStands, Stopped
  <2>6. /\ tun'[k] = r /\ \A j \in Stacks : tun'[j].of = tun[j].of
    BY <1>0, <2>4, <2>5, StackChanges
  <2>7. /\ Moves(c) /\ call'[c].pc = "sweep" /\ call'[c].kind = call[c].kind
        /\ call'[c].own = call[c].own /\ call'[c].sess = call[c].sess
        /\ call'[c].stack = call[c].stack
        /\ Stands(c)'
        /\ \A s \in Sessions : /\ TearsDown(c, s)' <=> TearsDown(c, s)
                               /\ Holds(c, s) => Holds(c, s)'
        /\ \A j \in Stacks : WillClose(c, j) => WillClose(c, j)'
    BY <1>0, <2>1, <2>6, ClosingOn
  <2>8. StackOf(c)'
    <3>1. call'[c].stack = k /\ tun'[k].closed
      BY <1>1, <2>3, <2>6, <2>7
    <3> QED BY <2>7, <3>1 DEF StackOf, At
  <2>9. ~At(c, "run") /\ (call[c].kind \in Logins => call[c].own = call[c].sess \/ activeSession = 0)
    BY <1>0, ClosingHere
  <2> QED BY <1>0, <2>4, <2>5, <2>7, <2>8, <2>9, CloseMoves
<1> QED BY <1>2, <1>3

LEMMA CloseSweepKeeps ==
  ASSUME SessionInv, NEW c \in Calls, CloseSweep(c)
  PROVE  SessionInv'
<1>0. /\ call[c].pc = "sweep" /\ UNCHANGED <<activeSession, session>>
      /\ call[c].stack \in Stacks /\ Goto(c, "file")
  BY ClosingHere DEF CloseSweep, At
<1>1. PICK k \in Stacks : k = call[c].stack
  BY <1>0
<1>2. tun' = [tun EXCEPT ![k].flow = FALSE]
  BY <1>1 DEF CloseSweep
<1>3. tun[k] \in StackRec /\ StackStands(k) /\ tun[k].of # 0 /\ tun[k].closed
  BY <1>0, <1>1, ClosingHere, Here, Typed DEF StackOf
<1>4. PICK r \in StackRec : /\ r = [tun[k] EXCEPT !.flow = FALSE]
                            /\ r.of = tun[k].of /\ r.closed /\ r.once = tun[k].once
                            /\ r.run = tun[k].run /\ r.lwip = tun[k].lwip
                            /\ r.file = tun[k].file /\ r.started = tun[k].started
  <2>1. [tun[k] EXCEPT !.flow = FALSE] \in StackRec
    BY <1>3
  <2> QED BY <1>3, <2>1
<1>5. tun' = [tun EXCEPT ![k] = r]
  BY <1>2, <1>4, Typed
<1>6. MayBecome(k, r)
  BY <1>3, <1>4 DEF MayBecome, StackStands, Stopped
<1>7. tun'[k] = r /\ \A j \in Stacks : tun'[j].of = tun[j].of
  BY <1>0, <1>5, <1>6, StackChanges
<1>8. /\ Moves(c) /\ call'[c].pc = "file" /\ call'[c].kind = call[c].kind
      /\ call'[c].own = call[c].own /\ call'[c].sess = call[c].sess
      /\ call'[c].stack = call[c].stack
      /\ Stands(c)'
      /\ \A s \in Sessions : /\ TearsDown(c, s)' <=> TearsDown(c, s)
                             /\ Holds(c, s) => Holds(c, s)'
      /\ \A j \in Stacks : WillClose(c, j) => WillClose(c, j)'
  BY <1>0, <1>7, ClosingOn
<1>9. StackOf(c)'
  <2>1. call'[c].stack = k /\ tun'[k].closed
    BY <1>1, <1>4, <1>7, <1>8
  <2> QED BY <1>8, <2>1 DEF StackOf, At
<1>10. ~At(c, "run") /\ (call[c].kind \in Logins => call[c].own = call[c].sess \/ activeSession = 0)
  BY <1>0, ClosingHere
<1> QED BY <1>0, <1>5, <1>6, <1>8, <1>9, <1>10, CloseMoves

LEMMA CloseFileKeeps ==
  ASSUME SessionInv, NEW c \in Calls, CloseFile(c)
  PROVE  SessionInv'
<1>0. /\ call[c].pc = "file" /\ UNCHANGED <<activeSession, session>>
      /\ call[c].stack \in Stacks /\ Goto(c, "look")
  BY ClosingHere DEF CloseFile, At
<1>1. PICK k \in Stacks : k = call[c].stack
  BY <1>0
<1>2. tun' = [tun EXCEPT ![k].file = FALSE]
  BY <1>1 DEF CloseFile
<1>3. tun[k] \in StackRec /\ StackStands(k) /\ tun[k].of # 0 /\ tun[k].closed
  BY <1>0, <1>1, ClosingHere, Here, Typed DEF StackOf
<1>4. PICK r \in StackRec : /\ r = [tun[k] EXCEPT !.file = FALSE]
                            /\ r.of = tun[k].of /\ r.closed /\ r.once = tun[k].once
                            /\ r.run = tun[k].run /\ r.lwip = tun[k].lwip
                            /\ r.file = FALSE /\ r.started = tun[k].started
  <2>1. [tun[k] EXCEPT !.file = FALSE] \in StackRec
    BY <1>3
  <2> QED BY <1>3, <2>1
<1>5. tun' = [tun EXCEPT ![k] = r]
  BY <1>2, <1>4, Typed
<1>6. MayBecome(k, r)
  BY <1>3, <1>4 DEF MayBecome, StackStands, Stopped
<1>7. tun'[k] = r /\ \A j \in Stacks : tun'[j].of = tun[j].of
  BY <1>0, <1>5, <1>6, StackChanges
<1>8. /\ Moves(c) /\ call'[c].pc = "look" /\ call'[c].kind = call[c].kind
      /\ call'[c].own = call[c].own /\ call'[c].sess = call[c].sess
      /\ call'[c].stack = call[c].stack
      /\ Stands(c)'
      /\ \A s \in Sessions : /\ TearsDown(c, s)' <=> TearsDown(c, s)
                             /\ Holds(c, s) => Holds(c, s)'
      /\ \A j \in Stacks : WillClose(c, j) => WillClose(c, j)'
  BY <1>0, <1>7, ClosingOn
<1>9. StackOf(c)'
  <2>1. call'[c].stack = k /\ tun'[k].closed /\ ~tun'[k].file
    BY <1>1, <1>4, <1>7, <1>8
  <2> QED BY <1>8, <2>1 DEF StackOf, At
<1>10. ~At(c, "run") /\ (call[c].kind \in Logins => call[c].own = call[c].sess \/ activeSession = 0)
  BY <1>0, ClosingHere
<1> QED BY <1>0, <1>5, <1>6, <1>8, <1>9, <1>10, CloseMoves

LEMMA CloseLooksKeeps ==
  ASSUME SessionInv, NEW c \in Calls, CloseLooks(c)
  PROVE  SessionInv'
<1>0. /\ call[c].pc = "look" /\ UNCHANGED <<activeSession, session, tun>>
      /\ call[c].stack \in Stacks
  BY ClosingHere DEF CloseLooks, At
<1>1. PICK k \in Stacks : k = call[c].stack
  BY <1>0
<1>2. PICK pc \in {"drain", "lwip"} : Goto(c, pc) /\ (pc = "lwip" => ~tun[k].started)
  BY <1>1 DEF CloseLooks
<1>3. StackStands(k) /\ tun[k] \in StackRec /\ tun[k].closed /\ ~tun[k].file
  BY <1>0, <1>1, ClosingHere, Here, Typed DEF StackOf, At
<1>4. /\ Moves(c) /\ call'[c].pc = pc /\ call'[c].kind = call[c].kind
      /\ call'[c].own = call[c].own /\ call'[c].sess = call[c].sess
      /\ call'[c].stack = call[c].stack
      /\ Stands(c)'
      /\ \A s \in Sessions : /\ TearsDown(c, s)' <=> TearsDown(c, s)
                             /\ Holds(c, s) => Holds(c, s)'
      /\ \A j \in Stacks : WillClose(c, j) => WillClose(c, j)'
  BY <1>0, <1>2, ClosingOn
<1>5. StackOf(c)'
  <2>1. pc = "lwip" => tun[k].run = "no"
    BY <1>2, <1>3 DEF StackStands
  <2> QED BY <1>0, <1>1, <1>2, <1>3, <1>4, <2>1 DEF StackOf, Stopped, At
<1>6. ~At(c, "run") /\ (call[c].kind \in Logins => call[c].own = call[c].sess \/ activeSession = 0)
  BY <1>0, ClosingHere
<1>7. call'[c].pc # "publish"
  BY <1>2, <1>4
<1> QED BY <1>0, <1>4, <1>5, <1>6, <1>7, CallMovesAlone

LEMMA CloseLwipKeeps ==
  ASSUME SessionInv, NEW c \in Calls, CloseLwip(c)
  PROVE  SessionInv'
<1>0. /\ call[c].pc \in {"drain", "lwip"} /\ UNCHANGED <<activeSession, session>>
      /\ call[c].stack \in Stacks /\ Goto(c, AfterStackClose(c))
  BY ClosingHere DEF CloseLwip, At
<1>1. PICK k \in Stacks : k = call[c].stack
  BY <1>0
<1>2. tun' = [tun EXCEPT ![k].lwip = FALSE, ![k].once = "done"]
  BY <1>1 DEF CloseLwip
<1>3. tun[k] \in StackRec /\ StackStands(k) /\ tun[k].of # 0 /\ tun[k].closed
  BY <1>0, <1>1, ClosingHere, Here, Typed DEF StackOf
<1>4. Stopped(k)
  BY <1>0, <1>1, Here, Typed DEF CloseLwip, StackOf, Stopped, At
<1>5. PICK r \in StackRec : /\ r = [tun[k] EXCEPT !.lwip = FALSE, !.once = "done"]
                            /\ r.of = tun[k].of /\ r.closed
                            /\ r.run = tun[k].run /\ r.file = tun[k].file
                            /\ r.started = tun[k].started
  <2>1. [tun[k] EXCEPT !.lwip = FALSE, !.once = "done"] \in StackRec
    BY <1>3
  <2> QED BY <1>3, <2>1
<1>6. tun' = [tun EXCEPT ![k] = r]
  BY <1>2, <1>5, Typed
<1>7. MayBecome(k, r)
  BY <1>3, <1>4, <1>5 DEF MayBecome, StackStands, Stopped
<1>8. tun'[k] = r /\ Stopped(k)' /\ SameSessions
  <2>1. tun'[k] = r /\ SameSessions
    BY <1>0, <1>6, <1>7, StackChanges
  <2> QED BY <1>4, <1>5, <2>1 DEF Stopped
<1>9. /\ Moves(c) /\ call'[c].kind \in {call[c].kind, "none"} /\ ~At(c, "run")
      /\ Stands(c)' /\ StackOf(c)'
      /\ call'[c].kind \in Logins
           => \/ call'[c].own = call'[c].sess /\ call'[c].pc # "publish"
              \/ activeSession = 0
      /\ \A s \in Sessions : /\ TearsDown(c, s)' <=> TearsDown(c, s)
                             /\ Holds(c, s) => Holds(c, s)'
      /\ \A j \in Stacks : WillClose(c, j) => j = k
  BY <1>0, <1>1, <1>8, AfterStackClosed
<1> QED BY <1>0, <1>6, <1>7, <1>8, <1>9, CloseMoves

\* Run goes from one of its places to the next.
LEMMA RunToKeeps ==
  ASSUME SessionInv, NEW k \in Stacks, NEW to \in {"read", "got", "write", "dial", "done"},
         tun[k].run # "no", RunTo(k, tun[k].run, to),
         to \in {"write", "dial"} => tun[k].lwip,
         Stopped(k) => to = "done"
  PROVE  SessionInv'
<1>1. tun[k] \in StackRec /\ StackStands(k)
  BY Typed
<1>2. PICK r \in StackRec : /\ r = [tun[k] EXCEPT !.run = to] /\ r.run = to
                            /\ r.of = tun[k].of /\ r.closed = tun[k].closed
                            /\ r.once = tun[k].once /\ r.file = tun[k].file
                            /\ r.lwip = tun[k].lwip /\ r.started = tun[k].started
  <2>1. [tun[k] EXCEPT !.run = to] \in StackRec
    BY <1>1
  <2> QED BY <1>1, <2>1
<1>3. tun' = [tun EXCEPT ![k] = r]
  BY <1>2, Typed DEF RunTo
<1>4. MayBecome(k, r)
  BY <1>1, <1>2 DEF MayBecome, StackStands
<1> QED BY <1>3, <1>4, RunMoves DEF RunTo

\* Every step of a stack.
LEMMA StackSteps ==
  ASSUME SessionInv, NEW k \in Stacks,
         RunStep(k) \/ Packet(k) \/ TunReadFails(k) \/ OpenFlow(k) \/ FlowEnds(k)
  PROVE  SessionInv'
<1>0. tun[k] \in StackRec /\ StackStands(k) /\ tun \in [Stacks -> StackRec]
  BY Typed
<1>1. CASE RunStarts(k)
  <2>1. PICK c \in Calls : call[c].pc = "run" /\ call[c].stack = k
    BY <1>1 DEF RunStarts, At
  <2>2. tun[k].of # 0
    BY <2>1, Here, Typed DEF Stands
  <2>3. PICK r \in StackRec : /\ r = [tun[k] EXCEPT !.run = "read", !.started = TRUE]
                              /\ r.run = "read" /\ r.started
                              /\ r.of = tun[k].of /\ r.closed = tun[k].closed
                              /\ r.once = tun[k].once /\ r.file = tun[k].file
                              /\ r.lwip = tun[k].lwip
    <3>1. [tun[k] EXCEPT !.run = "read", !.started = TRUE] \in StackRec
      BY <1>0
    <3> QED BY <1>0, <3>1
  <2>4. tun' = [tun EXCEPT ![k] = r]
    BY <1>0, <1>1, <2>3 DEF RunStarts
  <2>5. MayBecome(k, r)
    BY <1>0, <1>1, <2>2, <2>3 DEF MayBecome, StackStands, Stopped, RunStarts
  <2> QED BY <1>1, <2>4, <2>5, RunMoves DEF RunStarts
<1>2. CASE Packet(k)
  BY <1>0, <1>2, RunToKeeps DEF Packet, RunTo, Stopped
<1>3. CASE TunReadFails(k)
  BY <1>3, RunToKeeps DEF TunReadFails, RunTo
<1>4. CASE RunWrites(k)
  <2>1. tun[k].closed \/ tun[k].lwip
    BY <1>0, <1>4 DEF RunWrites, RunTo, StackStands
  <2> QED BY <1>4, <2>1, RunToKeeps DEF RunWrites, RunTo, Stopped
<1>5. CASE OpenFlow(k)
  BY <1>0, <1>5, RunToKeeps DEF OpenFlow, RunTo, Stopped, StackStands
<1>6. CASE RunWritten(k)
  BY <1>6, RunToKeeps DEF RunWritten, RunTo, Stopped
<1>7. CASE Dialed(k)
  <2>1. PICK ok \in BOOLEAN : tun' = [tun EXCEPT ![k].run = "read", ![k].flow = ok]
    BY <1>7 DEF Dialed
  <2>2. PICK r \in StackRec : /\ r = [tun[k] EXCEPT !.run = "read", !.flow = ok]
                              /\ r.run = "read" /\ r.started = tun[k].started
                              /\ r.of = tun[k].of /\ r.closed = tun[k].closed
                              /\ r.once = tun[k].once /\ r.file = tun[k].file
                              /\ r.lwip = tun[k].lwip
    <3>1. [tun[k] EXCEPT !.run = "read", !.flow = ok] \in StackRec
      BY <1>0
    <3> QED BY <1>0, <3>1
  <2>3. tun' = [tun EXCEPT ![k] = r]
    BY <1>0, <2>1, <2>2
  <2>4. MayBecome(k, r)
    BY <1>0, <1>7, <2>2 DEF MayBecome, StackStands, Stopped, Dialed
  <2> QED BY <1>7, <2>3, <2>4, RunMoves DEF Dialed
<1>8. CASE FlowEnds(k)
  <2>1. tun[k].of # 0
    BY <1>8 DEF FlowEnds, SessionInv, New, NoStack
  <2>2. PICK r \in StackRec : /\ r = [tun[k] EXCEPT !.flow = FALSE]
                              /\ r.run = tun[k].run /\ r.started = tun[k].started
                              /\ r.of = tun[k].of /\ r.closed = tun[k].closed
                              /\ r.once = tun[k].once /\ r.file = tun[k].file
                              /\ r.lwip = tun[k].lwip
    <3>1. [tun[k] EXCEPT !.flow = FALSE] \in StackRec
      BY <1>0
    <3> QED BY <1>0, <3>1
  <2>3. tun' = [tun EXCEPT ![k] = r]
    BY <1>0, <1>8, <2>2 DEF FlowEnds
  <2>4. MayBecome(k, r)
    BY <1>0, <2>1, <2>2 DEF MayBecome, StackStands, Stopped
  <2> QED BY <1>8, <2>3, <2>4, RunMoves DEF FlowEnds
<1> QED BY <1>1, <1>2, <1>3, <1>4, <1>5, <1>6, <1>7, <1>8 DEF RunStep

-----------------------------------------------------------------------------
(* The invariant holds, and the properties with it.                        *)

\* The host begins a call.
LEMMA BeginCallKeeps ==
  ASSUME SessionInv, NEW c \in Calls, NEW kind \in Kinds, BeginCall(c, kind)
  PROVE  SessionInv'
<1>0. call[c] = NoCall /\ call[c].pc = "returned" /\ UNCHANGED <<activeSession, session, tun>>
  BY Here DEF BeginCall, InProgress, At, Stands
<1>1. PICK pc \in {"login", "take", "get"} :
        /\ call' = [call EXCEPT ![c].kind = kind, ![c].pc = pc]
        /\ pc = "login" <=> kind \in Logins
        /\ pc = "take" <=> kind = "stop"
  <2>1. PICK pc \in {"login", "take", "get"} :
          /\ pc = IF kind \in Logins THEN "login" ELSE IF kind = "stop" THEN "take" ELSE "get"
          /\ call' = [call EXCEPT ![c].kind = kind, ![c].pc = pc]
    BY DEF BeginCall
  <2> QED BY <2>1 DEF Logins
<1>2. /\ Moves(c) /\ call'[c].pc = pc /\ call'[c].kind = kind
      /\ call'[c].own = 0 /\ call'[c].sess = 0 /\ call'[c].stack = 0
  <2>1. [NoCall EXCEPT !.kind = kind, !.pc = pc] \in CallRec
    BY <1>1, NoCallType DEF CallRec
  <2>2. call' = [call EXCEPT ![c] = [NoCall EXCEPT !.kind = kind, !.pc = pc]]
    BY <1>0, <1>1, Typed
  <2> QED BY <2>1, <2>2, Typed, NoCallType DEF Moves, CallRec
<1>3. SameSessions /\ Grows
  BY <1>0 DEF SameSessions, Grows, Stopped
<1>4. SessionTypeOK' /\ New'
  <2>1. \A t \in Sessions : session[t].tunStack # 0 => tun[session[t].tunStack].of = t
    BY DEF SessionInv, SessionTypeOK
  <2>2. SessionTypeOK'
    BY <1>0, <1>2, <2>1, Typed, TypeStep
  <2> QED BY <1>0, <2>2 DEF SessionInv, New
<1>5. CallsStand' /\ StacksStand'
  <2>1. MadeOrNone(activeSession)'
    BY <1>0 DEF SessionInv, CallsStand, MadeOrNone
  <2>2. Stands(c)' /\ StackOf(c)'
    BY <1>1, <1>2 DEF Stands, StackOf, MadeOrNone, Owners, Logins, Kinds, Teardown, At
  <2>3. \A k \in Stacks : StackStands(k)'
    BY <1>0, Typed DEF StackStands, Stopped
  <2> QED BY <1>2, <1>3, <2>1, <2>2, <2>3, CallsStandStep, StacksStandStep
<1>6. OneAtATime'
  <2>1. \A d \in Calls : call[d].kind # "none" => InProgress(d)
    BY Here, NoCallType DEF Stands, InProgress, At
  <2>2. \A d \in Calls \ {c} :
          /\ kind \in Logins => call[d].kind \notin Logins
          /\ kind = "startStack" => call[d].kind # "startStack"
    BY <2>1 DEF BeginCall, Kind, Logins
  <2> QED BY <1>2, <2>2 DEF SessionInv, OneAtATime, Moves, Kind
<1>7. NothingActive' /\ Attached'
  BY <1>0, <1>1, <1>2, NothingActiveStep, AttachedStep DEF At
<1>8. /\ \A t \in Sessions : ~TearsDown(c, t) /\ ~TearsDown(c, t)' /\ ~Holds(c, t)
      /\ \A j \in Stacks : ~WillClose(c, j)
  BY <1>0, <1>2 DEF TearsDown, Teardown, Holds, InProgress, WillClose, Closing, At
<1>9. ClosedByOne'
  BY <1>2, <1>3, <1>8, ClosedByOneStep
<1>10. NoOrphan'
  BY <1>0, <1>2, <1>8, NoOrphanStep
<1>11. CaredForStack'
  BY <1>0, <1>2, <1>3, <1>8, CaredForStep
<1> QED BY <1>4, <1>5, <1>6, <1>7, <1>9, <1>10, <1>11 DEF SessionInv

LEMMA SessionStart == SessionInit => SessionInv
<1> SUFFICES ASSUME SessionInit PROVE SessionInv
  OBVIOUS
<1>1. /\ activeSession = 0
      /\ \A s \in Sessions : /\ session[s] = NoSession /\ ~session[s].made
                             /\ ~session[s].up /\ session[s].tunStack = 0
      /\ \A k \in Stacks : /\ tun[k] = NoStack /\ tun[k].of = 0 /\ tun[k].run = "no"
                           /\ tun[k].once = "no"
  BY DEF SessionInit, NoSession, NoStack
<1>2. \A c \in Calls : /\ call[c] = NoCall /\ call[c].pc = "returned" /\ call[c].kind = "none"
                       /\ call[c].own = 0 /\ call[c].sess = 0 /\ call[c].stack = 0
  BY NoCallType DEF SessionInit
<1>3. /\ call \in [Calls -> CallRec]
      /\ session \in [Sessions -> SessionRec]
      /\ tun \in [Stacks -> StackRec]
  <2>1. NoStack \in StackRec
    BY DEF NoStack, StackRec
  <2>2. NoSession \in SessionRec
    BY DEF NoSession
  <2> QED BY <2>1, <2>2, NoCallType DEF SessionInit
<1>4. SessionTypeOK
  BY <1>1, <1>2, <1>3 DEF SessionTypeOK, StackRec, Kind
<1>5. New /\ CallsStand
  <2>1. \A c \in Calls : Stands(c)
    BY <1>2 DEF Stands, MadeOrNone, Teardown, Logins
  <2> QED BY <1>1, <1>3, <2>1 DEF New, CallsStand, MadeOrNone
<1>6. OneAtATime /\ NothingActive
  BY <1>2 DEF OneAtATime, NothingActive, Kind, Logins
<1>7. ClosedByOne /\ NoOrphan /\ Attached
  BY <1>1, <1>2 DEF ClosedByOne, TearsDown, Teardown, NoOrphan, Attached
<1>8. StacksStand /\ CaredForStack
  BY <1>1, <1>2 DEF StacksStand, StackStands, StackOf, CaredForStack, At
<1> QED BY <1>4, <1>5, <1>6, <1>7, <1>8 DEF SessionInv

LEMMA SessionStep == SessionInv /\ [SessionNext]_sessionVars => SessionInv'
<1> SUFFICES ASSUME SessionInv, [SessionNext]_sessionVars PROVE SessionInv'
  OBVIOUS
<1>1. ASSUME NEW c \in Calls, CallStep(c) PROVE SessionInv'
  <2>1. CASE CreateSession(c) \/ StartListeners(c) \/ TakeActive(c) \/ Publish(c)
    BY <2>1, CreateSessionKeeps, StartListenersKeeps, TakeActiveKeeps, PublishKeeps
  <2>2. CASE MarkClosed(c) \/ StopListeners(c) \/ TearDown(c)
    BY <2>2, MarkClosedKeeps, StopListenersKeeps, TearDownKeeps
  <2>3. CASE GetActive(c) \/ StopProxy(c) \/ DetachStack(c)
    BY <2>3, GetActiveKeeps, StopProxyKeeps, DetachStackKeeps
  <2>4. CASE CreateStack(c) \/ AttachStack(c) \/ RunReturned(c)
    BY <2>4, CreateStackKeeps, AttachStackKeeps, RunReturnedKeeps
  <2>5. CASE CloseBegins(c) \/ CloseSweep(c) \/ CloseFile(c) \/ CloseLooks(c) \/ CloseLwip(c)
    BY <2>5, CloseBeginsKeeps, CloseSweepKeeps, CloseFileKeeps, CloseLooksKeeps, CloseLwipKeeps
  <2> QED BY <1>1, <2>1, <2>2, <2>3, <2>4, <2>5 DEF CallStep
<1>2. ASSUME NEW c \in Calls, NEW kind \in Kinds, BeginCall(c, kind) PROVE SessionInv'
  BY <1>2, BeginCallKeeps
<1>3. ASSUME NEW k \in Stacks,
             RunStep(k) \/ Packet(k) \/ TunReadFails(k) \/ OpenFlow(k) \/ FlowEnds(k)
      PROVE  SessionInv'
  BY <1>3, StackSteps
<1>4. CASE UNCHANGED sessionVars
  <2>1. UNCHANGED <<activeSession, session, tun, call>>
    BY <1>4 DEF sessionVars
  <2>2. SessionTypeOK' /\ New' /\ CallsStand' /\ StacksStand'
    BY <2>1 DEF SessionInv, SessionTypeOK, New, CallsStand, Stands, MadeOrNone,
                StacksStand, StackStands, StackOf, Stopped, Kind, At
  <2>3. OneAtATime' /\ NothingActive' /\ Attached' /\ NoOrphan'
    BY <2>1 DEF SessionInv, OneAtATime, NothingActive, Attached, NoOrphan, Holds,
                InProgress, Kind, At
  <2>4. ClosedByOne' /\ CaredForStack'
    BY <2>1 DEF SessionInv, ClosedByOne, TearsDown, CaredForStack, WillClose, Closing,
                Stopped, Kind, At
  <2> QED BY <2>2, <2>3, <2>4 DEF SessionInv
<1> QED BY <1>1, <1>2, <1>3, <1>4 DEF SessionNext

\* The session's state keeps its types, and a session's stack is one made for it.
THEOREM SessionTypeCorrect == SessionSpec => []SessionTypeOK
<1>1. SessionInv => SessionTypeOK
  BY DEF SessionInv
<1> QED BY <1>1, SessionStart, SessionStep, PTL DEF SessionSpec

\* However many calls of the host run at once, no session is left open that nobody
\* will close: it is the active one, or a login or Stop in progress has it
\* (replaceSession, Stop).
THEOREM NoOrphanCorrect == SessionSpec => []NoOrphan
<1>1. SessionInv => NoOrphan
  BY DEF SessionInv
<1> QED BY <1>1, SessionStart, SessionStep, PTL DEF SessionSpec

LEMMA DataPlanePromise == SessionInv => DataPlaneSafe
<1>1. SessionInv => LwipSafe
  BY Typed DEF LwipSafe, StackStands
<1>2. SessionInv => StoppedOrStopping
  <2> SUFFICES ASSUME SessionInv, NEW k \in Stacks, tun[k].of # 0, ~session[tun[k].of].up,
                      ~Stopped(k)
               PROVE  \E c \in Calls : Closing(c, k)
    BY DEF StoppedOrStopping, Stopped
  <2>1. PICK s \in Sessions : s = tun[k].of
    BY Typed
  <2>2. session[s].tunStack # k
    BY <2>1, Typed DEF SessionInv, New, NoSession, ClosedByOne
  <2>3. PICK c \in Calls : WillClose(c, k)
    BY <2>1, <2>2 DEF SessionInv, CaredForStack
  <2>4. ASSUME call[c].pc = "quiet", call[c].stack = k PROVE FALSE
    <3>1. call[c].sess = s /\ call[c].kind \in Owners /\ session[s].made
      BY <2>1, <2>4, Here, Typed DEF StackOf, Stands, At
    <3>2. TearsDown(c, s)
      BY <2>4, <3>1 DEF TearsDown, Teardown, Kind
    <3> QED BY <2>1, <3>1, <3>2 DEF SessionInv, ClosedByOne
  <2> QED BY <2>3, <2>4 DEF WillClose, At
<1> QED BY <1>1, <1>2 DEF DataPlaneSafe

\* lwIP is not torn down under a Write of Run, and Run takes no more packets once
\* what its handlers use is closed, or the stack is being closed (Stack.Close and
\* mobileSession.close).
THEOREM DataPlaneSafeCorrect == SessionSpec => []DataPlaneSafe
BY DataPlanePromise, SessionStart, SessionStep, PTL DEF SessionSpec

=============================================================================

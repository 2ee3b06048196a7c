------------------------------ MODULE Resolver ------------------------------
(***************************************************************************)
(* Resolving one host name (resolve/resolver.go, cache.go): every call of  *)
(* Resolve asks several sources at once and takes the address a preference *)
(* picks; calls share one lookup at the remote DNS server, which outlives  *)
(* the calls that give up and is cancelled when nobody waits for it.       *)
(*                                                                         *)
(* Hosts share only useTCP, its timer and Close, so one host is modelled.  *)
(* A step is one critical section of resolutionMu or tcpLock, one channel  *)
(* operation, or one answer of a source.  A list of addresses from one     *)
(* source is one address: the first preferred one or else the first.       *)
(***************************************************************************)
EXTENDS Integers, FiniteSets

CONSTANTS
  IPs,        \* addresses
  Preferred,  \* those preferredIP accepts; {} when it is not set
  History,    \* what historyLookup may return for the host: an address or NoIP
  Others,     \* sources besides the remote server
  MaxAsks,    \* bound: calls of Resolve in a behaviour
  NoIP        \* nil

ASSUME ResolverAssumption ==
  /\ Preferred \subseteq IPs /\ History \subseteq IPs \cup {NoIP}
  /\ Others \subseteq {"system", "secondary", "policy-secondary"}
  /\ MaxAsks \in Nat \ {0}
  /\ NoIP \notin IPs

VARIABLES
  cache,    \* dnsCache of the host
  ask,      \* ask[a]: the a-th call of Resolve
  remote,   \* remote[a]: its goroutine that calls resolveCoordinated
  lookup,   \* lookup[k]: the k-th sharedResolution and its runResolution
  current,  \* resolutions[host], 0 if none
  made,     \* lookups started so far
  active,   \* activeResolutions
  closed,   \* resolutionclosed
  useTCP    \* useTCP, which a timer resets

vars == <<cache, ask, remote, lookup, current, made, active, closed, useTCP>>

Asks == 1 .. MaxAsks
Lookups == 1 .. MaxAsks           \* a call starts one lookup at most
IPOrNone == IPs \cup {NoIP}
Sources == Others \cup {"remote"}

NewAsk == [pc |-> "new", first |-> NoIP, heard |-> {}, window |-> TRUE]
NoRemote == [pc |-> "off", of |-> 0, ip |-> NoIP]
NewLookup == [pc |-> "none", udp |-> "off", tcp |-> "off", waiters |-> 0,
              cancelled |-> FALSE, ip |-> NoIP]

Init ==
  /\ cache = NoIP
  /\ ask = [a \in Asks |-> NewAsk]
  /\ remote = [a \in Asks |-> NoRemote]
  /\ lookup = [k \in Lookups |-> NewLookup]
  /\ current = 0
  /\ made = 0
  /\ active = 0
  /\ closed = FALSE
  /\ useTCP = FALSE

-----------------------------------------------------------------------------
(* Resolve.                                                                *)

\* The call returns an address, or none; what it had gathered is gone, and what is
\* in the channel is not read any more.
Returns(a) ==
  /\ ask' = [ask EXCEPT ![a] = [NewAsk EXCEPT !.pc = "done"]]
  /\ remote' = [remote EXCEPT ![a] = IF @.pc = "told" THEN NoRemote ELSE @]

\* The cache answers; or an address of the history that is preferred does; or the
\* sources are asked, with the history's address as the first candidate.
Start(a) ==
  /\ ask[a].pc = "new"
  /\ \A b \in Asks : b < a => ask[b].pc # "new"
  /\ \/ cache # NoIP /\ Returns(a) /\ UNCHANGED cache
     \/ \E ip \in History \cap Preferred :
          cache = NoIP /\ Returns(a) /\ cache' = ip
     \/ \E ip \in History \ Preferred :
          /\ cache = NoIP
          /\ ask' = [ask EXCEPT ![a].pc = "wait", ![a].first = ip]
          /\ remote' = [remote EXCEPT ![a].pc = "enter"]
          /\ UNCHANGED cache
  /\ UNCHANGED <<lookup, current, made, active, closed, useTCP>>

\* No source that may still be heard is worth waiting for.
Enough(heard, first) ==
  \/ heard = Sources
  \/ first # NoIP /\ {"system", "policy-secondary"} \cap Sources \subseteq heard

\* A result is received from the channel: an address, or NoIP for an error.
Hear(a, source, ip) ==
  LET first == IF ask[a].first = NoIP THEN ip ELSE ask[a].first
      heard == ask[a].heard \cup {source} IN
  /\ ask[a].pc = "wait"
  /\ source \notin ask[a].heard
  /\ IF ip \in Preferred
     THEN cache' = ip /\ Returns(a)
     ELSE IF Enough(heard, first)
     THEN cache' = (IF first = NoIP THEN cache ELSE first) /\ Returns(a)
     ELSE /\ ask' = [ask EXCEPT ![a].first = first, ![a].heard = heard]
          /\ remote' = IF source = "remote" THEN [remote EXCEPT ![a] = NoRemote] ELSE remote
          /\ UNCHANGED cache
  /\ UNCHANGED <<lookup, current, made, active, closed, useTCP>>

HearRemote(a) == remote[a].pc = "told" /\ Hear(a, "remote", remote[a].ip)

\* The preference window is over.
WindowEnds(a) ==
  /\ ask[a].pc = "wait"
  /\ ask[a].window
  /\ IF ask[a].first # NoIP
     THEN cache' = ask[a].first /\ Returns(a)
     ELSE ask' = [ask EXCEPT ![a].window = FALSE] /\ UNCHANGED <<cache, remote>>
  /\ UNCHANGED <<lookup, current, made, active, closed, useTCP>>

\* The context of the call ends.
Cancelled(a) ==
  /\ ask[a].pc = "wait"
  /\ Returns(a)
  /\ UNCHANGED <<cache, lookup, current, made, active, closed, useTCP>>

-----------------------------------------------------------------------------
(* resolveCoordinated and releaseResolutionWaiter, for the goroutine of a. *)

\* The result goes to the channel, which nobody reads after Resolve has returned.
Tell(a, ip) ==
  remote' = [remote EXCEPT ![a] = IF ask[a].pc = "done" THEN NoRemote
                                  ELSE [pc |-> "told", of |-> 0, ip |-> ip]]

\* The call joins the lookup under way or starts one.
Join(a) ==
  /\ remote[a].pc = "enter"
  /\ IF closed
     THEN Tell(a, NoIP) /\ UNCHANGED <<lookup, current, made, active>>
     ELSE LET k == IF current # 0 THEN current ELSE made + 1 IN
          /\ remote' = [remote EXCEPT ![a].pc = "wait", ![a].of = k]
          /\ current' = k
          /\ IF current # 0
             THEN /\ lookup' = [lookup EXCEPT ![k].waiters = @ + 1]
                  /\ UNCHANGED <<made, active>>
             ELSE /\ lookup' = [lookup EXCEPT ![k].waiters = 1, ![k].pc = "start"]
                  /\ made' = k
                  /\ active' = active + 1
  /\ UNCHANGED <<cache, ask, closed, useTCP>>

\* The shared lookup is done.
Answered(a) ==
  /\ remote[a].pc = "wait"
  /\ lookup[remote[a].of].pc = "done"
  /\ Tell(a, lookup[remote[a].of].ip)
  /\ UNCHANGED <<cache, ask, lookup, current, made, active, closed, useTCP>>

\* The context of the call or its own time-out ends first.
GiveUp(a) ==
  /\ remote[a].pc = "wait"
  /\ remote' = [remote EXCEPT ![a].pc = "leave"]
  /\ UNCHANGED <<cache, ask, lookup, current, made, active, closed, useTCP>>

Release_Silent(a) ==
  LET k == remote[a].of IN
  /\ remote[a].pc = "leave"
  /\ remote' = [remote EXCEPT ![a] = NoRemote]
  /\ IF current = k
     THEN /\ lookup' = [lookup EXCEPT ![k].waiters = @ - 1,
                                      ![k].cancelled = @ \/ lookup[k].waiters = 1]
          /\ current' = IF lookup[k].waiters = 1 THEN 0 ELSE current
     ELSE UNCHANGED <<lookup, current>>
  /\ UNCHANGED <<cache, ask, made, active, closed, useTCP>>
Release(a) ==
  LET k == remote[a].of IN
  /\ remote[a].pc = "leave"
  /\ Tell(a, NoIP)
  /\ IF current = k
     THEN /\ lookup' = [lookup EXCEPT ![k].waiters = @ - 1,
                                      ![k].cancelled = @ \/ lookup[k].waiters = 1]
          /\ current' = IF lookup[k].waiters = 1 THEN 0 ELSE current
     ELSE UNCHANGED <<lookup, current>>
  /\ UNCHANGED <<cache, ask, made, active, closed, useTCP>>

AskStep(a) == \/ \E s \in Others, ip \in IPOrNone : Hear(a, s, ip)
              \/ HearRemote(a)
RemoteStep(a) == Join(a) \/ Answered(a) \/ GiveUp(a) \/ Release(a)

-----------------------------------------------------------------------------
(* runResolution: resolveRemote with lookupIPWithTCPFallback, then the end. *)

\* useTCP is read: one TCP lookup, or UDP with TCP to fall back on.
LookupStarts(k) ==
  /\ lookup[k].pc = "start"
  /\ lookup' = [lookup EXCEPT ![k].pc = "run",
                              ![k].udp = IF useTCP THEN "off" ELSE "run",
                              ![k].tcp = IF useTCP THEN "run" ELSE "off"]
  /\ UNCHANGED <<cache, ask, remote, current, made, active, closed, useTCP>>

\* The fallback delay is over.
StartTCP(k) ==
  /\ lookup[k].pc = "run"
  /\ lookup[k].udp = "run" /\ lookup[k].tcp = "off"
  /\ lookup' = [lookup EXCEPT ![k].tcp = "run"]
  /\ UNCHANGED <<cache, ask, remote, current, made, active, closed, useTCP>>

\* UDP or TCP brings an address, which is cached.  After a failure of UDP, TCP
\* is preferred for a while (preferTCPTemporarily).
Found(k, ip) ==
  /\ lookup[k].pc = "run"
  /\ "run" \in {lookup[k].udp, lookup[k].tcp}
  /\ lookup' = [lookup EXCEPT ![k].pc = "found", ![k].ip = ip]
  /\ cache' = ip
  /\ useTCP' = (useTCP \/ lookup[k].udp = "failed")
  /\ UNCHANGED <<ask, remote, current, made, active, closed>>

UDPFails(k) ==
  /\ lookup[k].pc = "run"
  /\ lookup[k].udp = "run"
  /\ lookup' = [lookup EXCEPT ![k].udp = "failed",
                              ![k].tcp = IF @ = "off" THEN "run" ELSE @,
                              ![k].pc = IF lookup[k].tcp = "failed" THEN "found" ELSE @]
  /\ UNCHANGED <<cache, ask, remote, current, made, active, closed, useTCP>>

TCPFails(k) ==
  /\ lookup[k].pc = "run"
  /\ lookup[k].tcp = "run"
  /\ lookup' = [lookup EXCEPT ![k].tcp = "failed",
                              ![k].pc = IF lookup[k].udp = "run" THEN @ ELSE "found"]
  /\ UNCHANGED <<cache, ask, remote, current, made, active, closed, useTCP>>

\* The lookup notices that it was cancelled.
LookupCancelled(k) ==
  /\ lookup[k].pc = "run"
  /\ lookup[k].cancelled
  /\ lookup' = [lookup EXCEPT ![k].pc = "found"]
  /\ UNCHANGED <<cache, ask, remote, current, made, active, closed, useTCP>>

\* The lookup leaves the map, if it is still there ...
Unlist_Always(k) ==
  /\ lookup[k].pc = "found"
  /\ lookup' = [lookup EXCEPT ![k].pc = "unlisted"]
  /\ current' = 0
  /\ UNCHANGED <<cache, ask, remote, made, active, closed, useTCP>>
Unlist(k) ==
  /\ lookup[k].pc = "found"
  /\ lookup' = [lookup EXCEPT ![k].pc = "unlisted"]
  /\ current' = IF current = k THEN 0 ELSE current
  /\ UNCHANGED <<cache, ask, remote, made, active, closed, useTCP>>

\* ... is counted off and publishes its result.
PublishResult(k) ==
  /\ lookup[k].pc = "unlisted"
  /\ lookup' = [lookup EXCEPT ![k].pc = "done", ![k].cancelled = TRUE,
                              ![k].udp = "off", ![k].tcp = "off"]
  /\ active' = active - 1
  /\ UNCHANGED <<cache, ask, remote, current, made, closed, useTCP>>

LookupAnswers(k) == (\E ip \in IPs : Found(k, ip)) \/ UDPFails(k) \/ TCPFails(k)
LookupStep(k) == LookupStarts(k) \/ StartTCP(k) \/ LookupAnswers(k) \/ LookupCancelled(k)
                   \/ Unlist(k) \/ PublishResult(k)

-----------------------------------------------------------------------------
(* Time and Close.                                                         *)

Expire ==
  /\ cache # NoIP
  /\ cache' = NoIP
  /\ UNCHANGED <<ask, remote, lookup, current, made, active, closed, useTCP>>

TimerFires ==
  /\ useTCP
  /\ useTCP' = FALSE
  /\ UNCHANGED <<cache, ask, remote, lookup, current, made, active, closed>>

Close ==
  /\ ~closed
  /\ closed' = TRUE
  /\ current' = 0
  /\ lookup' = IF current = 0 THEN lookup
               ELSE [lookup EXCEPT ![current].cancelled = TRUE]
  /\ UNCHANGED <<cache, ask, remote, made, active, useTCP>>

Next ==
  \/ \E a \in Asks : \/ Start(a) \/ AskStep(a) \/ WindowEnds(a)
                      \/ Cancelled(a) \/ RemoteStep(a)
  \/ \E k \in Lookups : LookupStep(k)
  \/ Expire
  \/ TimerFires
  \/ Close

Spec == Init /\ [][Next]_vars

\* A call and its goroutine go on when they can; every source answers or times
\* out, the remote goroutine too; a lookup's transports answer or fail; the timer
\* fires.  Nobody need call Resolve, cancel a context or close the resolver.
Fairness ==
  /\ \A a \in Asks : /\ \A s \in Others : WF_vars(\E ip \in IPOrNone : Hear(a, s, ip))
                     /\ WF_vars(HearRemote(a))
                     /\ WF_vars(RemoteStep(a))
  /\ \A k \in Lookups : WF_vars(LookupStarts(k) \/ LookupAnswers(k)
                                 \/ Unlist(k) \/ PublishResult(k))
  /\ WF_vars(TimerFires)

FairSpec == Spec /\ Fairness

-----------------------------------------------------------------------------
(* Properties.                                                             *)

AskRec == [pc : {"new", "wait", "done"}, first : IPOrNone, heard : SUBSET Sources,
           window : BOOLEAN]
RemoteRec == [pc : {"off", "enter", "wait", "leave", "told"}, of : Lookups \cup {0},
              ip : IPOrNone]
LookupRec == [pc : {"none", "start", "run", "found", "unlisted", "done"},
              udp : {"off", "run", "failed"}, tcp : {"off", "run", "failed"},
              waiters : 0 .. MaxAsks, cancelled : BOOLEAN, ip : IPOrNone]

\* The types of the resolver's state.
TypeOK ==
  /\ cache \in IPOrNone
  /\ ask \in [Asks -> AskRec]
  /\ remote \in [Asks -> RemoteRec]
  /\ lookup \in [Lookups -> LookupRec]
  /\ current \in Lookups \cup {0} /\ made \in 0 .. MaxAsks
  /\ active \in 0 .. MaxAsks
  /\ closed \in BOOLEAN /\ useTCP \in BOOLEAN

Running(k) == lookup[k].pc \in {"start", "run", "found"}
Waiting(k) == {a \in Asks : remote[a].pc = "wait" /\ remote[a].of = k}
Leaving(k) == {a \in Asks : remote[a].pc = "leave" /\ remote[a].of = k}

\* The waiters of the lookup in the map are those who wait for it or have not
\* yet left (resolveCoordinated, releaseResolutionWaiter): one too few and the
\* next who leaves cancels it for the others, one too many and it never ends.
\* activeResolutions counts the goroutines of runResolution that have not ended.
\* (With the types, as a counter that has left its range counts nothing.)
CountsExact ==
  /\ TypeOK
  /\ current # 0 => lookup[current].waiters = Cardinality(Waiting(current) \cup Leaving(current))
  /\ active = Cardinality({k \in Lookups : lookup[k].pc \notin {"none", "done"}})

\* Those who wait, wait for the one lookup that new calls would join; nobody who
\* gives up, and no older lookup that ends, takes it from them or cancels it.
\* Only Close does.
WantedRuns ==
  \A k \in Lookups : Running(k) /\ Waiting(k) # {} /\ ~closed
                       => current = k /\ ~lookup[k].cancelled

\* A lookup is shared by exactly those who wait for it, and runs as long as one does
\* (resolver.go:419).
SharedRight == CountsExact /\ WantedRuns

\* Every call of Resolve returns, whoever shares its lookup and whether or not the
\* resolver is closed meanwhile; and after Close every shared lookup ends and is
\* counted off (Resolve, runResolution, Close).
CallsEnd ==
  /\ \A a \in Asks : (ask[a].pc = "wait") ~> (ask[a].pc = "done")
  /\ closed ~> active = 0

=============================================================================

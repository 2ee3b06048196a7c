# DistrustCore in TLA+

DistrustCore is a client of two zero-trust VPN services: Sangfor aTrust and
Sangfor EasyConnect.  It logs in, keeps tunnels to the service's nodes, and
offers the network behind them as a TUN device, a user-mode network stack,
proxies, port forwards and a mobile library.  This directory holds TLA+ models
of the parts in which goroutines, failures and limits meet, TLC runs over small
instances of them, and TLAPS proofs that hold for every instance.

All paths below are relative to `src/`.

## 1. The system

### 1.1 Components

| Component | State it keeps | Operations | Talks to |
|---|---|---|---|
| conntrack table (`client/atrust/l3tunnelconntrack.go`) | `byKey`, `byID`, LRU list, per flow: answer channel and error, attempts, deadline, packets waiting, expiry, TCP state | `getOrCreate`, `observePacket`, `cachePacket`, `nextAuthBatch`, `markAuthSent`, `expireAuth`, `retryAuth`, `completeAuth`, `removeExpired`, `close` | called by every goroutine of a tunnel connection, and by callers that write packets |
| tunnel connection (`l3tunnelconn.go`, `l3tunnelpacket.go`) | transport, `closeCh`, heartbeat atomics, `dataCh` | `WritePacket`, `readLoop`, `authLoop`, `heartbeatLoop`, `Close` | the aTrust server; the table of its node group, which outlives it |
| layer-3 tunnel (`l3tunnel.go`, `l3conn.go`) | `conns` and `connecting` per node group, the tables, `dataChan`, `closeCh`, virtual IP | `writePacket`, `getConn`, `connectWithRetry`, `finishConnect`, `forwardFromConn`, `evictConn`, `evictStaleConns`, `startReconnect`, `Close`, `updateVIP` | stacks above (`Read`, `Write`), connections below, node selection |
| best-node selection (`client/atrust/node.go`, `internal/ping/`) | `BestNodes` | periodic probe, selection, eviction of stale connections | layer-3 tunnel, TCP tunnel |
| session (`client/atrust/session.go`, `auth/refresh.go`) | SID, validity | periodic refresh, invalidation | tunnels authenticate with the SID |
| login (`client/atrust/auth/`) | cookies, tokens of one login | a chain of HTTP requests with challenges | authentication challenges (`client/authchallenge/`) |
| aTrust client (`client/atrust/client.go` and neighbours) | resources, DNS data, virtual IP | setup, parsing, `Close` | everything above |
| TCP tunnel (`client/atrust/tcptunnel.go`) | one framed byte stream, partial frames | dial, handshake, `Read`, `Write`, `CloseWrite`, deadlines | TLS connection to a node |
| EasyConnect client (`client/easyconnect/`) | token, two streams, redial state | login, `l3conn` read and write with redial | EasyConnect server |
| resolver (`resolve/resolver.go`, `cache.go`) | lookups under way, cache, permanent records, TCP preference | `Resolve`, shared lookups with cancellation, fallback, `Close` | DNS servers through the stack, fake-IP pool |
| domain index (`resolve/domain_index.go`), IP resource index (`internal/ipresource/`) | read-only indexes | longest-suffix and range lookup | resolver, dialer |
| fake-IP pool (`internal/ippool/`) | two maps, next address | `GenerateIP`, `SetIPDomain`, `GetDomain`, `Clear` | resolver, dialer |
| dialer (`dial/`) | none | routing decision per destination, proxies | resolver, stacks, TCP tunnel |
| UDP forwarding (`service/udp_forwarding.go`) | table of connections, LRU list, byte budget, queues | listener, per-source goroutines, janitor, `Close` | a stack's `DialUDP` |
| other services (`service/`) | per connection only | SOCKS, HTTP, Shadowsocks, DNS, TCP forwarding, keep-alive | dialer, resolver |
| stacks (`stack/gvisor`, `stack/tun`, `stack/mobiletun`) | network stack, device, virtual IP | packet copy loops, dial, address update, `Close` | layer-3 tunnel |
| mobile session (`mobile/mobile_android.go`) | current session, its client, stack, proxy and resolver | login, start and stop of stack and proxies, `Stop` | all of the above, from threads of the host app |
| underlay (`underlay/`) | interface, capture queue | dialing outside the VPN, packet capture | all clients |
| terminal hooks (`internal/hook_func/`) | registered functions | registration, shutdown | every component with a `Close` |
| entry (`main.go`, `init.go`, `configs/`, `log/`) | configuration | wiring | |

### 1.2 How a packet travels

A stack calls `L3Conn.Write`, which calls `L3Tunnel.writePacket`: the packet's
node group is looked up, `getConn` returns the group's connection or waits for
the one attempt to make it, and `l3TunnelConn.WritePacket` finds or makes the
conntrack of the packet's flow.  An authorised flow's packet is written at once.
Otherwise the packet waits in the conntrack; the connection's `authLoop` offers
the flows that wait to the server in batches; `readLoop` receives the server's
answers, and on a grant writes the packets that waited.  Packets from the server
go `readLoop` -> `dataCh` -> `forwardFromConn` -> `dataChan` -> `L3Conn.Read`.
A connection that fails is evicted from `conns` and replaced by `connectWithRetry`;
the conntracks survive it.

### 1.3 What is hard here

* *Interleaving.*  Writers, two loops of each connection and possibly the loops
  of an older connection work on one table; two mutexes (`conntrackMgr.mu`,
  `conntrack.sendMu`) and one channel per conntrack keep order.  `conns` is
  changed by callers, the forwarder, the dialling goroutine, the node updater
  and `Close`.
* *State read before an unlock and used after it.*  `authResult` before
  `cachePacket`; the best node before a handshake of seconds; the victim of an
  eviction closed after the lock is released.
* *Failure in the middle.*  Requests of a batch that cannot be sent, a flush
  that fails after some of its packets, a forwarder with a packet in hand.
* *Late and repeated answers.*  Responses after a timeout, before the request is
  recorded as sent, or on a connection that was replaced.
* *Limits.*  Table size, packets waiting per flow, attempts, queues, byte budget.
* *Ending.*  Close must reach every goroutine, whatever it waits for.

`PROJECT.json` lists each such place with its line under `hazards`, and the
properties that would fail if it went wrong.

### 1.4 What makes each component correct

* conntrack table: its indexes are one table; it keeps to its limit; a conntrack
  is answered exactly once and always eventually leaves the table answered;
  packets wait in order until then.
* tunnel connection: packets leave in the order written, all of a flow's until
  its connection is replaced, from then on those of one conntrack; none is
  dropped without an error to its writer; none of a refused flow leaves; no flow
  that waits is forgotten; a silent server is noticed.
* layer-3 tunnel: one attempt at a time; no connection is leaked; a dead or stale
  connection is replaced; Close ends everything.
* UDP forwarding: table and list agree and keep to the limit; the byte budget is
  exact; closing leaves nothing behind and waits for nobody for ever.
* session: tunnels authenticate with the newest SID, the file that a restart
  reads holds it too, and nothing is written after Close.
* login: the gateway is sent only what it waits for, success means that every
  factor was passed, and the login ends whatever the gateway asks.
* EasyConnect client: session, token and address are of one line; each open raw
  connection is in a hand, and Close leaves one at the most; the host learns when
  the layer-3 connection ends.
* mobile session: no session is lost by concurrent starts and stops; what the
  packet loop and its handlers use is closed after them; what is stopped ends.
* resolver: a lookup is shared by exactly those who wait for it, runs as long as
  one does, and every call returns.
* fake-IP pool: an address in use stands for one host.
* capture: the file holds what passed, in order, and a full queue or Close
  blocks nobody for ever.
* indexes, node choice and routing: they equal their defining search.
* TCP tunnel: bytes are framed without loss over partial reads and writes, as long
  as no read is cut inside a frame; a dial that is cancelled leaves no connection,
  one that succeeds is not closed by its context.

## 2. The modules

One action stands for one critical section, one channel operation, one atomic
operation, or one call that blocks.  Definitions carry the names of the code;
`PROJECT.json` maps each to its lines.  An operator named `X_Something` beside
an operator `X` is a deliberately broken form of `X`, used to confirm that the
properties notice it; no specification uses it.

### 2.1 `Conntrack` - the table

`ct[i]` is the conntrack with authID `i` (the code never reuses an authID),
`byKey` and `byID` the two maps.  `ahead[i]` is the set of conntracks nearer to
the front of the LRU list: a list is represented by the order it keeps, which
lets a removal of many elements be one expression and makes "is a list"
something to check (`ListInOrder`) rather than a type.  `authCh` and `authErr`
together are `answer`: `"waiting"` is the open channel.  `now` is a clock of
small naturals; 0 is the zero `time.Time`.  Every method is one action.  In this
module any method may be called at any moment with any argument, more than the
program does, so its theorems do not depend on the callers.  The lifetime that
TCP flags give a flow is any member of `TTLs`.

### 2.2 `L3TunnelConn` - the goroutines around the table

Composes `Conntrack` with one writer per flow, and per connection an `authLoop`
and a `readLoop`.  A writer goes `WriteStart` (getOrCreate) -> `WriteObserve` ->
`WriteLock` (sendMu, authResult) -> `WriteCache` or `WriteSend`; an error of a
closed connection is retried once on another connection.  `Dispatch`, `SendAuth`,
`AuthSent`, `Expire` are `authLoop`; the response is handled in `RespRetry`,
`RespFinal`, `Complete`, `Flush`.  `SendAuthFail`, `WriteFail`, `FlushFail` are
writes that fail, which close the connection.  `Reconnect` makes the next
connection over the same table while goroutines of the old one may still run, and
also before the old one is closed: `evictConn` and `Close` release `connsMu` before they
close what they took.  `Target` finds the flow of a response; without a connection ID
`getByAuthResponseIP` goes by addresses and ports alone, so `Twins` names the flows
that differ only in their protocol.  `Incoming` is a packet from the server,
which moves its conntrack to the back of the list; such packets come only for flows of
which a packet was sent.  The server (external) answers a request at most once, at any time or
never, in any order.  `wire` records what left; `home` is a history variable
that remembers the conntrack a packet was cached or sent for.

### 2.3 `L3Tunnel` - connections, attempts and Close

One node group (groups share only `connsMu` and `closeCh`).  Callers run
`writePacket` with its retry; `dialer[d]` is a `connectWithRetry` goroutine
together with its `l3ConnectCall`; `fwd[c]` is the `forwardFromConn` goroutine of
connection `c`; `doomed` holds connections taken out of `conns` whose `Close` is
the next thing some goroutine does.  The updater probes, publishes the best node
and evicts stale connections in three steps, as the code does.  A write on a closed
connection may end without an error all the same: the packet of a flow that is not
answered yet goes into the table (`Write`).

### 2.4 `Heartbeat` - two atomics

`heartbeatLoop`, the writers and `readLoop` with each load, store and swap of
`heartbeatHasWrite` and `heartbeatMisses` as a step.

### 2.5 `UDPForward` - per-source UDP connections

The listener, `UDPConnection.close` (its `sync.Once` makes later callers wait
for the first: `shut`), `runConnection` with its two deferred functions,
`forwardResponses`, the janitor and `Close`.  Every datagram takes one unit of
the byte budget, as each takes one buffer of fixed size; `Held` names those that
hold one.  `lruElement` is
represented by the element itself: `TableOK` says that no stale one stays.

### 2.6 `Login` - one aTrust login

Sequential: an action is one HTTP exchange, or one question to the user, with what the
code makes of the answer.  What is hard is the conversation, so the gateway (external)
is modelled with it: it has factors due, names the next one in any of the shapes the
code and its tests know (`nextService`, a list of services, an identifier of its own),
may interpose a captcha or the same service again, and refuses what it does not wait
for.  `Shapes` lists these shapes and is an assumption about the gateway: one that
answers otherwise makes a login fail, which the code reports. The answer to a password
has no list of services, so it names nothing, `authCheck` or the factor that is due, but
not SMS, which needs the list's entry.  A secret counts as bound to a fresh or stale
`antiReplayRand`, a code as belonging to the newest message or an older one.

### 2.7 `ATrustClient` - session, refresh, file

Setup in the order of `client.go`, the refresh goroutine of `session.go`, `Close`,
and the process that can be killed and started again with the file it left, which
is torn when it dies inside `os.WriteFile`.  A SID is a number; the jar, the
client and the file each hold one, and what is to be shown is that they keep step.

### 2.8 `TCPTunnelConn` - a TCP connection over the tunnel

`DialTCP` with `context.AfterFunc` (`watch`), whose function can be running while
the dial succeeds; then reads of any size over frames of any size, writers that
send several frames under `writeMu`, half-close and close.  Bytes are counted.  A read
deadline or a close can end `io.ReadFull` inside a header or a payload (`ReadCut`): what
it took is gone, and the next Read takes any bytes for a header (`ReadAstray`).
`StreamIntact` speaks of reads before such a cut; section 3.2 reports the rest.

### 2.9 `EasyConnect` and `ECStream`

`EasyConnect` is Setup with its login steps, the choice of a line and the switch
to it, the token and the raw connection that holds the address, with the
keepalive loop, a TCP dial and Close beside it.  Token and address are each asked for
on a raw connection of their own; `RawHeld` says that every open one is in a hand: the
client's field, the request under way, or the dial.  A factor after the password is any
that the gateway names (`NextAuth`).  `findBestLine` numbers the targets that parse, and
takes the line of that number from the list with all entries (`FindBestLine`); lines are
assumed to have a colon.  `ECStream` is the layer-3
connection under the gVisor stack: the two loops, their reconnects with at most
five errors a side, the connection that is nil after a reconnect that failed,
`Stack.Close` in its steps, and `mobileFatal`, which tells the host.  Several goroutines
write; one redials under `sendLock`, releases it, and tells the host only afterwards
(`SendAgain`, `Report`), so another may use the missing connection first.  That is a panic:
it ends the process, or is recovered where `log.Go` or a Prepare runs the call.

### 2.10 `Resolver` and `IPPool`

`Resolver` is one host name: each call asks its sources at once, waits for a
preferred answer within a window, and shares a lookup at the remote server with
other calls; that lookup tries UDP, then TCP, and is cancelled when its last
waiter leaves.  `IPPool` is the pool of fake addresses, with the two ways in which
`Resolve` enters addresses into it and the `Clear` of the host application.
`given`, a history variable, remembers the fake addresses answered since the last
`Clear`.  `GenerateIP` panics when its range is used up, having changed nothing;
that is the absence of a step.

### 2.11 `MobileSession` - what the Android host drives

A call of the host (`Prepare`, `StartProxy`, `StartStack`, `StopStack`, `Stop`) is
a process, its steps the critical sections of `sessionMu`, `mu` and `proxyMu` and
its blocking operations.  The TUN stack's `Run`, one UDP flow of it and
`Stack.Close` with its `sync.Once` are part of it; the latter in steps: mark and cancel,
sweep the UDP sessions, close the file, look at `runStarted`, close lwIP
(`CloseSweep`, `CloseFile`, `CloseLooks` and their neighbours).  The host logs in once at a
time and gives one TUN at a time; everything else may overlap.

### 2.12 `Capture` - the packet capture

Both directions of one connection, the bounded queue, the goroutine that empties
it into a file, and Close.  The read-write mutex keeps its Go meaning: a waiting
Close keeps new readers out.

### 2.13 Abstract specification

`AuthOnce` says what the table promises to those who use it: a conntrack waits,
collecting packets at the end, then gets one answer, and with it its packets are
handed over or dropped, once.  `Conntrack` implements it (`AnswersOnce`), with
`answer` and `pending` of each conntrack mapped by projection, alone and under the
goroutines of `L3TunnelConn`.

## 3. The runs

| Run | Question | Bounds |
|---|---|---|
| `conntrack` | do the indexes, the list, the limit and the answers survive every mix of operations? | 3 flows (symmetric), 2 places; 3 conntracks at one time, 2 over 2 clock values and after the close |
| `conn_order` | order, loss and locks of one flow across a reconnect with every write able to fail, the old connection closed or not | 1 flow, 2 packets, 2 connections, 2 conntracks |
| `conn_care` | is a flow of a batch ever forgotten while the connection lives; is it answered once, within its attempts, as `AuthOnce` says? | 2 flows (symmetric, of one address pair), batch of 2, 2 attempts, 3 clock values |
| `conn_forgotten` | ... and when a connection is lost? (violated) | as `conn_care` |
| `conn_granted` | does a timeout ever take an authorised flow? (violated) | 1 flow, 3 attempts, 4 clock values |
| `tunnel` | one attempt, no leak; does Close end everything, is a stale connection replaced? | 2 nodes, 1 caller, 1 place in `dataChan` |
| `tunnel_dead` | is a failed connection always replaced? (violated) | 1 node, 1 caller, 1 connection |
| `heartbeat_silent` | is a silent server noticed? (violated) | limit 3, 3 responses under way |
| `udp_forward` | table, budget, leftovers and ending of UDP forwarding | 2 sources (symmetric), 3 connections, 1 place in table and queues, budget of 2 |
| `resolver` | is a shared lookup counted, kept and ended rightly, and does every call return? | 2 calls, 1 address, UDP and TCP, Close |
| `atrust` | login, session, TCP connection, heartbeat and capture, each by itself | 2 captchas, 4 steps, 2 of 9 factors due; 3 SIDs, 2 starts; frames of 2 bytes, buffers of 3, 2 writers; 3 chunks a direction, 1 place in the queue |
| `mobile` | mobile session, one `Resolve` with two sources, fake addresses, EasyConnect and its layer-3 connection, each by itself | 4 calls, 3 at once, 2 sessions, 1 TUN stack; 2 fake addresses for 3 hosts and 2 pinned ones; 2 lines, 2 Setups, 2 TwfIDs, 4 raw connections; 5 errors a side, 2 writers |

`MCATrust` and `MCMobile` hold several modules that share no variable.  `part`
chooses one of them in the initial state and only its steps are taken, so such a
run checks each module as a run of its own would, and one state is not
multiplied by the other; the others rest in one initial state.

Why these bounds show the interesting cases: two places and three flows make an eviction
meet an expiry and a re-creation under an old key; two packets of one flow are the least
that can be reordered or half flushed; two connections are the least with a late answer
from an old one; two attempts are the least with a retry.  Three UDP connections over
two sources let a source return while the goroutines of its evicted connection still
run.  A limit of three heartbeats and five reconnects are the code's own.  Two calls are
the least of which one can leave a lookup that the other joins, and the second can start
a new lookup while the cancelled one still ends.  Three SIDs let a refresh follow a
refresh; a second start reads what the first saved or tore.  A buffer of three over
frames of two reads inside, at and beyond a frame.  Four raw connections are two
requests of each of two Setups; two TwfIDs let one of a given session or a first login
be followed by another on the line that Setup moves to.  Two writers let one wait for the lock while the other
redials.  Two factors show that each is followed by the next, whatever the shapes of
both; four steps are enough for a repeated service and for a chain that is too long.
Three calls at a time let a `Stop`, a `StartStack` and a login overlap on two sessions.
Three hosts use up two fake addresses, one of which the gateway also gives to a host.
One place in the capture's queue blocks both directions.

Bounds on what is created (`MaxMade`, `MaxID`, `MaxCalls`, `MaxSID` and their
like) only cut behaviours off: what remains are behaviours of the program up to
that point.  Runs without deadlock detection are of systems that really stop:
after Close, after a login, when all calls have returned.

Each property has a mutant in `PROJECT.json`: a change of one definition, of the
kind a slip in the code would make, under which the property fails.

### 3.1 Fairness

`L3Tunnel!FairSpec`: goroutines that can run do (weak fairness of callers,
dialling goroutines, forwarders, the updater, Close), and the reader above the
tunnel goes on reading.  Strong fairness is used where a goroutine blocks in a
`select` on a closed channel among others, or would read from a connection that
is closed: a channel once closed stays ready, so Go's random choice takes it in
the end (`DialClosed`, `FwdEOF`, `FwdQuit`).  Failures, packets, probes that
change the best node, and Close itself are never forced to happen.
`Heartbeat!FairSpec`: the ticker ticks and the loop runs.
`Resolver!FairSpec`: every source answers or times out, as each has a time-out in
the code; nobody need call, cancel or close.  `Login`, `ATrustClient`,
`TCPTunnelConn`: every HTTP exchange and every handshake ends, by its time-out, and
goroutines are scheduled; that the user answers a question is an assumption.
`EasyConnect`: Setup and an answer that is due go on; the end of the keepalive loop
is a `select` between a closed channel and a ticker, so it is taken under strong
fairness.  `MobileSession`: a call that can go on does, so does `Run`, a dial ends,
a read of a closed descriptor fails, and a flow reaches its idle time-out.
`Capture`: the goroutines that can go on do; blocked senders are served in order by
a Go channel.  None of these fairness conditions makes a host call, a failure, a
packet, a kill or a Close happen.  In `UDPForward`
ending is stated without fairness: as long as something closed has not ended
some goroutine can go on (`NeverStalls`), and what goroutines then do by
themselves cannot go on for ever, for each step passes a program point it does
not return to without a datagram or a failure.  `CanGoOn` says in terms of the
state what each goroutine waits for, which makes `NeverStalls` an invariant that
can be proved; `GoesOn` checks that the actions wait for nothing more
(`CanGoOn => ENABLED Progress`).

### 3.2 Where code and text disagree

* `heartbeat_silent`: writing a heartbeat sets `heartbeatHasWrite`, which makes
  the next tick reset the misses, so the limit of three is never reached by
  silence (`l3tunnelconn.go:631`, `:336`, `:342`).  `TwoMisses` shows the counter
  does not exceed two at all.
* `tunnel_dead`: `forwardFromConn` returns on `closeCh` without evicting the
  connection or starting a reconnect (`l3tunnel.go:261`); a connection that fails
  while the forwarder has a packet in hand stays in `conns`.
* `conn_forgotten`: a request that cannot be sent ends the dispatch with the rest
  of its batch marked started (`l3tunnelconn.go:494`); the table lives on, and no
  later `authLoop` asks for these flows.
* `conn_granted`: `completeAuth` leaves `authDeadline` set and `expireAuth` does
  not look at the answer (`l3tunnelconntrack.go:373`); an authorised flow is
  charged timeouts and in the end removed as a pending authentication.

Five more observations have no run of their own, since no text of the repository
promises otherwise; they are in the models and the hazards only.

* On a second connection the packets of a flow may leave out of order.  A response
  that comes late on the lost connection finds, through `getByAuthResponseIP`, the
  flow's new conntrack and authorises it (`l3tunnelconn.go:549`); the writer then sends
  directly, while the `readLoop` of the new connection still sends what waited for the
  conntrack before.  It takes three packets and two requests for one flow, so no run
  within the bounds above meets it: the proof of `FlowOrder` did.  `FlowOrder` says what
  holds: the order within a conntrack, and of the whole flow until its connection is
  replaced.
* A busy answer handled before `markAuthSent` leaves a deadline on the rescheduled flow,
  whose expiry is charged as a timeout (`l3tunnelconn.go:498`).
* A client-data file torn by a kill makes every later Setup fail until it is removed
  (`main.go:184`).
* A Read of a TCP tunnel whose deadline expires inside a frame drops the bytes it has
  taken, and the next Read starts in the middle of the frame (`tcptunnel.go:317`, `:328`,
  `:337`); the stream is of no use from then on, which a caller that treats a time-out as
  temporary does not expect.
* `NewL3Conn` returns without closing its `sendConn` when `RecvConn` fails
  (`client/easyconnect/l3conn.go:89`).

Three go against a text, and the models reach them by the steps named here.

* `setRequestIPConn` does not look at `lifecycleCtx` (`client/easyconnect/request.go:723`).
  If the answer to `requestIP` comes before `Close` and the connection is stored after it,
  the connection stays open and nothing closes it, while `client.go:134` says that Close
  releases the client's resources.  In `EasyConnect`: `IPReply`, `CloseCancels`, `CloseConn`,
  `SetRequestIPConn`; that it is one connection at the most is `ClosedLeavesOne`.
* A redial that fails leaves a nil `*tls.UConn` in the interface `sendConn`, which is not
  equal to nil (`client/easyconnect/l3conn.go:53`); the next write, also one that already
  waits for `sendLock`, or a `Close` (`:66`) uses it and panics.  `stack/gvisor/mobile.go:6`
  says that errors are reported instead of panicking.  In `ECStream`: `SendAgain`, then
  `Write` of another sender or `CloseSend`.
* `Stack.Close` closes the connections it finds (`stack/gvisor/stack.go:268`); one that
  `NewL3Conn` or a redial is making meanwhile stays open, and `Run` reads from it, while the
  comment at `:264` says that Close stops the stack.  In `ECStream`: `ReadFails`, `StackClose`,
  `CloseSend`, `CloseRecv`, `RecvAgain`.

## 4. What is proved

Every theorem holds for every value of the constants under the assumption of the
component's module (`ConntrackAssumption`, `L3TunnelConnAssumption`,
`L3TunnelAssumption`, `HeartbeatAssumption`, `TCPTunnelAssumption`,
`LoginAssumption`, `ClientAssumption`, `CaptureAssumption`, `UDPForwardAssumption`,
`ResolverAssumption`, `SessionAssumption`, `IPPoolAssumption`,
`EasyConnectAssumption`, `ECStreamAssumption`).  These give the constants their types,
keep limits positive, and keep names apart that mean different things: a writer of a
TCP connection is not `"nobody"` or `"close"`, a factor is not the empty service or
`"sendSms"`, and the lines of an EasyConnect gateway are finitely many.
`ATrustCorrect` and `MobileCorrect`, about the compositions of `MCATrust` and
`MCMobile`, use the assumptions of all their parts.  What the constants of those two
modules are on a run plays no part in the proofs.

### 4.1 The conntrack table

`ConntrackProofs`, for every number of flows, conntracks and packets, every limit,
lifetime and timing:

| Theorem | States | Checked by |
|---|---|---|
| `TypeCorrect` | `TypeOK` always | `conntrack` |
| `IndexesCorrect` | `IndexesAgree` always: `byKey`, `byID` and the authIDs given out name the same conntracks | `conntrack` |
| `AnswersCorrect` | `AnswerConsistent` always: outside the table answered, inside waiting or authorised, answered ones hold nothing | `conntrack` |
| `BudgetCorrect` | `TimeoutBudget` always | `conn_care` |
| `AnswersFinal` | `AnswerIsFinal`: no step changes an answer | `conntrack` |
| `Implements` | the table implements `AuthOnce` (`AnswersOnce`) | `conn_care` |
| `LRUListCorrect` | `LRUListOK` always: the list is in order (`ListInOrder`, by `ListCorrect`) and the table within its limit (`Capacity`, by `CapacityCorrect`) | `conntrack` |

The argument.  `TypeOK /\ IndexesAgree` is inductive.  `TypeStep` and
`IndexesStep` have one step per operation; all operations that unlink conntracks
share `UnlinkAgrees`.  `IndexesAgree` is needed because a key is cleared only
when the index still leads to the conntrack being removed: without it an operation
could leave a key behind and a later `getOrCreate` would return a conntrack that
is no longer indexed.  On top of the two, lemma `Fates` says what a step can do
to a conntrack that exists: it keeps its answer and place and may gain a packet
while it waits, or leaves the table answered, or is authorised, or one of its
attempts lapses; and `Birth` says how one comes into being.  Everything about
answers, attempts and packets follows from `Fates` without looking at the
operations again.  `PromiseStep` turns `Fates` and `AnswerConsistent` into the
refinement: a conntrack that was answered holds nothing, so settling it once more
changes nothing an observer sees.

For the list, `Ordered` states that an order is a strict total order of a set;
`OrderedWithout` and `OrderedToBack` show that removals and moves preserve it.
`Capacity` is not inductive by itself: making room means evicting the front, and
that a list that is not empty has a front is `FrontExists`, by well-foundedness
of strict inclusion on finite sets.

### 4.2 The goroutines around the table

`L3TunnelConnProofs`, for every number of flows, packets, conntracks and
connections, every choice of the limits, and every interleaving:

| Theorem | States | Checked by |
|---|---|---|
| `CallersObey` | `Spec => MgrSpec`: the goroutines call the table only as `Conntrack` allows | - |
| `PromiseKept` | the table in use implements `AuthOnce` (`AnswersOnce`) | `conn_care` |
| `BudgetKept` | `TimeoutBudget` always | `conn_care` |
| `ConnTypeCorrect` | `ConnTypeOK` always, with it `OneHolder`: sendMu excludes and is released on every path | `conn_order` |
| `FlowOrderCorrect` | `FlowOrder` always | `conn_order` |
| `NoDropCorrect` | `NoSilentDrop` always | `conn_order` |
| `AnswerObeyedCorrect` | `AnswerObeyed` always | `conn_order` |
| `CaredForCorrect` | `CaredFor` always | `conn_care` |

The argument.  `Conntrack` allows any call at any time with any argument that
exists; `CallersObey` is what lets its theorems be used here, and it needs an
invariant of the callers: that whatever conntrack a goroutine has in its hands was
given out (`Hands`).  The invariant `ConnInv` has these parts:

* `MgrInv`: the table, from the theorems above;
* `Shape`: the types, and that a connection not made yet is not open;
* `Hands`: a writer has the last conntrack of its flow, which is the one the key
  leads to if it leads anywhere, and knows whether it is authorised; what a
  `readLoop` has to send waited for a grant;
* `Locks`: who is in a critical section of `sendMu`; `OneHolder` follows by counting;
* `Homes`: where each packet is.  A packet's home is a conntrack of its flow, homes
  of later packets are not older, a packet whose home waits is in it, one whose home
  was granted is sent, or in a `readLoop`'s hands, or a connection was lost; what a
  `readLoop` still has to send is in order and later than what it has sent;
  until the connection is replaced the conntrack being sent is the last one granted
  (`LastGrant`);
* `Care`: what was marked as asked for and has no deadline is a job of an `authLoop`.

`AnyStep` sorts the steps by what they do to the table: begin a write, dispatch a
batch, cache a packet, authorise a flow, or none of these (`StepKinds`).  Lemmas per
kind say what such a call does to a conntrack (`QuietStays`, `CacheEffect`,
`GrantEffect`, `MarkedBefore`) and what the step does to its goroutine
(`WriterMoves`, `AuthMoves`, `ReaderMoves` and others); each part of `ConnInv` is
then preserved from those facts.  `NoSilentDrop` shows what the lock is for: a
conntrack is authorised only when nobody holds its `sendMu` (`Preserved`), so a
writer that read "waiting" under the lock does not find a grant later.  `Hands`
needs `Locks` for that reason, and `Homes` needs both.  `BatchInOrder` shows that
the sequence offered to the server contains every conntrack of the batch, by
counting the places in the list.

`LastGrant` is where the statement of `FlowOrder` comes from: once there is a second
connection it fails, as section 3.2 tells.

### 4.3 Connections and heartbeat

`L3TunnelProofs`, for every number of callers, nodes, connections and dialling
goroutines, and the first section of `ATrustProofs`, for every limit and every number
of responses:

| Theorem | States | Checked by |
|---|---|---|
| `SingleFlightCorrect` | `SingleFlight` always | `tunnel` |
| `NoLeakCorrect` | `NoLeak` always | `tunnel` |
| `TunnelTypeCorrect` | `TypeOK` always, with it the capacity of `dataChan` | `tunnel` |
| `TwoMissesAtMost` | `TwoMisses` always | `atrust` |
| `LimitNeverReached` | with a limit above two (the code's is three) the loop never closes the connection for its misses | - |

`SingleFlight` and `NoLeak` are proved together (`IInv`).  Neither is inductive:
that no connection competes with the one in use needs every dialling goroutine to
be the registered one, and that none leaks needs a goroutine to hold no
connection before its attempt ends (`NoneYet`), because `DialSucceeds` would
overwrite it.  The step lemmas take actions by what they change: a caller moves,
a connection is evicted, an attempt begins, moves on, succeeds, finishes.
`FinishConnect` is where the parts meet: what it took from `connecting` is
installed or handed to be closed, and nobody is left waiting.

`TypeOK` needs `Given` besides: a caller that writes, evicts or tries again holds a
connection.  The model writes `nil` as 0, which is also what `conns` holds when no
connection is in use, so without it `evictConn` could hand 0 to be closed.  The
code cannot either: `writePacket` calls `evictConn` with what `getConn` returned,
and keeps that connection for the second try.

For the heartbeat, `Bounded` says where the loop stands when the misses are not
gone: a tick finds either none, or a write that resets them, or a response half
handled.  It explains the disagreement `heartbeat_silent` of section 3.2: that
run's counterexample is no accident of small bounds.

### 4.4 UDP forwarding

`UDPForwardProofs`, for every number of sources, connections and datagrams and
every limit:

| Theorem | States | Checked by |
|---|---|---|
| `TableCorrect` | `TableOK` always: table and list name the same connections, once each, within the limit | `udp_forward` |
| `BudgetCorrect` | `BudgetExact` always | `udp_forward` |
| `NothingLeftCorrect` | `NothingLeft` always | `udp_forward` |
| `NeverStallsCorrect` | `NeverStalls` always: what was closed comes to its end or somebody can go on | `udp_forward` |

`ForwardInv` adds what the listener has in its hands (`ListenerOK`), that
connections not made yet have no trace (`Made`), and how far an ending connection
is (`Ends`).  The last carries `NothingLeft`: `close` takes the connection out of the
table before its goroutine may end, and `enqueue` and `setUDP` look at `closed` under
the lock, so nothing is added after the drain.  That the budget is exact is a
statement about the size of a set of buffers (`Held`); `OneMore`, `OneLess` and
`OneMoved` say how it changes with one connection.  `RoomMade` shows that a full list
has a front to evict, and `RemoveAtEffect` that a list without one of its elements
keeps the others, once each.

`NeverStalls` needs `Waits` besides: who is about to be closed was made; a loop that
waits for its reader has one (`Reads`), and a reader has the socket it reads from,
which `close` closes; the listener waits only for a victim that it or somebody before
it closes.  `ConnGoesOn` then goes through the program points of a connection that is
closed, or whose forwarder is, and finds each time who can go on; `DoomedGoesOn` does so
for one that somebody has yet to close, and `Close` and the listener wait only for
those.  A circle, of a close that waits for a reader and a reader that waits for the
socket to be closed, is what `Reads` excludes.

### 4.5 Shared lookups

`ResolverProofs`, for every number of calls and lookups and every set of addresses
and sources:

| Theorem | States | Checked by |
|---|---|---|
| `SharedRightCorrect` | `SharedRight` always: waiters are counted exactly, and nobody's lookup is cancelled or forgotten while they wait | `resolver` |

`ResolverInv` adds that there is room for one lookup per call (`Room`: a lookup is
only made by a call that has not asked yet), that waiting calls wait for a lookup that
was made (`OfMade`), and that the one in the map of resolutions runs and is not
cancelled (`CurrentRuns`).  The last is what `release` and the end of an older lookup
could break: both look at whether the map still leads to the lookup they mean.

### 4.6 Sessions of the Android host

`SessionProofs`, for every number of calls, sessions and TUN stacks:

| Theorem | States | Checked by |
|---|---|---|
| `SessionTypeCorrect` | `SessionTypeOK` always | `mobile`, in `MobileTypeOK` |
| `NoOrphanCorrect` | `NoOrphan` always | `mobile` |
| `DataPlaneSafeCorrect` | `DataPlaneSafe` always | `mobile` |

`SessionInv` says for each program point of a call what it has (`Stands`), that the host
logs in once at a time (`OneAtATime`, which `NoOrphan` needs: the hazard at
`mobile_android.go:1004` is what two logins would do), that a session is closed by one
call (`ClosedByOne`), how a stack stands to the calls that close it (`StackStands`,
`StackOf`), and that a stack of a closed session is stopped or somebody will close it
(`CaredForStack`).  `DataPlaneSafe` follows from the last two: the call that takes a
session down marks it closed, then quiets its stack, closes it step by step and drains
it, and a `StartStack` that comes between finds the mark.

### 4.7 Fake addresses

`MobileProofs`, section on the pool, for every range, every set of hosts and every
address the gateway may give, whether inside the range or not:

| Theorem | States | Checked by |
|---|---|---|
| `FakeNamesHold` | `FakeNames` always: a fake address stands for the host it was answered for until the pool is cleared | `mobile` |
| `PoolTypeCorrect` | `PoolTypeOK` always | `mobile` |

`FakeNames` speaks of what was answered, and is not inductive: the next address
could be one in use.  `Allocated` adds that the addresses of hosts that are not
pinned lie behind the counter, and `OfUnpinned` that only such hosts were answered
with one.  An address that the gateway itself gives to a host is excepted: the code
takes whichever entry came last.

### 4.8 The aTrust client

`ATrustProofs`, in one section per part:

| Theorem | States | Checked by |
|---|---|---|
| `DialOutcomeCorrect` | `DialOutcome` always: a dial that returns a connection returns one that its context has not closed and will not; a failed one leaves none open | `atrust` |
| `StreamIntactCorrect` | `StreamIntact` always: nothing is lost or read twice until a Read is cut inside a frame, the frames of a Write stay together, one close frame | `atrust` |
| `FactorsAnsweredCorrect` | `FactorsAnswered` always: nothing is sent that the gateway does not wait for; success means every factor was passed | `atrust` |
| `SIDInStepCorrect` | `SIDInStep` always | `atrust` |
| `NoSaveAfterCloseCorrect` | `NoSaveAfterClose`: no step changes the file after Close | `atrust` |
| `CaptureIntactCorrect` | `CaptureIntact` always | `atrust` |
| `ATrustTypesCorrect`, `ATrustCorrect` | the types of all parts, and all their safety invariants, for the composition `ATrustSpec` | `atrust` |

*TCP connection*, for every size of frame and buffer, number of frames and set of
writers.  `Dialled` says at each point of `DialTCP` where the function given to
`context.AfterFunc` can be and what it has done: `StopWatch` must have waited for it, or
have kept it from running, before the connection is handed out.  `Received` is what
makes a read right: what was sent and not read lies in the buffer and in the frames on
the wire, whose sum (`Total`) is a function defined by recursion.  That the sum is what
it should be, and what adding or taking a frame does to it, is proved by looking at a
least counterexample (`LeastNumber`, from the library's `WFMin`) instead of an induction
theorem.  `Sent` says who holds `writeMu` while frames of a Write are due.

*Login*, for every set of factors and every number of captchas and steps.
`Expected` is the heart: the step the client follows is the one the gateway waits for.
It rests on `ShapesUnderstood`: whichever shape the gateway gives its next request,
one service or a list, with an identifier or without, `Understood` finds in it the same
service and identifier.  `Secrets` says that what is sent next is fresh, and `Outcome`
that a login ends well only with nothing due.

*Session*, for every number of refreshes and starts.  `Apart` keeps Setup, refresh and
Close out of each other's way: the refresh goroutine lives only beside a finished Setup
and Close waits for it.  `InStep` relates jar, client and file at each step; a file torn
by a kill makes Setup fail before anything uses it.

*Capture*, for every number of chunks and every size of the queue.  What was written
and what is queued form one sequence (`Kept`), whose events of one direction are the
first ones that passed; `InHand` says that nobody sends without a payload and that the
channel is closed only by who took the write lock.

*Composition.*  A step of `ATrustSpec` is a step of one part and none of the others
(`ATrustStep`), so the conjunction of the invariants (`ATrustInv`) is inductive.

### 4.9 EasyConnect and what runs on a phone

`MobileProofs`, in one section per part, with `SessionProofs` beside it:

| Theorem | States | Checked by |
|---|---|---|
| `HostToldCorrect` | `HostTold` always, for every number of reconnects and every set of writers: the host was told of an end, or somebody is about to tell it | `mobile` |
| `ECInStepCorrect` | `ECInStep` always (`OneLine`, `RawHeld`, `ClosedLeavesOne`), for every set of lines, every latency and every number of calls, TwfIDs and raw connections | `mobile` |
| `MobileTypesCorrect`, `MobileCorrect` | the types of all parts, and `NoOrphan`, `DataPlaneSafe`, `FakeNames`, `ECInStep`, `HostTold` for the composition `MobileSpec` | `mobile` |

For the layer-3 connection, `StreamInv` adds to `HostTold` the types, with that only one
writer redials, that a reconnect is under way only while one is left (`Reconnects`), and
that the netstack has the connection only after `NewL3Conn` (`Handed`).  A redial that
fails leaves its writer about to report, and whoever reports tells the host; no step makes
a telling undone.

For the EasyConnect client, `Stage` says what the client has at each step of Setup and
after one that succeeded; `OfLine` that the TwfID and the connection being made are of
the line in use, which a switch of line could break; `OneHand` that each raw connection
is either the one being made, the one that holds the address or the dial's, so closing
one does not close another, and that after Close not both of the first two are there,
which is `ClosedLeavesOne`.  A switch needs the line that `findBestLine` returns to be
one of the list: the search is a recursive function over the lines in their order, and
`BestAfter` shows by a least counterexample that after any number of lines the best so
far is a line, or none of them has answered yet.


The resolver is a part of `MobileSpec` that shares nothing with the others and has its
theorem in section 4.5.

### 4.10 What stays with TLC

Liveness under fairness (`CloseEnds`, `StaleGoes`, `CallsEnd`, `StoppedEnds`) and
`GoesOn`, which uses `ENABLED`, are beyond the proof system.  So are the four runs that
end in a violation.  Every other property of a run is stated by a theorem. Induction
theorems of the library take an operator as a parameter, which the installed provers
cannot instantiate; where a proof needs to know what a recursive function computes
(`Total`, `findBestLine`) it takes the least counterexample instead.

## 5. What is not modelled

* Wire formats, TLS, encryption, the payloads of authentication requests; parsing
  of resources and configuration; flags and wiring; terminal dialogue.  These are
  conversions without shared state.
* Third-party servers (SOCKS, HTTP, Shadowsocks, DNS) and the network stack of
  gVisor: libraries.  The services around them keep no state between connections.
* The TUN stacks of the desktop systems (`stack/tun`): packets are rewritten one at
  a time between a device and the tunnel, and the rest is calls of the platform.
* The domain index, the IP resource index, the dialer's routing decision and the
  choice of the best node from its probes: pure functions of what they are given.
  `L3Tunnel` takes any node as the best one.
* Assumptions about what is outside: a gateway's answers have the shapes of `Login!Shapes`;
  the lines of an EasyConnect gateway have a colon (`findBestLine` takes what is behind it
  without asking, `line.go:24`); packets from the server come for flows of which one was
  sent.
* A close of a session that a recovered panic of `L3Conn.Close` cuts off: it is in `ECStream`
  (`closeAt = "cut"`), not in `MobileSession`, where closing a session's gVisor stack is a
  call that returns.
* The virtual address and its update (`updateVIP`, the stacks' `updateIP`), the
  expiry of cached DNS answers, the TCP state machine that picks a flow's lifetime
  (`Conntrack` takes any), TCP flows of the mobile stack, terminal hooks.

Hazards of the list in `PROJECT.json` that no property covers say why in their
note.

## 6. Plan

| # | Modules | Subject | State | Next |
|---|---|---|---|---|
| 1 | `Conntrack`, `AuthOnce`, `ConntrackProofs` | conntrack table | all safety properties and the refinement proved | |
| 2 | `L3TunnelConn`, `L3TunnelConnProofs` | goroutines of a connection | all safety properties proved | |
| 3 | `L3Tunnel`, `L3TunnelProofs` | connections and Close | all safety properties proved | |
| 4 | `Heartbeat`, `ATrustProofs` | heartbeat | `TwoMisses` proved | |
| 5 | `UDPForward`, `UDPForwardProofs` | UDP forwarding | all invariants proved but `GoesOn` (`ENABLED`) | |
| 6 | `MobileSession`, `SessionProofs` | sessions of the Android host | all safety invariants proved | |
| 7 | `Resolver`, `ResolverProofs` | shared lookups | `SharedRight` proved | |
| 8 | `IPPool`, `MobileProofs` | fake addresses | proved | |
| 9 | `ATrustClient`, `ATrustProofs` | session, refresh, restart | all safety properties proved | |
| 10 | `TCPTunnelConn`, `ATrustProofs` | TCP tunnel | all safety invariants proved | |
| 11 | `EasyConnect`, `ECStream`, `MobileProofs` | EasyConnect | all safety invariants proved | |
| 12 | `Login`, `ATrustProofs` | aTrust login | `FactorsAnswered` proved | |
| 13 | `Capture`, `ATrustProofs` | packet capture | `CaptureIntact` proved | |
| 14 | - | virtual address, lifetime from TCP flags, node choice and the indexes against their defining search | not begun | model them, then prove the searches |

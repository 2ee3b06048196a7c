------------------------------- MODULE IPPool -------------------------------
(***************************************************************************)
(* The fake addresses (internal/ippool/ippool.go) as the resolver hands    *)
(* them out: a host the VPN serves is answered with an address of a range  *)
(* of its own, and a stack that meets that address in a packet asks which  *)
(* host it stands for.  Hosts the gateway gives addresses for are entered  *)
(* with those.  Each method of the pool is one critical section of mu.     *)
(***************************************************************************)
EXTENDS Integers

CONSTANTS
  Hosts,        \* names of the domain resources
  PinnedHosts,  \* those dnsResource has addresses for
  PinnedIPs,    \* the addresses it has
  MinIP, MaxIP, \* the range of NewIPPool
  Nil           \* no entry

ASSUME IPPoolAssumption ==
  /\ PinnedHosts \subseteq Hosts
  /\ PinnedIPs \subseteq Nat
  /\ MinIP \in Nat /\ MaxIP \in Nat /\ MinIP + 2 <= MaxIP
  /\ Nil \notin Hosts /\ Nil \notin Nat

VARIABLES
  domainToIP,  \* domainToIP[h]: the address of a host
  ipToDomain,  \* ipToDomain[ip]: the host of an address
  currentIP,   \* the next fake address
  given        \* the fake addresses answered since the last Clear, as <<host, ip>>

poolVars == <<domainToIP, ipToDomain, currentIP, given>>

Addresses == PinnedIPs \cup (MinIP .. MaxIP)

PoolInit ==
  /\ domainToIP = [h \in Hosts |-> Nil]
  /\ ipToDomain = [ip \in Addresses |-> Nil]
  /\ currentIP = MinIP + 2
  /\ given = {}

-----------------------------------------------------------------------------
\* Resolve of a host with addresses from the gateway (SetIPDomain).
SetIPDomain(h, ip) ==
  /\ h \in PinnedHosts /\ ip \in PinnedIPs
  /\ domainToIP' = [domainToIP EXCEPT ![h] = ip]
  /\ ipToDomain' = [ipToDomain EXCEPT ![ip] = h]
  /\ UNCHANGED <<currentIP, given>>

\* Resolve of another host: its address again (GenerateIP, first part),
GenerateAgain(h) ==
  /\ h \in Hosts \ PinnedHosts
  /\ domainToIP[h] # Nil
  /\ given' = given \cup {<<h, domainToIP[h]>>}
  /\ UNCHANGED <<domainToIP, ipToDomain, currentIP>>

GenerateNew_NotAdvanced(h) ==
  /\ h \in Hosts \ PinnedHosts
  /\ domainToIP[h] = Nil
  /\ currentIP <= MaxIP
  /\ domainToIP' = [domainToIP EXCEPT ![h] = currentIP]
  /\ ipToDomain' = [ipToDomain EXCEPT ![currentIP] = h]
  /\ given' = given \cup {<<h, currentIP>>}
  /\ UNCHANGED currentIP
\* or the next one of the range.  When the range is used up GenerateIP panics and
\* has changed nothing.
GenerateNew(h) ==
  /\ h \in Hosts \ PinnedHosts
  /\ domainToIP[h] = Nil
  /\ currentIP <= MaxIP
  /\ domainToIP' = [domainToIP EXCEPT ![h] = currentIP]
  /\ ipToDomain' = [ipToDomain EXCEPT ![currentIP] = h]
  /\ currentIP' = currentIP + 1
  /\ given' = given \cup {<<h, currentIP>>}

\* ClearFakeDNS of the host application (Clear).
Clear ==
  /\ domainToIP' = [h \in Hosts |-> Nil]
  /\ ipToDomain' = [ip \in Addresses |-> Nil]
  /\ currentIP' = MinIP + 2
  /\ given' = {}

PoolNext ==
  \/ \E h \in Hosts, ip \in PinnedIPs : SetIPDomain(h, ip)
  \/ \E h \in Hosts : GenerateAgain(h) \/ GenerateNew(h)
  \/ Clear

PoolSpec == PoolInit /\ [][PoolNext]_poolVars

-----------------------------------------------------------------------------
\* The two maps, and a counter that stays inside the range (ippool.go:16).
PoolTypeOK ==
  /\ domainToIP \in [Hosts -> Addresses \cup {Nil}]
  /\ ipToDomain \in [Addresses -> Hosts \cup {Nil}]
  /\ currentIP \in MinIP + 2 .. MaxIP + 1
  /\ given \subseteq Hosts \X Addresses

\* A fake address that was answered for a host still stands for that host, however
\* many hosts were answered or entered since, until the pool is cleared; an address
\* the gateway also gave to a host is the exception (ippool.go:66, GetDomain).
FakeNames ==
  \A h \in Hosts, ip \in Addresses : <<h, ip>> \in given =>
    domainToIP[h] = ip /\ (ip \notin PinnedIPs => ipToDomain[ip] = h)

\* Why: the addresses of hosts that are not pinned lie behind currentIP, and no two
\* of them are the same.
Allocated ==
  \A h \in Hosts \ PinnedHosts : domainToIP[h] # Nil =>
    /\ domainToIP[h] < currentIP
    /\ domainToIP[h] \notin PinnedIPs => ipToDomain[domainToIP[h]] = h

\* Only hosts that are not pinned are answered with a fake address.
OfUnpinned == \A h \in Hosts, ip \in Addresses : <<h, ip>> \in given =>
                h \notin PinnedHosts /\ domainToIP[h] = ip

=============================================================================

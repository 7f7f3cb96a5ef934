-------------------------- MODULE AdmissionControl --------------------------
(***************************************************************************)
(* Admission of WebSocket upgrades by the server                           *)
(* (internal/engine/security.go, called from handleWebSocket in            *)
(* internal/engine/http.go).                                               *)
(*                                                                         *)
(* Every HTTP request runs in a goroutine of its own, a Handler here.      *)
(* admitWebSocket reads the clock, takes wsSecurity.mu and, in one         *)
(* critical section, prunes old rate windows, counts the attempt, checks   *)
(* the three limits and grants a lease.  The lease is returned by the      *)
(* release closure that handleWebSocket defers.  The clock is read BEFORE  *)
(* the mutex is taken, so the time a handler uses may be older than the    *)
(* time another handler has already used.                                  *)
(*                                                                         *)
(* A limit of 0 means "no limit", as in the configuration.                 *)
(***************************************************************************)
EXTENDS Integers, FiniteSets, Functions

CONSTANTS
    Handlers,              \* goroutines that may serve a request at one time
    IPs,                   \* client addresses, as clientIP(r) computes them
    RateLimitPerMinute,
    MaxConnections,
    MaxConnectionsPerIP,
    Minute,                \* ticks in the rate window
    NoPeer,                \* no request is being served
    NoTime,                \* the zero time.Time of lastRatePrune
    MaxSkew,               \* ticks that may pass between time.Now and the lock
    MaxTime,               \* bound: the last tick explored
    MaxCount               \* bound: attempts counted in one live window

ASSUME HandlersAssumption == IsFiniteSet(Handlers) /\ NoPeer \notin IPs
ASSUME LimitsAssumption ==
    /\ RateLimitPerMinute \in Nat
    /\ MaxConnections \in Nat
    /\ MaxConnectionsPerIP \in Nat
ASSUME ClockAssumption ==
    /\ Minute \in Nat \ {0}
    /\ MaxSkew \in 0 .. Minute - 1
    /\ MaxTime \in Nat
    /\ MaxCount \in Nat
    /\ NoTime \notin Int

VARIABLES
    clock,                 \* the wall clock
    pc,                    \* where a handler is in handleWebSocket
    peer,                  \* the client address of the handler's request
    sampled,               \* the handler's local variable now
    active,                \* wsSecurity.active
    activeByIP,            \* wsSecurity.activeByIP, a map
    rateByIP,              \* wsSecurity.rateByIP, a map of windows
    lastRatePrune,         \* wsSecurity.lastRatePrune
    passed                 \* history: attempts let through the rate check, by age in ticks

securityVars == <<active, activeByIP, rateByIP, lastRatePrune, passed>>
vars == <<clock, pc, peer, sampled, securityVars>>

RateWindowTTL == 2 * Minute
Times == 0 .. MaxTime
Ages == 0 .. 2 * Minute
Window == [start : Times, count : Nat \ {0}]

\* A read of a Go map of counters: a missing key reads as 0.
Lookup(m, i) == IF i \in DOMAIN m THEN m[i] ELSE 0

Without(m, i) == Restrict(m, DOMAIN m \ {i})
With(m, i, v) == [k \in DOMAIN m \cup {i} |-> IF k = i THEN v ELSE m[k]]

TypeOK ==
    /\ clock \in Times
    /\ pc \in [Handlers -> {"idle", "arrived", "admitted"}]
    /\ peer \in [Handlers -> IPs \cup {NoPeer}]
    /\ sampled \in [Handlers -> Times]
    /\ active \in Nat
    /\ DOMAIN activeByIP \subseteq IPs
    /\ \A i \in DOMAIN activeByIP : activeByIP[i] \in Nat \ {0}
    /\ DOMAIN rateByIP \subseteq IPs
    /\ \A i \in DOMAIN rateByIP : rateByIP[i] \in Window
    /\ lastRatePrune \in Times \cup {NoTime}
    /\ passed \in [IPs -> [Ages -> Nat]]

Init ==
    /\ clock = 0
    /\ pc = [h \in Handlers |-> "idle"]
    /\ peer = [h \in Handlers |-> NoPeer]
    /\ sampled = [h \in Handlers |-> 0]
    /\ active = 0
    /\ activeByIP = << >>
    /\ rateByIP = << >>
    /\ lastRatePrune = NoTime
    /\ passed = [i \in IPs |-> [a \in Ages |-> 0]]

-----------------------------------------------------------------------------
(* The critical section of admitWebSocket, on the time the handler sampled. *)

Live(i, now) == i \in DOMAIN rateByIP /\ now - rateByIP[i].start < Minute

\* pruneWebSocketRateWindowsLocked: at most once a minute, drop the windows
\* that started two minutes ago or earlier.
PruneDue(now) == lastRatePrune # NoTime /\ now - lastRatePrune >= Minute
Pruned(now) ==
    IF PruneDue(now)
    THEN Restrict(rateByIP, {i \in DOMAIN rateByIP : now - rateByIP[i].start < RateWindowTTL})
    ELSE rateByIP
PruneStamp(now) == IF lastRatePrune = NoTime \/ PruneDue(now) THEN now ELSE lastRatePrune

\* The window of address i after this attempt has been counted in it.
Counted(i, now) ==
    IF Live(i, now)
    THEN [rateByIP[i] EXCEPT !.count = @ + 1]
    ELSE [start |-> now, count |-> 1]

\* Mutants: the limits off by one, and the wrong counter compared.
MutantRateTooLate(i, now) == RateLimitPerMinute > 0 /\ Counted(i, now).count > RateLimitPerMinute + 1
MutantPeerOverfull(i) == MaxConnectionsPerIP > 0 /\ Lookup(activeByIP, i) > MaxConnectionsPerIP
MutantPeerSeesAll(i) == MaxConnectionsPerIP > 0 /\ active >= MaxConnectionsPerIP

RateExceeded(i, now) == RateLimitPerMinute > 0 /\ Counted(i, now).count > RateLimitPerMinute
PoolFull == MaxConnections > 0 /\ active >= MaxConnections
PeerFull(i) == MaxConnectionsPerIP > 0 /\ Lookup(activeByIP, i) >= MaxConnectionsPerIP

\* Every attempt is counted, the rejected ones too.
CountAttempt(i, now) ==
    /\ IF RateLimitPerMinute > 0
       THEN /\ rateByIP' = With(Pruned(now), i, Counted(i, now))
            /\ lastRatePrune' = PruneStamp(now)
       ELSE UNCHANGED <<rateByIP, lastRatePrune>>
    /\ passed' = IF RateExceeded(i, now) THEN passed
                 ELSE [passed EXCEPT ![i][0] = @ + 1]

Refused(i, now) == RateExceeded(i, now) \/ PoolFull \/ PeerFull(i)

-----------------------------------------------------------------------------
(* The steps of a handler. *)

\* handleWebSocket returns; its local variables are gone.
Return(h) ==
    /\ pc' = [pc EXCEPT ![h] = "idle"]
    /\ peer' = [peer EXCEPT ![h] = NoPeer]
    /\ sampled' = [sampled EXCEPT ![h] = 0]

\* A request arrives and admitWebSocket reads the clock.  The guard on the
\* count is the bound MaxCount on the attempts made in one window.
Arrive(h, i) ==
    /\ pc[h] = "idle"
    /\ Live(i, clock) => rateByIP[i].count < MaxCount
    /\ pc' = [pc EXCEPT ![h] = "arrived"]
    /\ peer' = [peer EXCEPT ![h] = i]
    /\ sampled' = [sampled EXCEPT ![h] = clock]
    /\ UNCHANGED <<clock, securityVars>>

\* The attempt is granted a lease.
Admit(h) ==
    LET i == peer[h] now == sampled[h] IN
    /\ pc[h] = "arrived"
    /\ ~Refused(i, now)
    /\ CountAttempt(i, now)
    /\ active' = active + 1
    /\ activeByIP' = With(activeByIP, i, Lookup(activeByIP, i) + 1)
    /\ pc' = [pc EXCEPT ![h] = "admitted"]
    /\ sampled' = [sampled EXCEPT ![h] = 0]
    /\ UNCHANGED <<clock, peer>>

\* The attempt is answered 429 or 503 and the handler returns.
Reject(h) ==
    /\ pc[h] = "arrived"
    /\ Refused(peer[h], sampled[h])
    /\ CountAttempt(peer[h], sampled[h])
    /\ Return(h)
    /\ UNCHANGED <<clock, active, activeByIP>>

\* Mutant: the last lease of an address leaves its key behind.
MutantKeyKept(i) == [activeByIP EXCEPT ![i] = @ - 1]

\* activeByIP after one lease of address i is given back.
GivenBack(i) ==
    IF Lookup(activeByIP, i) <= 1 THEN Without(activeByIP, i) ELSE [activeByIP EXCEPT ![i] = @ - 1]

\* The deferred release closure: it runs once, when handleWebSocket returns.
Release(h) ==
    /\ pc[h] = "admitted"
    /\ active' = IF active > 0 THEN active - 1 ELSE active
    /\ activeByIP' = GivenBack(peer[h])
    /\ Return(h)
    /\ UNCHANGED <<clock, rateByIP, lastRatePrune, passed>>

\* Time passes.  A handler waits for the mutex for less than a minute: the
\* critical sections are map operations and never block.
Tick ==
    /\ clock < MaxTime
    /\ \A h \in Handlers : pc[h] = "arrived" => clock - sampled[h] < MaxSkew
    /\ clock' = clock + 1
    /\ passed' = [i \in IPs |-> [a \in Ages |-> IF a = 0 THEN 0 ELSE passed[i][a - 1]]]
    /\ UNCHANGED <<pc, peer, sampled, active, activeByIP, rateByIP, lastRatePrune>>

Next ==
    \/ Tick
    \/ \E h \in Handlers :
          \/ \E i \in IPs : Arrive(h, i)
          \/ Admit(h)
          \/ Reject(h)
          \/ Release(h)

Spec == Init /\ [][Next]_vars

-----------------------------------------------------------------------------
(* Properties. *)

Leases == {h \in Handlers : pc[h] = "admitted"}
LeasesOf(i) == {h \in Leases : peer[h] = i}

\* The counters the limits are checked against say exactly who is inside:
\* active is the number of leases, activeByIP has a key for the addresses that
\* hold one and no other (the map does not grow with the addresses ever seen),
\* and each entry is that address's number of leases.  The two guards of the
\* release closure (active > 0, delete at <= 1) are what could break this.
CountersMatchLeases ==
    /\ active = Cardinality(Leases)
    /\ DOMAIN activeByIP = {peer[h] : h \in Leases}
    /\ \A i \in DOMAIN activeByIP : activeByIP[i] = Cardinality(LeasesOf(i))

\* max_connections and max_connections_per_ip bound the handlers that are past
\* admission at the same time, not just the counters.
LimitsHold ==
    /\ MaxConnections > 0 => Cardinality(Leases) <= MaxConnections
    /\ MaxConnectionsPerIP > 0 =>
          \A i \in IPs : Cardinality(LeasesOf(i)) <= MaxConnectionsPerIP

\* Attempts of address i let through the rate check in the last n ticks.
PassedLately(i, n) == SumFunctionOnSet(passed[i], Ages \cap (0 .. n - 1))

\* What rate_limit_per_minute really bounds: a fixed window lets one address
\* through at most twice the limit in any minute, and three times when handlers
\* may wait for the mutex across a tick (two windows never start less than a
\* minute apart, whatever is pruned and however old the sampled time is).
RateBurstBound ==
    RateLimitPerMinute > 0 =>
        \A i \in IPs :
            PassedLately(i, Minute) <= (IF MaxSkew = 0 THEN 2 ELSE 3) * RateLimitPerMinute

\* A step never forgets attempts made in the current minute: a window younger
\* than a minute is neither pruned nor restarted, and its count never falls.
LiveWindowKept ==
    [][\A i \in DOMAIN rateByIP :
          clock' - rateByIP[i].start < Minute =>
              /\ i \in DOMAIN rateByIP'
              /\ rateByIP'[i].start = rateByIP[i].start
              /\ rateByIP'[i].count >= rateByIP[i].count]_vars

\* A request is refused only when a limit really is used up: the address had
\* its full quota let through in the last minute (counting rejected attempts
\* too never costs a client more than the rest of its window), or the handlers
\* inside fill the server or the address's share.
RefusedOnlyAtALimit ==
    [][\A h \in Handlers :
          pc[h] = "arrived" /\ pc'[h] = "idle" =>
              \/ /\ RateLimitPerMinute > 0
                 /\ PassedLately(peer[h], clock - sampled[h] + Minute) >= RateLimitPerMinute
              \/ MaxConnections > 0 /\ Cardinality(Leases) >= MaxConnections
              \/ /\ MaxConnectionsPerIP > 0
                 /\ Cardinality(LeasesOf(peer[h])) >= MaxConnectionsPerIP]_vars

-----------------------------------------------------------------------------
(* Refinement. *)

LeasesHeld == {[holder |-> h, peer |-> peer[h]] : h \in Leases}

Pool == INSTANCE LeasePool WITH
    Holders <- Handlers, Peers <- IPs,
    Capacity <- MaxConnections, PeerCapacity <- MaxConnectionsPerIP,
    leases <- LeasesHeld

\* Counting admissions in an integer and a map, with rate windows beside them,
\* implements the pool of leases: every step of a handler grants one lease that
\* there is room for, gives one lease back, or leaves the leases alone.
ImplementsLeasePool == Pool!Spec
=============================================================================

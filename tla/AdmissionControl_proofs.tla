----------------------- MODULE AdmissionControl_proofs -----------------------
(***************************************************************************)
(* Theorems about AdmissionControl, for any number of handlers and         *)
(* addresses and any limits.                                               *)
(***************************************************************************)
EXTENDS AdmissionControl, FiniteSums, FiniteSetTheorems, TLAPS

-----------------------------------------------------------------------------
(* Types. *)

\* What an attempt does to the windows keeps them windows.
LEMMA CountAttemptType ==
    ASSUME TypeOK, NEW i \in IPs, NEW now \in Times, CountAttempt(i, now)
    PROVE  /\ DOMAIN rateByIP' \subseteq IPs
           /\ \A k \in DOMAIN rateByIP' : rateByIP'[k] \in Window
           /\ lastRatePrune' \in Times \cup {NoTime}
           /\ passed' \in [IPs -> [Ages -> Nat]]
<1>1. /\ DOMAIN rateByIP' \subseteq IPs
      /\ \A k \in DOMAIN rateByIP' : rateByIP'[k] \in Window
  <2>1. CASE RateLimitPerMinute > 0
    <3>1. rateByIP' = With(Pruned(now), i, Counted(i, now))
      BY <2>1 DEF CountAttempt
    <3>2. /\ DOMAIN Pruned(now) \subseteq DOMAIN rateByIP
          /\ \A k \in DOMAIN Pruned(now) : Pruned(now)[k] = rateByIP[k]
      BY DEF Pruned, Restrict
    <3>3. Counted(i, now) \in Window
      <4>1. CASE Live(i, now)
        BY <4>1 DEF Live, Counted, TypeOK, Window
      <4>2. CASE ~Live(i, now)
        BY <4>2 DEF Counted, Window
      <4> QED BY <4>1, <4>2
    <3>4. /\ DOMAIN rateByIP' = DOMAIN Pruned(now) \cup {i}
          /\ rateByIP'[i] = Counted(i, now)
          /\ \A k \in DOMAIN Pruned(now) : k # i => rateByIP'[k] = Pruned(now)[k]
      BY <3>1 DEF With
    <3>5. DOMAIN rateByIP \subseteq IPs /\ \A k \in DOMAIN rateByIP : rateByIP[k] \in Window
      BY DEF TypeOK
    <3> QED BY <3>2, <3>3, <3>4, <3>5
  <2>2. CASE ~(RateLimitPerMinute > 0)
    BY <2>2 DEF CountAttempt, TypeOK
  <2> QED BY <2>1, <2>2
<1>2. lastRatePrune' \in Times \cup {NoTime}
  BY DEF CountAttempt, PruneStamp, TypeOK
<1>3. passed' \in [IPs -> [Ages -> Nat]]
  <2>1. 0 \in Ages
    BY ClockAssumption DEF Ages
  <2>2. CASE RateExceeded(i, now)
    BY <2>2 DEF CountAttempt, TypeOK
  <2>3. CASE ~RateExceeded(i, now)
    BY <2>1, <2>3 DEF CountAttempt, TypeOK
  <2> QED BY <2>2, <2>3
<1> QED BY <1>1, <1>2, <1>3

\* The clock a handler sampled is never ahead of the clock, and a handler that
\* is serving a request knows its address.
HandlersWellFormed ==
    \A h \in Handlers :
        /\ sampled[h] <= clock
        /\ pc[h] # "idle" => peer[h] \in IPs

TypeInv == TypeOK /\ HandlersWellFormed

\* The type invariant holds at the start.
LEMMA TypeInit == Init => TypeInv
<1> SUFFICES ASSUME Init PROVE TypeInv
  OBVIOUS
<1>1. 0 \in Times
  BY ClockAssumption DEF Times
<1>2. DOMAIN activeByIP = {} /\ DOMAIN rateByIP = {}
  BY DEF Init
<1> QED BY <1>1, <1>2 DEF Init, TypeInv, TypeOK, HandlersWellFormed, Times

\* Every step keeps the type invariant.
LEMMA TypeNext == TypeInv /\ [Next]_vars => TypeInv'
<1> SUFFICES ASSUME TypeInv, [Next]_vars PROVE TypeInv'
  OBVIOUS
<1> USE DEF TypeInv
<1> Times \subseteq Int /\ \A t \in Times : t <= MaxTime /\ t >= 0
  BY ClockAssumption DEF Times
<1>1. CASE Tick
  <2>1. clock' \in Times /\ clock' = clock + 1
    BY <1>1, ClockAssumption DEF Tick, TypeOK, Times
  <2>2. passed' \in [IPs -> [Ages -> Nat]]
    <3>1. \A a \in Ages : a # 0 => a - 1 \in Ages
      BY ClockAssumption DEF Ages
    <3> QED BY <1>1, <3>1 DEF Tick, TypeOK
  <2> QED BY <1>1, <2>1, <2>2 DEF Tick, TypeOK, HandlersWellFormed
<1>2. ASSUME NEW h \in Handlers, NEW i \in IPs, Arrive(h, i) PROVE TypeInv'
  BY <1>2 DEF Arrive, TypeOK, HandlersWellFormed, securityVars
<1>3. ASSUME NEW h \in Handlers, Admit(h) PROVE TypeInv'
  <2>1. peer[h] \in IPs /\ sampled[h] \in Times
    BY <1>3 DEF Admit, TypeOK, HandlersWellFormed
  <2>2. CountAttempt(peer[h], sampled[h])
    BY <1>3 DEF Admit
  <2>3. active' \in Nat
    BY <1>3 DEF Admit, TypeOK
  <2>4. /\ DOMAIN activeByIP' \subseteq IPs
        /\ \A k \in DOMAIN activeByIP' : activeByIP'[k] \in Nat \ {0}
    <3>1. Lookup(activeByIP, peer[h]) + 1 \in Nat \ {0}
      BY <2>1 DEF TypeOK, Lookup
    <3>2. activeByIP' = With(activeByIP, peer[h], Lookup(activeByIP, peer[h]) + 1)
      BY <1>3 DEF Admit
    <3>3. /\ DOMAIN activeByIP' = DOMAIN activeByIP \cup {peer[h]}
          /\ activeByIP'[peer[h]] = Lookup(activeByIP, peer[h]) + 1
          /\ \A k \in DOMAIN activeByIP : k # peer[h] => activeByIP'[k] = activeByIP[k]
      BY <3>2 DEF With
    <3> QED BY <2>1, <3>1, <3>3 DEF TypeOK
  <2>5. /\ DOMAIN rateByIP' \subseteq IPs
        /\ \A k \in DOMAIN rateByIP' : rateByIP'[k] \in Window
        /\ lastRatePrune' \in Times \cup {NoTime}
        /\ passed' \in [IPs -> [Ages -> Nat]]
    BY <2>1, <2>2, CountAttemptType
  <2>6. 0 \in Times /\ clock' = clock /\ clock \in Times /\ clock >= 0
    BY <1>3, ClockAssumption DEF Admit, TypeOK, Times
  <2>7. HandlersWellFormed'
    BY <1>3, <2>6 DEF Admit, TypeOK, HandlersWellFormed
  <2> QED BY <1>3, <2>3, <2>4, <2>5, <2>6, <2>7 DEF Admit, TypeOK
<1>4. ASSUME NEW h \in Handlers, Reject(h) PROVE TypeInv'
  <2>1. peer[h] \in IPs /\ sampled[h] \in Times
    BY <1>4 DEF Reject, TypeOK, HandlersWellFormed
  <2>2. CountAttempt(peer[h], sampled[h])
    BY <1>4 DEF Reject
  <2>3. /\ DOMAIN rateByIP' \subseteq IPs
        /\ \A k \in DOMAIN rateByIP' : rateByIP'[k] \in Window
        /\ lastRatePrune' \in Times \cup {NoTime}
        /\ passed' \in [IPs -> [Ages -> Nat]]
    BY <2>1, <2>2, CountAttemptType
  <2>4. 0 \in Times /\ clock' = clock /\ clock \in Times /\ clock >= 0
    BY <1>4, ClockAssumption DEF Reject, TypeOK, Times
  <2>5. HandlersWellFormed'
    BY <1>4, <2>4 DEF Reject, Return, TypeOK, HandlersWellFormed
  <2> QED BY <1>4, <2>3, <2>4, <2>5 DEF Reject, Return, TypeOK
<1>5. ASSUME NEW h \in Handlers, Release(h) PROVE TypeInv'
  <2>1. active' \in Nat
    BY <1>5 DEF Release, TypeOK
  <2>2. /\ DOMAIN activeByIP' \subseteq IPs
        /\ \A k \in DOMAIN activeByIP' : activeByIP'[k] \in Nat \ {0}
    <3>1. activeByIP' = GivenBack(peer[h])
      BY <1>5 DEF Release
    <3>2. CASE Lookup(activeByIP, peer[h]) <= 1
      <4>1. activeByIP' = Without(activeByIP, peer[h])
        BY <3>1, <3>2 DEF GivenBack
      <4>2. /\ DOMAIN activeByIP' = DOMAIN activeByIP \ {peer[h]}
            /\ \A k \in DOMAIN activeByIP : k # peer[h] => activeByIP'[k] = activeByIP[k]
        BY <4>1 DEF Without, Restrict
      <4> QED BY <4>2 DEF TypeOK
    <3>3. CASE ~(Lookup(activeByIP, peer[h]) <= 1)
      BY <3>1, <3>3 DEF GivenBack, TypeOK, Lookup
    <3> QED BY <3>2, <3>3
  <2> QED BY <1>5, <2>1, <2>2, ClockAssumption DEF Release, Return, TypeOK, HandlersWellFormed, Times
<1>6. CASE UNCHANGED vars
  BY <1>6 DEF vars, securityVars, TypeOK, HandlersWellFormed
<1> QED BY <1>1, <1>2, <1>3, <1>4, <1>5, <1>6 DEF Next

\* The variables keep their types; in particular no entry of activeByIP is ever
\* zero or less, whatever releases and admissions interleave.
THEOREM TypeCorrect == Spec => []TypeOK
<1>1. Spec => []TypeInv
  BY TypeInit, TypeNext, PTL DEF Spec
<1> QED BY <1>1, PTL DEF TypeInv

-----------------------------------------------------------------------------
(* Counters. *)

\* The leases, and those of one address, are finitely many.
LEMMA LeasesFinite ==
    /\ IsFiniteSet(Leases) /\ Cardinality(Leases) \in Nat
    /\ \A i : IsFiniteSet(LeasesOf(i)) /\ Cardinality(LeasesOf(i)) \in Nat
<1>1. Leases \subseteq Handlers /\ \A i : LeasesOf(i) \subseteq Handlers
  BY DEF Leases, LeasesOf
<1> QED BY <1>1, HandlersAssumption, FS_Subset, FS_CardinalityType

\* A lookup in the map of counters is a number of leases, also for an address
\* that has no entry.
LEMMA LookupCounts ==
    ASSUME CountersMatchLeases, NEW i
    PROVE  Lookup(activeByIP, i) = Cardinality(LeasesOf(i))
<1>1. CASE i \in DOMAIN activeByIP
  BY <1>1 DEF Lookup, CountersMatchLeases
<1>2. CASE i \notin DOMAIN activeByIP
  <2>1. LeasesOf(i) = {}
    BY <1>2 DEF CountersMatchLeases, LeasesOf
  <2> QED BY <1>2, <2>1, FS_EmptySet DEF Lookup
<1> QED BY <1>1, <1>2

\* A step that changes nobody's lease.
LEMMA LeasesKept ==
    ASSUME CountersMatchLeases, UNCHANGED <<active, activeByIP>>,
           Leases' = Leases, \A h \in Leases : peer'[h] = peer[h]
    PROVE  CountersMatchLeases'
<1>1. \A i : LeasesOf(i)' = LeasesOf(i)
  BY DEF LeasesOf
<1>2. {peer'[h] : h \in Leases'} = {peer[h] : h \in Leases}
  OBVIOUS
<1>3. active' = active /\ activeByIP' = activeByIP
  OBVIOUS
<1> QED BY <1>1, <1>2, <1>3 DEF CountersMatchLeases

\* The counters are right at the start, when nobody is inside.
LEMMA CountersInit == Init => CountersMatchLeases
<1> SUFFICES ASSUME Init PROVE CountersMatchLeases
  OBVIOUS
<1>1. Leases = {} /\ DOMAIN activeByIP = {} /\ active = 0
  BY DEF Init, Leases
<1> QED BY <1>1, FS_EmptySet DEF CountersMatchLeases

\* An admission adds its handler to the leases, alone.
LEMMA CountersAdmit ==
    ASSUME TypeInv, CountersMatchLeases, NEW h \in Handlers, Admit(h)
    PROVE  /\ Leases' = Leases \cup {h} /\ h \notin Leases
           /\ Cardinality(Leases)' = Cardinality(Leases) + 1
           /\ \A i : i # peer[h] => LeasesOf(i)' = LeasesOf(i)
           /\ Cardinality(LeasesOf(peer[h]))' = Cardinality(LeasesOf(peer[h])) + 1
           /\ CountersMatchLeases'
<1>p. PICK p : p = peer[h]
  OBVIOUS
<1>1. peer' = peer /\ Leases' = Leases \cup {h} /\ h \notin Leases
  BY DEF Admit, Leases, TypeInv, TypeOK
<1>2. /\ LeasesOf(p)' = LeasesOf(p) \cup {h} /\ h \notin LeasesOf(p)
      /\ \A i : i # p => LeasesOf(i)' = LeasesOf(i)
  BY <1>p, <1>1 DEF LeasesOf
<1>3. Cardinality(Leases)' = Cardinality(Leases) + 1
  BY <1>p, <1>1, LeasesFinite, FS_AddElement
<1>4. Cardinality(LeasesOf(p))' = Cardinality(LeasesOf(p)) + 1
  BY <1>p, <1>2, LeasesFinite, FS_AddElement
<1>5. active' = Cardinality(Leases)'
  BY <1>p, <1>3 DEF Admit, CountersMatchLeases
<1>6. activeByIP' = With(activeByIP, p, Cardinality(LeasesOf(p)) + 1)
  BY <1>p, LookupCounts DEF Admit
<1>7. DOMAIN activeByIP' = {peer'[g] : g \in Leases'}
  BY <1>p, <1>1, <1>6 DEF With, CountersMatchLeases
<1>8. \A i \in DOMAIN activeByIP' : activeByIP'[i] = Cardinality(LeasesOf(i)')
  <2>1. ASSUME NEW i \in DOMAIN activeByIP', i # p
        PROVE  activeByIP'[i] = Cardinality(LeasesOf(i)')
    <3>1. i \in DOMAIN activeByIP /\ activeByIP'[i] = activeByIP[i]
      BY <1>p, <1>6, <2>1 DEF With
    <3>2. activeByIP[i] = Cardinality(LeasesOf(i)) /\ LeasesOf(i)' = LeasesOf(i)
      BY <1>p, <1>2, <2>1, <3>1 DEF CountersMatchLeases
    <3> QED BY <3>1, <3>2
  <2>2. activeByIP'[p] = Cardinality(LeasesOf(p)')
    BY <1>p, <1>4, <1>6 DEF With
  <2> QED BY <2>1, <2>2
<1> QED BY <1>p, <1>1, <1>2, <1>3, <1>4, <1>5, <1>7, <1>8 DEF CountersMatchLeases

\* A release takes its handler out of the leases, alone.
LEMMA CountersRelease ==
    ASSUME TypeInv, CountersMatchLeases, NEW h \in Handlers, Release(h)
    PROVE  /\ Leases' = Leases \ {h} /\ h \in Leases
           /\ \A g \in Leases' : peer'[g] = peer[g]
           /\ CountersMatchLeases'
<1>p. PICK p : p = peer[h]
  OBVIOUS
<1>1. /\ Leases' = Leases \ {h} /\ h \in Leases
      /\ \A g \in Leases' : peer'[g] = peer[g]
  BY DEF Release, Return, Leases, TypeInv, TypeOK
<1>2. /\ LeasesOf(p)' = LeasesOf(p) \ {h} /\ h \in LeasesOf(p)
      /\ \A i : i # p => LeasesOf(i)' = LeasesOf(i)
  <2>1. \A g \in Leases : g # h => g \in Leases' /\ peer'[g] = peer[g]
    BY <1>p, <1>1
  <2> QED BY <1>p, <1>1, <2>1 DEF LeasesOf
<1>3. Cardinality(Leases)' = Cardinality(Leases) - 1
  BY <1>p, <1>1, LeasesFinite, FS_RemoveElement
<1>4. Cardinality(LeasesOf(p))' = Cardinality(LeasesOf(p)) - 1
  BY <1>p, <1>2, LeasesFinite, FS_RemoveElement
<1>5. active' = Cardinality(Leases)'
  <2>1. Cardinality(Leases) # 0
    BY <1>p, <1>1, LeasesFinite, FS_EmptySet
  <2> QED BY <1>p, <1>3, <2>1, LeasesFinite DEF Release, CountersMatchLeases
<1>6. /\ DOMAIN activeByIP' = {peer'[g] : g \in Leases'}
      /\ \A i \in DOMAIN activeByIP' : activeByIP'[i] = Cardinality(LeasesOf(i)')
  <2>1. Lookup(activeByIP, p) = Cardinality(LeasesOf(p)) /\ p \in DOMAIN activeByIP
    BY <1>p, <1>1, LookupCounts DEF CountersMatchLeases
  <2>2. {peer'[g] : g \in Leases'} = {i \in DOMAIN activeByIP : LeasesOf(i)' # {}}
    <3>1. \A i : LeasesOf(i)' # {} <=> \E g \in Leases' : peer'[g] = i
      BY DEF LeasesOf
    <3>2. \A g \in Leases' : peer'[g] \in DOMAIN activeByIP
      BY <1>p, <1>1 DEF CountersMatchLeases
    <3> QED BY <3>1, <3>2
  <2>3. \A i \in DOMAIN activeByIP : i # p => LeasesOf(i)' # {}
    BY <1>p, <1>2 DEF CountersMatchLeases, LeasesOf
  <2>4. CASE Cardinality(LeasesOf(p)) <= 1
    <3>1. activeByIP' = Without(activeByIP, p)
      BY <1>p, <2>1, <2>4 DEF Release, GivenBack
    <3>2. LeasesOf(p)' = {}
      <4>1. IsFiniteSet(LeasesOf(p)') /\ Cardinality(LeasesOf(p)') \in Nat
        BY <1>p, <1>2, LeasesFinite, FS_RemoveElement, FS_CardinalityType
      <4> QED BY <1>p, <1>4, <2>4, <4>1, FS_EmptySet, LeasesFinite
    <3>3. DOMAIN activeByIP' = DOMAIN activeByIP \ {p}
      BY <3>1 DEF Without, Restrict
    <3>4. DOMAIN activeByIP' = {peer'[g] : g \in Leases'}
      <4>1. {i \in DOMAIN activeByIP : LeasesOf(i)' # {}} = DOMAIN activeByIP \ {p}
        BY <2>3, <3>2
      <4> QED BY <2>2, <3>3, <4>1
    <3>5. ASSUME NEW i \in DOMAIN activeByIP' PROVE activeByIP'[i] = Cardinality(LeasesOf(i)')
      <4>1. i # p /\ i \in DOMAIN activeByIP /\ activeByIP'[i] = activeByIP[i]
        BY <3>1, <3>3 DEF Without, Restrict
      <4>2. activeByIP[i] = Cardinality(LeasesOf(i)) /\ LeasesOf(i)' = LeasesOf(i)
        BY <1>p, <1>2, <4>1 DEF CountersMatchLeases
      <4> QED BY <4>1, <4>2
    <3> QED BY <3>4, <3>5
  <2>5. CASE ~(Cardinality(LeasesOf(p)) <= 1)
    <3>1. activeByIP' = [activeByIP EXCEPT ![p] = @ - 1]
      BY <1>p, <2>1, <2>5 DEF Release, GivenBack
    <3>2. LeasesOf(p)' # {}
      BY <1>p, <1>4, <2>5, FS_EmptySet, LeasesFinite
    <3>3. DOMAIN activeByIP' = DOMAIN activeByIP
      BY <3>1
    <3>4. DOMAIN activeByIP' = {peer'[g] : g \in Leases'}
      <4>1. {i \in DOMAIN activeByIP : LeasesOf(i)' # {}} = DOMAIN activeByIP
        BY <2>3, <3>2
      <4> QED BY <2>2, <3>3, <4>1
    <3>5. activeByIP'[p] = Cardinality(LeasesOf(p)')
      BY <1>p, <1>4, <2>1, <3>1 DEF CountersMatchLeases
    <3>6. ASSUME NEW i \in DOMAIN activeByIP', i # p
          PROVE  activeByIP'[i] = Cardinality(LeasesOf(i)')
      <4>1. i \in DOMAIN activeByIP /\ activeByIP'[i] = activeByIP[i]
        BY <3>1, <3>3, <3>6
      <4>2. activeByIP[i] = Cardinality(LeasesOf(i)) /\ LeasesOf(i)' = LeasesOf(i)
        BY <1>p, <1>2, <3>6, <4>1 DEF CountersMatchLeases
      <4> QED BY <4>1, <4>2
    <3> QED BY <3>4, <3>5, <3>6
  <2> QED BY <2>4, <2>5, LeasesFinite
<1> QED BY <1>p, <1>1, <1>5, <1>6 DEF CountersMatchLeases

\* The steps that grant or give back nothing.
LEMMA OtherStepsKeepLeases ==
    ASSUME TypeInv, [Next]_vars,
           \A h \in Handlers : ~Admit(h) /\ ~Release(h)
    PROVE  /\ UNCHANGED <<active, activeByIP>>
           /\ Leases' = Leases
           /\ \A h \in Leases : peer'[h] = peer[h]
<1>1. CASE Tick
  BY <1>1 DEF Tick, Leases
<1>2. ASSUME NEW h \in Handlers, NEW i \in IPs, Arrive(h, i)
      PROVE  /\ UNCHANGED <<active, activeByIP>>
             /\ Leases' = Leases
             /\ \A g \in Leases : peer'[g] = peer[g]
  BY <1>2 DEF Arrive, Leases, securityVars, TypeInv, TypeOK
<1>3. ASSUME NEW h \in Handlers, Reject(h)
      PROVE  /\ UNCHANGED <<active, activeByIP>>
             /\ Leases' = Leases
             /\ \A g \in Leases : peer'[g] = peer[g]
  BY <1>3 DEF Reject, Return, Leases, TypeInv, TypeOK
<1>4. CASE UNCHANGED vars
  BY <1>4 DEF vars, securityVars, Leases
<1> QED BY <1>1, <1>2, <1>3, <1>4 DEF Next

\* Every step keeps the counters right.
LEMMA CountersNext == TypeInv /\ CountersMatchLeases /\ [Next]_vars => CountersMatchLeases'
<1> SUFFICES ASSUME TypeInv, CountersMatchLeases, [Next]_vars PROVE CountersMatchLeases'
  OBVIOUS
<1>1. CASE \E h \in Handlers : Admit(h)
  BY <1>1, CountersAdmit
<1>2. CASE \E h \in Handlers : Release(h)
  BY <1>2, CountersRelease
<1>3. CASE \A h \in Handlers : ~Admit(h) /\ ~Release(h)
  BY <1>3, OtherStepsKeepLeases, LeasesKept
<1> QED BY <1>1, <1>2, <1>3

\* The counters the limits are checked against say exactly who is inside, for
\* any number of handlers admitted, rejected and released in any order.
THEOREM CountersCorrect == Spec => []CountersMatchLeases
<1>1. Init => TypeInv /\ CountersMatchLeases
  BY TypeInit, CountersInit
<1>2. TypeInv /\ CountersMatchLeases /\ [Next]_vars => (TypeInv /\ CountersMatchLeases)'
  BY TypeNext, CountersNext
<1> QED BY <1>1, <1>2, PTL DEF Spec

-----------------------------------------------------------------------------
(* Limits. *)

Inside == TypeInv /\ CountersMatchLeases

\* The limits hold at the start.
LEMMA LimitsInit == Init => LimitsHold
<1> SUFFICES ASSUME Init PROVE LimitsHold
  OBVIOUS
<1>1. Leases = {} /\ \A i : LeasesOf(i) = {}
  BY DEF Init, Leases, LeasesOf
<1> QED BY <1>1, FS_EmptySet, LimitsAssumption DEF LimitsHold

\* Every step keeps the limits, since the guards compare the right counters.
LEMMA LimitsNext == Inside /\ LimitsHold /\ [Next]_vars => LimitsHold'
<1> SUFFICES ASSUME Inside, LimitsHold, [Next]_vars PROVE LimitsHold'
  OBVIOUS
<1> USE DEF Inside
<1>1. ASSUME NEW h \in Handlers, Admit(h) PROVE LimitsHold'
  <2>1. /\ MaxConnections > 0 => Cardinality(Leases) < MaxConnections
        /\ MaxConnectionsPerIP > 0 => Cardinality(LeasesOf(peer[h])) < MaxConnectionsPerIP
    <3>1. ~PoolFull /\ ~PeerFull(peer[h])
      BY <1>1 DEF Admit, Refused
    <3>2. active = Cardinality(Leases)
          /\ Lookup(activeByIP, peer[h]) = Cardinality(LeasesOf(peer[h]))
      BY LookupCounts DEF CountersMatchLeases
    <3> QED BY <3>1, <3>2, LeasesFinite, LimitsAssumption DEF PoolFull, PeerFull
  <2>2. MaxConnections > 0 => Cardinality(Leases)' <= MaxConnections
    BY <1>1, <2>1, CountersAdmit, LeasesFinite, LimitsAssumption
  <2>3. ASSUME MaxConnectionsPerIP > 0, NEW i \in IPs
        PROVE  Cardinality(LeasesOf(i)') <= MaxConnectionsPerIP
    <3>1. CASE i = peer[h]
      <4>1. peer' = peer
        BY <1>1 DEF Admit
      <4>2. LeasesOf(i)' = LeasesOf(peer[h])'
        BY <3>1, <4>1 DEF LeasesOf
      <4> QED BY <1>1, <2>1, <2>3, <4>2, CountersAdmit, LeasesFinite, LimitsAssumption
    <3>2. CASE i # peer[h]
      BY <1>1, <2>3, <3>2, CountersAdmit DEF LimitsHold
    <3> QED BY <3>1, <3>2
  <2> QED BY <2>2, <2>3 DEF LimitsHold
<1>2. ASSUME Leases' \subseteq Leases, \A h \in Leases' : peer'[h] = peer[h]
      PROVE  LimitsHold'
  <2>1. \A i : LeasesOf(i)' \subseteq LeasesOf(i)
    BY <1>2 DEF LeasesOf
  <2>2. /\ Cardinality(Leases') <= Cardinality(Leases)
        /\ Cardinality(Leases') \in Nat
        /\ \A i : /\ Cardinality(LeasesOf(i)') <= Cardinality(LeasesOf(i))
                  /\ Cardinality(LeasesOf(i)') \in Nat
    BY <1>2, <2>1, LeasesFinite, FS_Subset, FS_CardinalityType
  <2> QED BY <2>2, LeasesFinite, LimitsAssumption DEF LimitsHold
<1>3. ASSUME NEW h \in Handlers, Release(h) PROVE LimitsHold'
  BY <1>2, <1>3, CountersRelease
<1>4. CASE \A h \in Handlers : ~Admit(h) /\ ~Release(h)
  BY <1>2, <1>4, OtherStepsKeepLeases
<1> QED BY <1>1, <1>3, <1>4

\* max_connections and max_connections_per_ip bound the handlers that are past
\* admission, for any limits and any number of handlers.
THEOREM LimitsCorrect == Spec => []LimitsHold
<1>1. Init => Inside /\ LimitsHold
  BY TypeInit, CountersInit, LimitsInit DEF Inside
<1>2. Inside /\ LimitsHold /\ [Next]_vars => (Inside /\ LimitsHold)'
  BY TypeNext, CountersNext, LimitsNext DEF Inside
<1> QED BY <1>1, <1>2, PTL DEF Spec

-----------------------------------------------------------------------------
(* The lease pool. *)

\* The leases of a set of handlers are as many as the handlers.
LEMMA AsManyLeasesAsHolders ==
    ASSUME NEW S, IsFiniteSet(S)
    PROVE  Cardinality({[holder |-> h, peer |-> peer[h]] : h \in S}) = Cardinality(S)
<1> DEFINE T == {[holder |-> h, peer |-> peer[h]] : h \in S}
           f == [h \in S |-> [holder |-> h, peer |-> peer[h]]]
<1>1. f \in Bijection(S, T)
  <2>1. f \in [S -> T]
    OBVIOUS
  <2>2. \A g, h \in S : f[g] = f[h] => g = h
    OBVIOUS
  <2>3. \A t \in T : \E h \in S : f[h] = t
    OBVIOUS
  <2> QED BY <2>1, <2>2, <2>3 DEF Bijection, Injection, Surjection, IsInjective
<1>2. ExistsBijection(S, T)
  BY <1>1 DEF ExistsBijection
<1> QED BY <1>2, FS_Bijection

\* The pool has room exactly when the counters are below the limits.
LEMMA RoomByCounters ==
    ASSUME Inside, NEW i
    PROVE  Pool!Room(i) <=> ~PoolFull /\ ~PeerFull(i)
<1> USE DEF Inside
<1>1. Cardinality(LeasesHeld) = Cardinality(Leases)
  BY LeasesFinite, AsManyLeasesAsHolders DEF LeasesHeld
<1>2. Cardinality(Pool!HeldFor(i)) = Cardinality(LeasesOf(i))
  <2>1. Pool!HeldFor(i) = {[holder |-> h, peer |-> peer[h]] : h \in LeasesOf(i)}
    BY DEF Pool!HeldFor, LeasesHeld, LeasesOf
  <2>2. Cardinality({[holder |-> h, peer |-> peer[h]] : h \in LeasesOf(i)}) = Cardinality(LeasesOf(i))
    BY LeasesFinite, AsManyLeasesAsHolders
  <2> QED BY <2>1, <2>2
<1>3. active = Cardinality(Leases) /\ Lookup(activeByIP, i) = Cardinality(LeasesOf(i))
  BY LookupCounts DEF CountersMatchLeases
<1>4. \A S : Pool!Cardinality(S) = Cardinality(S)
  BY DEF Pool!Cardinality, Cardinality
<1> QED BY <1>1, <1>2, <1>3, <1>4, LeasesFinite, LimitsAssumption DEF Pool!Room, PoolFull, PeerFull

\* The initial states are those of the pool.
LEMMA PoolInit == Init => Pool!Init
BY DEF Init, Leases, LeasesHeld, Pool!Init

LEMMA PoolNext == Inside /\ [Next]_vars => [Pool!Next]_LeasesHeld
<1> SUFFICES ASSUME Inside, [Next]_vars PROVE [Pool!Next]_LeasesHeld
  OBVIOUS
<1>1. ASSUME NEW h \in Handlers, Admit(h) PROVE Pool!Next
  <2>1. /\ Leases' = Leases \cup {h} /\ h \notin Leases
        /\ peer' = peer /\ peer[h] \in IPs
    BY <1>1, CountersAdmit DEF Inside, Admit, TypeInv, HandlersWellFormed
  <2>2. LeasesHeld' = LeasesHeld \cup {[holder |-> h, peer |-> peer[h]]}
    BY <2>1 DEF LeasesHeld
  <2>3. \A l \in LeasesHeld : l.holder # h
    BY <2>1 DEF LeasesHeld
  <2>4. Pool!Room(peer[h])
    BY <1>1, RoomByCounters DEF Admit, Refused
  <2> QED BY <2>1, <2>2, <2>3, <2>4 DEF Pool!Next, Pool!Grant
<1>2. ASSUME NEW h \in Handlers, Release(h) PROVE Pool!Next
  <2>1. /\ Leases' = Leases \ {h} /\ h \in Leases
        /\ \A g \in Leases' : peer'[g] = peer[g]
    BY <1>2, CountersRelease DEF Inside
  <2>2. peer[h] \in IPs
    BY <1>2 DEF Inside, Release, TypeInv, HandlersWellFormed
  <2>3. LeasesHeld' = LeasesHeld \ {[holder |-> h, peer |-> peer[h]]}
    <3>1. LeasesHeld' = {[holder |-> g, peer |-> peer[g]] : g \in Leases \ {h}}
      BY <2>1 DEF LeasesHeld
    <3> QED BY <3>1 DEF LeasesHeld
  <2>4. [holder |-> h, peer |-> peer[h]] \in LeasesHeld
    BY <2>1 DEF LeasesHeld
  <2> QED BY <2>2, <2>3, <2>4 DEF Pool!Next, Pool!Return
<1>3. CASE \A h \in Handlers : ~Admit(h) /\ ~Release(h)
  BY <1>3, OtherStepsKeepLeases DEF Inside, LeasesHeld
<1> QED BY <1>1, <1>2, <1>3

\* Counting leases in an integer and a map implements the pool of leases: every
\* admission is a grant there is room for, every release a return, and nothing
\* else moves a lease.
THEOREM LeasePoolImplemented == Spec => ImplementsLeasePool
<1>1. Init => Inside
  BY TypeInit, CountersInit DEF Inside
<1>2. Inside /\ [Next]_vars => Inside'
  BY TypeNext, CountersNext DEF Inside
<1> QED BY <1>1, <1>2, PoolInit, PoolNext, PTL DEF Spec, ImplementsLeasePool, Pool!Spec

-----------------------------------------------------------------------------
(* Windows. *)

\* A step keeps every window that is still live after it.
LEMMA LiveWindowStep ==
    ASSUME TypeInv, [Next]_vars, NEW i \in DOMAIN rateByIP,
           clock' - rateByIP[i].start < Minute
    PROVE  /\ i \in DOMAIN rateByIP'
           /\ rateByIP'[i].start = rateByIP[i].start
           /\ rateByIP'[i].count >= rateByIP[i].count
<1>0. /\ rateByIP[i] \in Window /\ rateByIP[i].count \in Nat /\ rateByIP[i].start \in Int
      /\ i \in IPs
  BY ClockAssumption DEF TypeInv, TypeOK, Window, Times
<1>1. ASSUME NEW h \in Handlers, CountAttempt(peer[h], sampled[h]), clock' = clock
      PROVE  /\ i \in DOMAIN rateByIP'
             /\ rateByIP'[i].start = rateByIP[i].start
             /\ rateByIP'[i].count >= rateByIP[i].count
  <2> DEFINE now == sampled[h]
  <2>1. now - rateByIP[i].start < Minute /\ now - rateByIP[i].start < RateWindowTTL
    BY <1>0, <1>1, ClockAssumption
       DEF TypeInv, TypeOK, HandlersWellFormed, Times, RateWindowTTL
  <2>2. i \in DOMAIN Pruned(now) /\ Pruned(now)[i] = rateByIP[i]
    BY <2>1 DEF Pruned, Restrict
  <2>3. CASE RateLimitPerMinute > 0
    <3>1. rateByIP' = With(Pruned(now), peer[h], Counted(peer[h], now))
      BY <1>1, <2>3 DEF CountAttempt
    <3>2. CASE i = peer[h]
      <4>1. rateByIP'[i] = [rateByIP[i] EXCEPT !.count = @ + 1]
        BY <2>1, <3>1, <3>2 DEF With, Counted, Live
      <4> QED BY <1>0, <2>2, <3>1, <4>1 DEF With, Window
    <3>3. CASE i # peer[h]
      BY <1>0, <2>2, <3>1, <3>3 DEF With
    <3> QED BY <3>2, <3>3
  <2>4. CASE ~(RateLimitPerMinute > 0)
    BY <1>0, <1>1, <2>4 DEF CountAttempt
  <2> QED BY <2>3, <2>4
<1>2. CASE UNCHANGED rateByIP
  BY <1>0, <1>2
<1>3. ASSUME NEW h \in Handlers, Admit(h) \/ Reject(h)
      PROVE  CountAttempt(peer[h], sampled[h]) /\ clock' = clock
  BY <1>3 DEF Admit, Reject
<1>4. \/ UNCHANGED rateByIP
      \/ \E h \in Handlers : Admit(h) \/ Reject(h)
  BY DEF Next, Tick, Arrive, Release, vars, securityVars
<1> QED BY <1>1, <1>2, <1>3, <1>4

\* No step forgets the attempts of the current minute, whatever is pruned and
\* however old the time is that the pruning handler has sampled.
THEOREM LiveWindowsKept == Spec => LiveWindowKept
<1>1. TypeInv /\ [Next]_vars =>
        \A i \in DOMAIN rateByIP :
          clock' - rateByIP[i].start < Minute =>
              /\ i \in DOMAIN rateByIP'
              /\ rateByIP'[i].start = rateByIP[i].start
              /\ rateByIP'[i].count >= rateByIP[i].count
  BY LiveWindowStep
<1> QED BY <1>1, TypeInit, TypeNext, PTL DEF Spec, LiveWindowKept
-----------------------------------------------------------------------------
(* Rates. *)

\* One attempt more is one more among the last a ticks, whatever a is.
LEMMA SumWithOneMore ==
  ASSUME NEW f \in [Ages -> Nat], NEW g \in [Ages -> Nat], NEW a \in Ages,
         g[0] = f[0] + 1, \A x \in Ages \ {0} : g[x] = f[x]
  PROVE  /\ SumFunctionOnSet(g, 0 .. a) = SumFunctionOnSet(f, 0 .. a) + 1
         /\ SumFunctionOnSet(f, 0 .. a) \in Nat
<1>1. a \in Nat /\ 0 \in 0 .. a /\ 0 .. a \subseteq Ages /\ 0 \in Ages
  BY ClockAssumption DEF Ages
<1>2. IsFiniteSet(0 .. a)
  BY <1>1, FS_Interval
<1>2a. IsFiniteSet((0 .. a) \ {0})
  BY <1>2, FS_RemoveElement
<1>3. f[0] \in Nat
  BY <1>1
<1>4. \A x \in 0 .. a : f[x] \in Nat /\ g[x] \in Nat
  BY <1>1
<1>5. SumFunctionOnSet(f, 0 .. a) = f[0] + SumFunctionOnSet(f, (0 .. a) \ {0})
  BY <1>1, <1>2, <1>4, SumSplit, SMTT(30)
<1>6. SumFunctionOnSet(g, 0 .. a) = g[0] + SumFunctionOnSet(g, (0 .. a) \ {0})
  BY <1>1, <1>2, <1>4, SumSplit
<1>7. \A x \in (0 .. a) \ {0} : f[x] \in Nat /\ g[x] = f[x]
  BY <1>1, <1>4
<1>8. SumFunctionOnSet(g, (0 .. a) \ {0}) = SumFunctionOnSet(f, (0 .. a) \ {0})
  BY <1>2a, <1>7, SumSame
<1>9. SumFunctionOnSet(f, (0 .. a) \ {0}) \in Nat
  BY <1>2a, <1>7, SumType
<1>10. QED
  BY <1>3, <1>5, <1>6, <1>8, <1>9

\* A tick makes every attempt one tick older.
LEMMA SumOfOlder ==
  ASSUME NEW f \in [Ages -> Nat], NEW g,
         g = [a \in Ages |-> IF a = 0 THEN 0 ELSE f[a - 1]], NEW a \in Ages
  PROVE  /\ SumFunctionOnSet(f, 0 .. a) \in Nat
         /\ SumFunctionOnSet(g, 0 .. 0) = 0
         /\ a + 1 \in Ages => SumFunctionOnSet(g, 0 .. a + 1) = SumFunctionOnSet(f, 0 .. a)
<1>0. a \in Nat /\ 0 .. a \subseteq Ages /\ 0 \in Ages
  BY ClockAssumption DEF Ages
<1>1. IsFiniteSet(0 .. a)
  BY <1>0, FS_Interval
<1>1a. 0 .. 0 = {0} /\ IsFiniteSet({0})
  BY FS_Singleton
<1>2. \A x \in 0 .. a : f[x] \in Nat
  BY <1>0
<1>3. SumFunctionOnSet(f, 0 .. a) \in Nat
  BY <1>1, <1>2, SumType
<1>4. g[0] = 0 /\ \A x \in 0 .. 0 : g[x] = 0
  BY <1>0
<1>5. SumFunctionOnSet(g, 0 .. 0) = 0
  BY <1>1a, <1>4, SumOfZeros
<1>6. ASSUME a + 1 \in Ages
      PROVE  SumFunctionOnSet(g, 0 .. a + 1) = SumFunctionOnSet(f, 0 .. a)
  <2>1. \A x \in 0 .. a : x + 1 \in Ages /\ x + 1 # 0 /\ (x + 1) - 1 = x
    BY <1>0, <1>6, ClockAssumption DEF Ages
  <2>2. \A x \in 0 .. a : g[x + 1] = f[x]
    BY <1>0, <2>1
  <2>3. QED
    BY <1>0, <1>2, <1>4, <2>2, SumShift
<1>7. QED
  BY <1>3, <1>5, <1>6

\* Attempts let through at most a ticks ago.
PassedSince(i, a) == SumFunctionOnSet(passed[i], 0 .. a)

\* A handler that waits for the mutex has read the clock MaxSkew ticks ago at
\* most, and no window starts in the future.
WaitsAreShort ==
    /\ \A h \in Handlers : pc[h] = "arrived" => clock - sampled[h] <= MaxSkew
    /\ \A i \in DOMAIN rateByIP : rateByIP[i].start <= clock

\* What a window that has counted n attempts has let through.
LetThrough(n) == IF n < RateLimitPerMinute THEN n ELSE RateLimitPerMinute

\* The attempts a window has let through are not older than the window.
WindowsPassed ==
    \A i \in DOMAIN rateByIP :
        clock - rateByIP[i].start \in Ages =>
            PassedSince(i, clock - rateByIP[i].start) >= LetThrough(rateByIP[i].count)

\* At time t, what was let through by the windows before the one that starts at s
\* is at least this old: they sampled a time before s.  What the window itself let
\* through is younger by a minute at most, what the last but one did older by a
\* minute at least.
LeastAge(t, s) == t - (s - 1) - MaxSkew
Within(near, n) == IF near THEN n ELSE 0
Quota(t, w, a) ==
      Within(LeastAge(t, w.start) - Minute <= a, LetThrough(w.count))
    + Within(LeastAge(t, w.start) <= a, RateLimitPerMinute)
    + Within(LeastAge(t, w.start) + Minute <= a, RateLimitPerMinute)

\* An address without a window has lost it when the window was two minutes old.
QuotaOfPruned(a) == Within(Minute + 1 - MaxSkew <= a, RateLimitPerMinute)

\* No address was let through more often than its windows allow.
WindowsBound ==
    \A i \in IPs : \A a \in 0 .. Minute - 1 :
        PassedSince(i, a) <= IF i \in DOMAIN rateByIP THEN Quota(clock, rateByIP[i], a)
                             ELSE QuotaOfPruned(a)

RateInv == RateLimitPerMinute > 0 => WaitsAreShort /\ WindowsPassed /\ WindowsBound

\* The attempts of an address are counted in naturals.
LEMMA PassedType ==
  ASSUME TypeInv, NEW i \in IPs, NEW a \in Ages
  PROVE  PassedSince(i, a) \in Nat
<1>0. passed[i] \in [Ages -> Nat] /\ 0 .. a \subseteq Ages /\ a \in Nat
  BY ClockAssumption DEF TypeInv, TypeOK, Ages
<1>1. IsFiniteSet(0 .. a)
  BY <1>0, FS_Interval
<1>2. \A x \in 0 .. a : passed[i][x] \in Nat
  BY <1>0
<1>3. QED
  BY <1>1, <1>2, SumType DEF PassedSince

\* A quota at most grows when the window and the attempts get older together.
LEMMA QuotaOlder ==
  ASSUME NEW t \in Int, NEW s \in Int, NEW n \in Nat, NEW a \in Nat
  PROVE  /\ Quota(t + 1, [start |-> s, count |-> n], a + 1) = Quota(t, [start |-> s, count |-> n], a)
         /\ Quota(t, [start |-> s, count |-> n], a) >= 0
         /\ QuotaOfPruned(a + 1) >= QuotaOfPruned(a)
         /\ QuotaOfPruned(a) >= 0
BY LimitsAssumption, ClockAssumption DEF Quota, LeastAge, Within, LetThrough, QuotaOfPruned

\* One attempt more in a live window: it is let through unless the limit is used up.
LEMMA QuotaCounted ==
  ASSUME RateLimitPerMinute > 0, NEW t \in Int, NEW now \in Int, NEW s \in Int, NEW n \in Nat,
         NEW a \in 0 .. Minute - 1, now <= t, t - now <= MaxSkew, now - s < Minute
  PROVE  Quota(t, [start |-> s, count |-> n + 1], a)
           = Quota(t, [start |-> s, count |-> n], a) + (IF n + 1 > RateLimitPerMinute THEN 0 ELSE 1)
<1>1. LeastAge(t, s) - Minute <= a
  BY ClockAssumption DEF LeastAge
<1>2. LetThrough(n + 1) = LetThrough(n) + (IF n + 1 > RateLimitPerMinute THEN 0 ELSE 1)
  BY LimitsAssumption DEF LetThrough
<1>3. QED
  BY <1>1, <1>2, LimitsAssumption, ClockAssumption DEF Quota, Within, LeastAge, LetThrough

\* The first attempt of a window that starts a minute or more after the last one.
LEMMA QuotaRestarted ==
  ASSUME RateLimitPerMinute > 0, NEW t \in Int, NEW now \in Int, NEW s \in Int, NEW n \in Nat,
         NEW a \in 0 .. Minute - 1, now <= t, t - now <= MaxSkew, now - s >= Minute
  PROVE  Quota(t, [start |-> now, count |-> 1], a) >= Quota(t, [start |-> s, count |-> n], a) + 1
<1>1. LeastAge(t, now) - Minute <= a /\ LetThrough(1) = 1
  BY LimitsAssumption, ClockAssumption DEF LeastAge, LetThrough
<1>2. LeastAge(t, s) - Minute >= LeastAge(t, now) /\ ~(LeastAge(t, s) + Minute <= a)
  BY ClockAssumption DEF LeastAge
<1>3. LetThrough(n) <= RateLimitPerMinute /\ LetThrough(n) \in Nat
  BY LimitsAssumption DEF LetThrough
<1>4. LeastAge(t, s) \in Int /\ LeastAge(t, now) \in Int
  BY ClockAssumption DEF LeastAge
<1>5. QED
  BY <1>1, <1>2, <1>3, <1>4, LimitsAssumption, ClockAssumption DEF Quota, Within

\* The first window of an address, or the first since its last one was pruned.
LEMMA QuotaFirst ==
  ASSUME RateLimitPerMinute > 0, NEW t \in Int, NEW now \in Int,
         NEW a \in 0 .. Minute - 1, now <= t, t - now <= MaxSkew
  PROVE  Quota(t, [start |-> now, count |-> 1], a) >= QuotaOfPruned(a) + 1
BY LimitsAssumption, ClockAssumption DEF Quota, Within, LeastAge, LetThrough, QuotaOfPruned

\* A window that is pruned had nothing young to answer for.
LEMMA QuotaPruned ==
  ASSUME NEW t \in Int, NEW now \in Int, NEW s \in Int, NEW n \in Nat,
         NEW a \in 0 .. Minute - 1, now <= t, now - s >= RateWindowTTL
  PROVE  Quota(t, [start |-> s, count |-> n], a) <= QuotaOfPruned(a)
<1>1. LetThrough(n) <= RateLimitPerMinute /\ LetThrough(n) \in Nat
  BY LimitsAssumption DEF LetThrough
<1>2. LeastAge(t, s) - Minute >= Minute + 1 - MaxSkew /\ LeastAge(t, s) \in Int
  BY ClockAssumption DEF LeastAge, RateWindowTTL
<1>3. ~(LeastAge(t, s) <= a) /\ ~(LeastAge(t, s) + Minute <= a)
  BY <1>2, ClockAssumption
<1>4. QED
  BY <1>1, <1>2, <1>3, LimitsAssumption, ClockAssumption DEF Quota, Within, QuotaOfPruned
\* What an attempt does to the windows: its own is counted, others stay or are
\* pruned two minutes after their start.
LEMMA AttemptWindows ==
  ASSUME TypeInv, RateLimitPerMinute > 0, NEW i \in IPs, NEW now \in Times, CountAttempt(i, now)
  PROVE  /\ i \in DOMAIN rateByIP' /\ rateByIP'[i] = Counted(i, now)
         /\ \A k \in DOMAIN rateByIP' : k # i => k \in DOMAIN rateByIP /\ rateByIP'[k] = rateByIP[k]
         /\ \A k \in DOMAIN rateByIP : k # i /\ k \notin DOMAIN rateByIP' =>
               now - rateByIP[k].start >= RateWindowTTL
<1>1. rateByIP' = With(Pruned(now), i, Counted(i, now))
  BY DEF CountAttempt
<1>2. /\ DOMAIN Pruned(now) \subseteq DOMAIN rateByIP
      /\ \A k \in DOMAIN Pruned(now) : Pruned(now)[k] = rateByIP[k]
      /\ \A k \in DOMAIN rateByIP : k \notin DOMAIN Pruned(now) =>
            ~(now - rateByIP[k].start < RateWindowTTL)
  BY DEF Pruned, Restrict
<1>3. /\ DOMAIN rateByIP' = DOMAIN Pruned(now) \cup {i}
      /\ rateByIP'[i] = Counted(i, now)
      /\ \A k \in DOMAIN Pruned(now) : k # i => rateByIP'[k] = Pruned(now)[k]
  BY <1>1 DEF With
<1>4. \A k \in DOMAIN rateByIP : rateByIP[k].start \in Int
  BY DEF TypeInv, TypeOK, Window, Times
<1>5. RateWindowTTL \in Int /\ now \in Int
  BY ClockAssumption DEF RateWindowTTL, Times
<1>6. ASSUME NEW k \in DOMAIN rateByIP, k # i, k \notin DOMAIN rateByIP'
      PROVE  now - rateByIP[k].start >= RateWindowTTL
  <2>1. ~(now - rateByIP[k].start < RateWindowTTL)
    BY <1>2, <1>3, <1>6
  <2>2. QED
    BY <1>4, <1>5, <2>1
<1>7. ASSUME NEW k \in DOMAIN rateByIP', k # i
      PROVE  k \in DOMAIN rateByIP /\ rateByIP'[k] = rateByIP[k]
  BY <1>2, <1>3, <1>7
<1>8. QED
  BY <1>3, <1>6, <1>7

\* What an attempt does to the history: one more of its address when it is let through.
LEMMA AttemptPassed ==
  ASSUME TypeInv, RateLimitPerMinute > 0, NEW i \in IPs, NEW now \in Times, CountAttempt(i, now),
         NEW k \in IPs, NEW a \in Ages
  PROVE  PassedSince(k, a)' = PassedSince(k, a)
             + (IF k = i /\ ~(Counted(i, now).count > RateLimitPerMinute) THEN 1 ELSE 0)
<1>1. passed' = IF RateExceeded(i, now) THEN passed ELSE [passed EXCEPT ![i][0] = @ + 1]
  BY DEF CountAttempt
<1>2. RateExceeded(i, now) <=> Counted(i, now).count > RateLimitPerMinute
  BY DEF RateExceeded
<1>3. passed \in [IPs -> [Ages -> Nat]] /\ PassedSince(k, a) \in Nat /\ 0 \in Ages
  BY PassedType, ClockAssumption DEF TypeInv, TypeOK, Ages
<1>4. CASE k = i /\ ~RateExceeded(i, now)
  <2>1. PICK g \in [Ages -> Nat] : g = passed'[i]
    BY <1>1, <1>3, <1>4
  <2>2. g[0] = passed[i][0] + 1 /\ \A x \in Ages \ {0} : g[x] = passed[i][x]
    BY <1>1, <1>3, <1>4, <2>1
  <2>3. PICK f \in [Ages -> Nat] : f = passed[i]
    BY <1>3
  <2>4. g[0] = f[0] + 1 /\ \A x \in Ages \ {0} : g[x] = f[x]
    BY <2>2, <2>3
  <2>5. SumFunctionOnSet(g, 0 .. a) = SumFunctionOnSet(f, 0 .. a) + 1
    BY <2>4, SumWithOneMore
  <2>6. QED
    BY <1>2, <1>4, <2>1, <2>3, <2>5 DEF PassedSince
<1>5. CASE ~(k = i /\ ~RateExceeded(i, now))
  <2>1. passed'[k] = passed[k]
    BY <1>1, <1>3, <1>5
  <2>2. PassedSince(k, a)' = PassedSince(k, a)
    BY <2>1 DEF PassedSince
  <2>3. QED
    BY <1>2, <1>3, <1>5, <2>2
<1>6. QED
  BY <1>4, <1>5

\* A window is its start and its count.
LEMMA WindowFields ==
  ASSUME TypeInv, NEW i \in DOMAIN rateByIP
  PROVE  /\ rateByIP[i] = [start |-> rateByIP[i].start, count |-> rateByIP[i].count]
         /\ rateByIP[i].start \in Int /\ rateByIP[i].start >= 0 /\ rateByIP[i].count \in Nat \ {0}
         /\ i \in IPs
BY DEF TypeInv, TypeOK, Window, Times

\* An attempt keeps what bounds the rates.
LEMMA RateAttempt ==
  ASSUME TypeInv, RateInv, RateLimitPerMinute > 0, NEW h \in Handlers,
         pc[h] = "arrived", CountAttempt(peer[h], sampled[h]), clock' = clock,
         \A k \in Handlers : pc'[k] = "arrived" => pc[k] = "arrived" /\ sampled'[k] = sampled[k]
  PROVE  RateInv'
<1>1. PICK i \in IPs : i = peer[h]
  BY DEF TypeInv, HandlersWellFormed
<1>2. PICK now \in Times : now = sampled[h]
  BY DEF TypeInv, TypeOK
<1>3. /\ CountAttempt(i, now) /\ clock \in Int /\ now \in Int
      /\ now <= clock /\ clock - now <= MaxSkew
  BY <1>1, <1>2 DEF TypeInv, TypeOK, HandlersWellFormed, RateInv, WaitsAreShort, Times
<1>4. /\ i \in DOMAIN rateByIP' /\ rateByIP'[i] = Counted(i, now)
      /\ \A k \in DOMAIN rateByIP' : k # i => k \in DOMAIN rateByIP /\ rateByIP'[k] = rateByIP[k]
      /\ \A k \in DOMAIN rateByIP : k # i /\ k \notin DOMAIN rateByIP' =>
            now - rateByIP[k].start >= RateWindowTTL
  BY <1>3, AttemptWindows
<1> DEFINE one == IF Counted(i, now).count > RateLimitPerMinute THEN 0 ELSE 1
<1>5. \A a \in Ages : PassedSince(i, a)' = PassedSince(i, a) + one
  BY <1>3, AttemptPassed
<1>6. \A k \in IPs \ {i} : \A a \in Ages : PassedSince(k, a)' = PassedSince(k, a)
  <2>1. SUFFICES ASSUME NEW k \in IPs \ {i}, NEW a \in Ages
                 PROVE  PassedSince(k, a)' = PassedSince(k, a)
    OBVIOUS
  <2>2. PassedSince(k, a)' = PassedSince(k, a) + 0 /\ PassedSince(k, a) \in Nat
    BY <1>3, AttemptPassed, PassedType
  <2>3. QED
    BY <2>2
<1>7. ASSUME rateByIP'[i].start <= clock,
             \A d \in Ages : d = clock - rateByIP'[i].start =>
                 PassedSince(i, d)' >= LetThrough(rateByIP'[i].count),
             \A a \in 0 .. Minute - 1 : PassedSince(i, a)' <= Quota(clock, rateByIP'[i], a)
      PROVE  RateInv'
  <2>1. WaitsAreShort'
    BY <1>4, <1>7 DEF RateInv, WaitsAreShort
  <2>2. WindowsPassed'
    <3>1. ASSUME NEW k \in DOMAIN rateByIP', NEW d \in Ages, d = clock - rateByIP'[k].start
          PROVE  PassedSince(k, d)' >= LetThrough(rateByIP'[k].count)
      <4>1. CASE k # i
        <5>1. k \in DOMAIN rateByIP /\ rateByIP'[k] = rateByIP[k] /\ k \in IPs
          BY <1>4, <4>1, WindowFields
        <5>2. PassedSince(k, d) >= LetThrough(rateByIP[k].count)
          BY <3>1, <5>1 DEF RateInv, WindowsPassed
        <5>3. PassedSince(k, d)' = PassedSince(k, d)
          BY <1>6, <4>1, <5>1
        <5>4. QED
          BY <5>1, <5>2, <5>3
      <4>2. QED
        BY <1>7, <3>1, <4>1
    <3>2. QED
      BY <3>1 DEF WindowsPassed, PassedSince
  <2>3. WindowsBound'
    <3>1. SUFFICES ASSUME NEW k \in IPs, NEW a \in 0 .. Minute - 1
                   PROVE  PassedSince(k, a)' <= IF k \in DOMAIN rateByIP' THEN Quota(clock, rateByIP'[k], a)
                                                ELSE QuotaOfPruned(a)
      BY DEF WindowsBound
    <3>2. CASE k # i
      <4>1. a \in Ages /\ PassedSince(k, a) \in Nat
        BY PassedType, ClockAssumption DEF Ages
      <4>2. PassedSince(k, a)' = PassedSince(k, a)
        BY <1>6, <3>2, <4>1
      <4>3. PassedSince(k, a) <= IF k \in DOMAIN rateByIP THEN Quota(clock, rateByIP[k], a)
                                 ELSE QuotaOfPruned(a)
        BY DEF RateInv, WindowsBound
      <4>4. CASE k \in DOMAIN rateByIP /\ k \notin DOMAIN rateByIP'
        <5>1. PICK s \in Int : s = rateByIP[k].start
          BY <4>4, WindowFields
        <5>2. PICK n \in Nat : n = rateByIP[k].count
          BY <4>4, WindowFields
        <5>3. rateByIP[k] = [start |-> s, count |-> n] /\ now - s >= RateWindowTTL
          BY <1>4, <3>2, <4>4, <5>1, <5>2, WindowFields
        <5>4. Quota(clock, [start |-> s, count |-> n], a) <= QuotaOfPruned(a)
          BY <1>3, <5>3, QuotaPruned
        <5>5. Quota(clock, [start |-> s, count |-> n], a) \in Int /\ QuotaOfPruned(a) \in Int
          BY <1>3, LimitsAssumption, ClockAssumption
             DEF Quota, Within, LeastAge, LetThrough, QuotaOfPruned
        <5>6. QED
          BY <4>1, <4>2, <4>3, <4>4, <5>3, <5>4, <5>5
      <4>5. CASE ~(k \in DOMAIN rateByIP /\ k \notin DOMAIN rateByIP')
        BY <1>4, <3>2, <4>2, <4>3, <4>5
      <4>6. QED
        BY <4>4, <4>5
    <3>3. CASE k = i
      BY <1>4, <1>7, <3>3
    <3>4. QED
      BY <3>2, <3>3
  <2>4. QED
    BY <2>1, <2>2, <2>3 DEF RateInv
<1>8. CASE Live(i, now)
  <2>1. PICK s \in Int : s = rateByIP[i].start
    BY <1>8, WindowFields DEF Live
  <2>2. PICK n \in Nat : n = rateByIP[i].count
    BY <1>8, WindowFields DEF Live
  <2>3. /\ i \in DOMAIN rateByIP /\ rateByIP[i] = [start |-> s, count |-> n]
        /\ now - s < Minute /\ s <= clock
    BY <1>8, <2>1, <2>2, WindowFields DEF Live, RateInv, WaitsAreShort
  <2>4. rateByIP'[i] = [start |-> s, count |-> n + 1] /\ Counted(i, now).count = n + 1
    BY <1>4, <1>8, <2>3 DEF Counted
  <2>5. one = IF n + 1 > RateLimitPerMinute THEN 0 ELSE 1
    BY <2>4
  <2>6. ASSUME NEW d \in Ages, d = clock - s
        PROVE  PassedSince(i, d)' >= LetThrough(n + 1)
    <3>1. PassedSince(i, d) >= LetThrough(n) /\ PassedSince(i, d) \in Nat
      BY <2>3, <2>6, PassedType DEF RateInv, WindowsPassed
    <3>2. LetThrough(n + 1) = LetThrough(n) + one
      BY <2>5, LimitsAssumption DEF LetThrough
    <3>3. PassedSince(i, d)' = PassedSince(i, d) + one
      BY <1>5
    <3>4. LetThrough(n) \in Nat /\ one \in Nat
      BY LimitsAssumption DEF LetThrough
    <3>5. QED
      BY <3>1, <3>2, <3>3, <3>4
  <2>7. ASSUME NEW a \in 0 .. Minute - 1
        PROVE  PassedSince(i, a)' <= Quota(clock, [start |-> s, count |-> n + 1], a)
    <3>1. PassedSince(i, a) <= Quota(clock, [start |-> s, count |-> n], a)
      BY <2>3 DEF RateInv, WindowsBound
    <3>2. a \in Ages /\ PassedSince(i, a) \in Nat
      BY PassedType, ClockAssumption DEF Ages
    <3>3. Quota(clock, [start |-> s, count |-> n + 1], a)
              = Quota(clock, [start |-> s, count |-> n], a) + one
      <4>1. Quota(clock, [start |-> s, count |-> n + 1], a)
                = Quota(clock, [start |-> s, count |-> n], a)
                      + (IF n + 1 > RateLimitPerMinute THEN 0 ELSE 1)
        BY <1>3, <2>3, QuotaCounted, SMTT(30)
      <4>2. QED
        BY <2>5, <4>1, Zenon
    <3>4. PassedSince(i, a)' = PassedSince(i, a) + one
      BY <1>5, <3>2
    <3>5. Quota(clock, [start |-> s, count |-> n], a) \in Int /\ one \in Int
      BY <1>3, LimitsAssumption, ClockAssumption DEF Quota, Within, LeastAge, LetThrough
    <3>6. QED
      BY <3>1, <3>2, <3>3, <3>4, <3>5
  <2>8. QED
    BY <1>7, <2>3, <2>4, <2>6, <2>7
<1>9. CASE ~Live(i, now)
  <2>1. rateByIP'[i] = [start |-> now, count |-> 1] /\ Counted(i, now).count = 1 /\ one = 1
    BY <1>4, <1>9, LimitsAssumption DEF Counted
  <2>2. LetThrough(1) = 1
    BY LimitsAssumption DEF LetThrough
  <2>3. ASSUME NEW d \in Ages
        PROVE  PassedSince(i, d)' >= LetThrough(1)
    <3>1. PassedSince(i, d)' = PassedSince(i, d) + 1
      BY <1>5, <2>1
    <3>2. PassedSince(i, d) \in Nat
      BY PassedType
    <3>3. QED
      BY <2>2, <3>1, <3>2
  <2>4. ASSUME NEW a \in 0 .. Minute - 1
        PROVE  PassedSince(i, a)' <= Quota(clock, [start |-> now, count |-> 1], a)
    <3>1. a \in Ages /\ PassedSince(i, a) \in Nat
      BY PassedType, ClockAssumption DEF Ages
    <3>2. PassedSince(i, a)' = PassedSince(i, a) + 1
      BY <1>5, <2>1, <3>1
    <3>3. Quota(clock, [start |-> now, count |-> 1], a) \in Int /\ QuotaOfPruned(a) \in Int
      BY <1>3, LimitsAssumption, ClockAssumption
         DEF Quota, Within, LeastAge, LetThrough, QuotaOfPruned
    <3>4. CASE i \in DOMAIN rateByIP
      <4>1. PICK s \in Int : s = rateByIP[i].start
        BY <3>4, WindowFields
      <4>2. PICK n \in Nat : n = rateByIP[i].count
        BY <3>4, WindowFields
      <4>3. rateByIP[i] = [start |-> s, count |-> n] /\ now - s >= Minute
        BY <1>3, <1>9, <3>4, <4>1, <4>2, WindowFields, ClockAssumption DEF Live
      <4>4. PassedSince(i, a) <= Quota(clock, [start |-> s, count |-> n], a)
        BY <3>4, <4>3 DEF RateInv, WindowsBound
      <4>5. Quota(clock, [start |-> now, count |-> 1], a)
                >= Quota(clock, [start |-> s, count |-> n], a) + 1
        BY <1>3, <4>3, QuotaRestarted
      <4>6. Quota(clock, [start |-> s, count |-> n], a) \in Int
        BY <1>3, LimitsAssumption, ClockAssumption DEF Quota, Within, LeastAge, LetThrough
      <4>7. QED
        BY <3>1, <3>2, <3>3, <4>4, <4>5, <4>6
    <3>5. CASE i \notin DOMAIN rateByIP
      <4>1. PassedSince(i, a) <= QuotaOfPruned(a)
        BY <3>5 DEF RateInv, WindowsBound
      <4>2. Quota(clock, [start |-> now, count |-> 1], a) >= QuotaOfPruned(a) + 1
        BY <1>3, QuotaFirst
      <4>3. QED
        BY <3>1, <3>2, <3>3, <4>1, <4>2
    <3>6. QED
      BY <3>4, <3>5
  <2>5. QED
    BY <1>3, <1>7, <2>1, <2>3, <2>4
<1>10. QED
  BY <1>8, <1>9

\* Time keeps what bounds the rates: windows and attempts get older together.
LEMMA RateTick ==
  ASSUME TypeInv, RateInv, RateLimitPerMinute > 0, Tick
  PROVE  RateInv'
<1>1. /\ clock' = clock + 1 /\ clock \in Int /\ rateByIP' = rateByIP
      /\ pc' = pc /\ sampled' = sampled /\ sampled \in [Handlers -> Int]
      /\ \A h \in Handlers : pc[h] = "arrived" => clock - sampled[h] < MaxSkew
      /\ passed \in [IPs -> [Ages -> Nat]]
      /\ passed' = [i \in IPs |-> [a \in Ages |-> IF a = 0 THEN 0 ELSE passed[i][a - 1]]]
  BY DEF Tick, TypeInv, TypeOK, Times
<1>2. ASSUME NEW i \in IPs, NEW a \in Ages
      PROVE  /\ PassedSince(i, a) \in Nat
             /\ PassedSince(i, 0)' = 0
             /\ a + 1 \in Ages => PassedSince(i, a + 1)' = PassedSince(i, a)
  <2>1. PICK f \in [Ages -> Nat] : f = passed[i]
    BY <1>1
  <2>2. PICK g : g = passed'[i]
    OBVIOUS
  <2>3. g = [x \in Ages |-> IF x = 0 THEN 0 ELSE f[x - 1]]
    BY <1>1, <2>1, <2>2
  <2>4. /\ SumFunctionOnSet(f, 0 .. a) \in Nat
        /\ SumFunctionOnSet(g, 0 .. 0) = 0
        /\ a + 1 \in Ages => SumFunctionOnSet(g, 0 .. a + 1) = SumFunctionOnSet(f, 0 .. a)
    BY <2>3, SumOfOlder
  <2>5. QED
    BY <2>1, <2>2, <2>4 DEF PassedSince
<1>3. WaitsAreShort'
  <2>1. \A h \in Handlers : pc[h] = "arrived" => (clock + 1) - sampled[h] <= MaxSkew
    BY <1>1, ClockAssumption
  <2>2. \A i \in DOMAIN rateByIP : rateByIP[i].start <= clock + 1
    BY <1>1, WindowFields DEF RateInv, WaitsAreShort
  <2>3. QED
    BY <1>1, <2>1, <2>2 DEF WaitsAreShort
<1>4. WindowsPassed'
  <2>1. ASSUME NEW i \in DOMAIN rateByIP, NEW d \in Ages, d = (clock + 1) - rateByIP[i].start
        PROVE  PassedSince(i, d)' >= LetThrough(rateByIP[i].count)
    <3>1. PICK b : b = clock - rateByIP[i].start
      OBVIOUS
    <3>2. b \in Ages /\ b + 1 = d /\ i \in IPs
      <4>1. i \in IPs /\ rateByIP[i].start \in Int /\ rateByIP[i].start <= clock
        BY WindowFields DEF RateInv, WaitsAreShort
      <4>2. b \in Int /\ b >= 0 /\ b + 1 = d
        BY <1>1, <2>1, <3>1, <4>1
      <4>3. QED
        BY <4>1, <4>2, ClockAssumption DEF Ages
    <3>3. PassedSince(i, b) >= LetThrough(rateByIP[i].count)
      BY <3>1, <3>2 DEF RateInv, WindowsPassed
    <3>4. PassedSince(i, d)' = PassedSince(i, b)
      BY <1>2, <3>2
    <3>5. QED
      BY <3>3, <3>4
  <2>2. QED
    BY <1>1, <2>1 DEF WindowsPassed, PassedSince
<1>5. WindowsBound'
  <2>1. ASSUME NEW i \in IPs, NEW a \in 0 .. Minute - 1
        PROVE  PassedSince(i, a)' <= IF i \in DOMAIN rateByIP THEN Quota(clock + 1, rateByIP[i], a)
                                     ELSE QuotaOfPruned(a)
    <3>1. PICK b : b = a - 1
      OBVIOUS
    <3>2. CASE a # 0
      <4>1. b \in 0 .. Minute - 1 /\ b \in Ages /\ b + 1 = a /\ b + 1 \in Ages /\ b \in Nat
        BY <3>1, <3>2, ClockAssumption DEF Ages
      <4>2. PassedSince(i, a)' = PassedSince(i, b) /\ PassedSince(i, b) \in Nat
        BY <1>2, <4>1
      <4>3. CASE i \in DOMAIN rateByIP
        <5>1. PICK s \in Int : s = rateByIP[i].start
          BY <4>3, WindowFields
        <5>2. PICK n \in Nat : n = rateByIP[i].count
          BY <4>3, WindowFields
        <5>3. rateByIP[i] = [start |-> s, count |-> n]
          BY <4>3, <5>1, <5>2, WindowFields
        <5>4. PassedSince(i, b) <= Quota(clock, [start |-> s, count |-> n], b)
          BY <4>1, <4>3, <5>3 DEF RateInv, WindowsBound
        <5>5. Quota(clock + 1, [start |-> s, count |-> n], b + 1) = Quota(clock, [start |-> s, count |-> n], b)
          BY <1>1, <4>1, QuotaOlder
        <5>6. QED
          BY <4>1, <4>2, <4>3, <5>3, <5>4, <5>5
      <4>4. CASE i \notin DOMAIN rateByIP
        <5>1. PassedSince(i, b) <= QuotaOfPruned(b)
          BY <4>1, <4>4 DEF RateInv, WindowsBound
        <5>2. QuotaOfPruned(b + 1) >= QuotaOfPruned(b)
          BY <1>1, <4>1, QuotaOlder
        <5>3. QuotaOfPruned(b) \in Int /\ QuotaOfPruned(b + 1) \in Int
          BY LimitsAssumption DEF QuotaOfPruned, Within
        <5>4. QED
          BY <4>1, <4>2, <4>4, <5>1, <5>2, <5>3
      <4>5. QED
        BY <4>3, <4>4
    <3>3. CASE a = 0
      <4>1. PassedSince(i, a)' = 0
        BY <1>2, <3>3, ClockAssumption DEF Ages
      <4>2. QuotaOfPruned(a) >= 0
        BY LimitsAssumption DEF QuotaOfPruned, Within
      <4>3. ASSUME i \in DOMAIN rateByIP PROVE Quota(clock + 1, rateByIP[i], a) >= 0
        <5>1. rateByIP[i].count \in Nat
          BY <4>3, WindowFields
        <5>2. QED
          BY <5>1, LimitsAssumption DEF Quota, Within, LetThrough
      <4>4. QED
        BY <4>1, <4>2, <4>3
    <3>4. QED
      BY <3>2, <3>3
  <2>2. QED
    BY <1>1, <2>1 DEF WindowsBound, PassedSince
<1>6. QED
  BY <1>3, <1>4, <1>5 DEF RateInv

\* Every step keeps what bounds the rates.
LEMMA RateNext == TypeInv /\ RateInv /\ [Next]_vars => RateInv'
<1> SUFFICES ASSUME TypeInv, RateInv, [Next]_vars, RateLimitPerMinute > 0 PROVE RateInv'
  BY DEF RateInv
<1>1. CASE Tick
  BY <1>1, RateTick
<1>2. ASSUME UNCHANGED <<clock, rateByIP, passed>>,
             \A h \in Handlers : pc'[h] = "arrived" => clock - sampled'[h] <= MaxSkew
      PROVE  RateInv'
  BY <1>2 DEF RateInv, WaitsAreShort, WindowsPassed, WindowsBound, PassedSince
<1>3. /\ pc \in [Handlers -> {"idle", "arrived", "admitted"}] /\ sampled \in [Handlers -> Int]
      /\ clock \in Int
      /\ \A h \in Handlers : pc[h] = "arrived" => clock - sampled[h] <= MaxSkew
  BY DEF TypeInv, TypeOK, RateInv, WaitsAreShort, Times
<1>4. ASSUME NEW h \in Handlers, NEW i \in IPs, Arrive(h, i) PROVE RateInv'
  <2>1. clock - clock <= MaxSkew
    BY <1>3, ClockAssumption
  <2>2. \A k \in Handlers : pc'[k] = "arrived" => clock - sampled'[k] <= MaxSkew
    BY <1>3, <1>4, <2>1 DEF Arrive
  <2>3. QED
    BY <1>2, <1>4, <2>2 DEF Arrive, securityVars
<1>5. ASSUME NEW h \in Handlers, Release(h) PROVE RateInv'
  <2>1. \A k \in Handlers : pc'[k] = "arrived" => clock - sampled'[k] <= MaxSkew
    BY <1>3, <1>5 DEF Release, Return
  <2>2. QED
    BY <1>2, <1>5, <2>1 DEF Release
<1>6. ASSUME NEW h \in Handlers, Admit(h) \/ Reject(h) PROVE RateInv'
  <2>1. pc[h] = "arrived" /\ CountAttempt(peer[h], sampled[h]) /\ clock' = clock
    BY <1>6 DEF Admit, Reject
  <2>2. \A k \in Handlers : pc'[k] = "arrived" => pc[k] = "arrived" /\ sampled'[k] = sampled[k]
    BY <1>3, <1>6 DEF Admit, Reject, Return
  <2>3. QED
    BY <2>1, <2>2, RateAttempt
<1>7. CASE UNCHANGED vars
  BY <1>2, <1>3, <1>7 DEF vars, securityVars
<1>8. QED
  BY <1>1, <1>4, <1>5, <1>6, <1>7 DEF Next

\* Nothing has been let through at the start.
LEMMA RateInit == Init => RateInv
<1> SUFFICES ASSUME Init, RateLimitPerMinute > 0 PROVE RateInv
  BY DEF RateInv
<1>1. DOMAIN rateByIP = {} /\ passed = [i \in IPs |-> [a \in Ages |-> 0]]
  BY DEF Init
<1>2. WaitsAreShort /\ WindowsPassed
  BY <1>1 DEF Init, WaitsAreShort, WindowsPassed
<1>3. ASSUME NEW i \in IPs, NEW a \in 0 .. Minute - 1
      PROVE  PassedSince(i, a) = 0 /\ QuotaOfPruned(a) >= 0
  <2>1. a \in Nat /\ 0 .. a \subseteq Ages
    BY ClockAssumption DEF Ages
  <2>2. IsFiniteSet(0 .. a)
    BY <2>1, FS_Interval
  <2>3. \A x \in 0 .. a : passed[i][x] = 0
    BY <1>1, <2>1
  <2>4. PassedSince(i, a) = 0
    BY <2>2, <2>3, SumOfZeros DEF PassedSince
  <2>5. QED
    BY <2>4, LimitsAssumption DEF QuotaOfPruned, Within
<1>4. QED
  BY <1>1, <1>2, <1>3 DEF RateInv, WindowsBound

\* What the run counts in the last n ticks, as a sum up to an age.
LEMMA PassedLatelyIsSum ==
  ASSUME NEW i, NEW n \in Nat, n - 1 \in Ages
  PROVE  PassedLately(i, n) = PassedSince(i, n - 1)
<1>1. Ages \cap (0 .. n - 1) = 0 .. n - 1
  BY ClockAssumption DEF Ages
<1>2. QED
  BY <1>1 DEF PassedLately, PassedSince

\* No address is let through more than twice its limit in any minute, three times
\* when handlers may wait for the mutex, for any limits, clients and clocks: a
\* window of an old sampled time included.
THEOREM RateBounded == Spec => []RateBurstBound
<1>1. ASSUME TypeInv, RateInv PROVE RateBurstBound
  <2>1. SUFFICES ASSUME RateLimitPerMinute > 0, NEW i \in IPs
                 PROVE  PassedLately(i, Minute) <= (IF MaxSkew = 0 THEN 2 ELSE 3) * RateLimitPerMinute
    BY DEF RateBurstBound
  <2>2. PICK a \in 0 .. Minute - 1 : a = Minute - 1
    BY ClockAssumption
  <2>3. a \in Ages /\ PassedLately(i, Minute) = PassedSince(i, a) /\ PassedSince(i, a) \in Nat
    BY <1>1, <2>2, PassedLatelyIsSum, PassedType, ClockAssumption DEF Ages
  <2>4. PassedSince(i, a) <= IF i \in DOMAIN rateByIP THEN Quota(clock, rateByIP[i], a) ELSE QuotaOfPruned(a)
    BY <1>1, <2>1 DEF RateInv, WindowsBound
  <2>5. PICK L \in Nat : L = RateLimitPerMinute
    BY LimitsAssumption
  <2>6. CASE i \in DOMAIN rateByIP
    <3>1. PICK s \in Int : s = rateByIP[i].start
      BY <1>1, <2>6, WindowFields
    <3>2. PICK n \in Nat : n = rateByIP[i].count
      BY <1>1, <2>6, WindowFields
    <3>3. rateByIP[i] = [start |-> s, count |-> n] /\ s <= clock /\ clock \in Int
      BY <1>1, <2>1, <2>6, <3>1, <3>2, WindowFields DEF RateInv, WaitsAreShort, TypeInv, TypeOK, Times
    <3>4. LetThrough(n) \in Nat /\ LetThrough(n) <= L
      BY <2>5 DEF LetThrough
    <3>5. Quota(clock, [start |-> s, count |-> n], a) <= 3 * L
      BY <2>5, <3>4 DEF Quota, Within
    <3>6. MaxSkew = 0 => ~(LeastAge(clock, s) + Minute <= a)
      BY <2>2, <3>3, ClockAssumption DEF LeastAge
    <3>7. MaxSkew = 0 => Quota(clock, [start |-> s, count |-> n], a) <= 2 * L
      BY <2>5, <3>4, <3>6 DEF Quota, Within
    <3>8. Quota(clock, [start |-> s, count |-> n], a) \in Int
      BY <2>5, <3>4 DEF Quota, Within
    <3>9. QED
      BY <2>3, <2>4, <2>5, <2>6, <3>3, <3>5, <3>7, <3>8
  <2>7. CASE i \notin DOMAIN rateByIP
    <3>1. QuotaOfPruned(a) <= L
      BY <2>5 DEF QuotaOfPruned, Within
    <3>2. QuotaOfPruned(a) \in Int
      BY <2>5 DEF QuotaOfPruned, Within
    <3>3. QED
      BY <2>3, <2>4, <2>5, <2>7, <3>1, <3>2
  <2>8. QED
    BY <2>6, <2>7
<1>2. Init => TypeInv /\ RateInv
  BY TypeInit, RateInit
<1>3. TypeInv /\ RateInv /\ [Next]_vars => (TypeInv /\ RateInv)'
  BY TypeNext, RateNext
<1>4. QED
  BY <1>1, <1>2, <1>3, PTL DEF Spec

\* A handler that is refused by the rate check is so because its address had its
\* whole quota let through since the minute before the time the handler sampled.
LEMMA RateRefusal ==
  ASSUME TypeInv, RateInv, NEW h \in Handlers, pc[h] = "arrived",
         RateExceeded(peer[h], sampled[h])
  PROVE  /\ RateLimitPerMinute > 0
         /\ PassedLately(peer[h], clock - sampled[h] + Minute) >= RateLimitPerMinute
<1>1. PICK i \in IPs : i = peer[h]
  BY DEF TypeInv, HandlersWellFormed
<1>2. PICK now \in Int : now = sampled[h]
  BY DEF TypeInv, TypeOK, Times
<1>3. /\ RateLimitPerMinute > 0 /\ Counted(i, now).count > RateLimitPerMinute
      /\ clock \in Int /\ now <= clock
  BY <1>1, <1>2 DEF RateExceeded, TypeInv, TypeOK, HandlersWellFormed, Times
<1>4. clock - now <= MaxSkew
  BY <1>2, <1>3 DEF RateInv, WaitsAreShort
<1>5. Live(i, now)
  BY <1>3, LimitsAssumption DEF Counted
<1>6. PICK s \in Int : s = rateByIP[i].start
  BY <1>5, WindowFields DEF Live
<1>7. PICK n \in Nat : n = rateByIP[i].count
  BY <1>5, WindowFields DEF Live
<1>8. i \in DOMAIN rateByIP /\ now - s < Minute /\ s <= clock /\ n + 1 > RateLimitPerMinute
  BY <1>3, <1>5, <1>6, <1>7, WindowFields DEF Live, Counted, RateInv, WaitsAreShort
<1>9. PICK d : d = clock - s
  OBVIOUS
<1>10. PICK e : e = (clock - now + Minute) - 1
  OBVIOUS
<1>11. d \in Ages /\ e \in Ages /\ d <= e /\ clock - now + Minute \in Nat
  BY <1>3, <1>4, <1>8, <1>9, <1>10, ClockAssumption DEF Ages
<1>12. PassedSince(i, d) >= LetThrough(n) /\ LetThrough(n) = RateLimitPerMinute
  BY <1>3, <1>6, <1>7, <1>8, <1>9, <1>11, LimitsAssumption DEF RateInv, WindowsPassed, LetThrough
<1>13. PassedSince(i, d) <= PassedSince(i, e)
  <2>1. 0 .. e \subseteq Ages /\ 0 .. d \in SUBSET (0 .. e) /\ e \in Int
    BY <1>11, ClockAssumption DEF Ages
  <2>2. IsFiniteSet(0 .. e)
    BY <2>1, FS_Interval
  <2>3. \A x \in 0 .. e : passed[i][x] \in Nat
    BY <2>1 DEF TypeInv, TypeOK
  <2>4. QED
    BY <2>1, <2>2, <2>3, SumMonotone DEF PassedSince
<1>14. PassedLately(i, clock - now + Minute) = PassedSince(i, e)
  BY <1>10, <1>11, PassedLatelyIsSum
<1>15. PassedSince(i, d) \in Nat /\ PassedSince(i, e) \in Nat
  BY <1>11, PassedType
<1>16. QED
  BY <1>1, <1>2, <1>3, <1>12, <1>13, <1>14, <1>15, LimitsAssumption

\* Nobody is refused who has a quota left and finds room: the step that refuses
\* finds the quota let through, the server full or the address's share used up.
THEOREM RefusalsAreDue == Spec => RefusedOnlyAtALimit
<1>1. ASSUME Inside, RateInv, [Next]_vars, NEW h \in Handlers, pc[h] = "arrived", pc'[h] = "idle"
      PROVE  \/ /\ RateLimitPerMinute > 0
                /\ PassedLately(peer[h], clock - sampled[h] + Minute) >= RateLimitPerMinute
             \/ MaxConnections > 0 /\ Cardinality(Leases) >= MaxConnections
             \/ /\ MaxConnectionsPerIP > 0
                /\ Cardinality(LeasesOf(peer[h])) >= MaxConnectionsPerIP
  <2>1. pc \in [Handlers -> {"idle", "arrived", "admitted"}] /\ peer[h] \in IPs
    BY <1>1 DEF Inside, TypeInv, TypeOK, HandlersWellFormed
  <2>2. Reject(h)
    BY <1>1, <2>1 DEF Next, Tick, Arrive, Admit, Reject, Release, Return, vars, securityVars
  <2>3. RateExceeded(peer[h], sampled[h]) \/ PoolFull \/ PeerFull(peer[h])
    BY <2>2 DEF Reject, Refused
  <2>4. active = Cardinality(Leases) /\ Lookup(activeByIP, peer[h]) = Cardinality(LeasesOf(peer[h]))
    BY <1>1, <2>1, LookupCounts DEF Inside, CountersMatchLeases
  <2>5. QED
    BY <1>1, <2>3, <2>4, RateRefusal DEF PoolFull, PeerFull, Inside
<1>2. Init => Inside /\ RateInv
  BY TypeInit, CountersInit, RateInit DEF Inside
<1>3. Inside /\ RateInv /\ [Next]_vars => (Inside /\ RateInv)'
  BY TypeNext, CountersNext, RateNext DEF Inside
<1>4. Inside /\ RateInv /\ [Next]_vars =>
        \A h \in Handlers :
          pc[h] = "arrived" /\ pc'[h] = "idle" =>
              \/ /\ RateLimitPerMinute > 0
                 /\ PassedLately(peer[h], clock - sampled[h] + Minute) >= RateLimitPerMinute
              \/ MaxConnections > 0 /\ Cardinality(Leases) >= MaxConnections
              \/ /\ MaxConnectionsPerIP > 0
                 /\ Cardinality(LeasesOf(peer[h])) >= MaxConnectionsPerIP
  BY <1>1
<1>5. QED
  BY <1>2, <1>3, <1>4, PTL DEF Spec, RefusedOnlyAtALimit
=============================================================================

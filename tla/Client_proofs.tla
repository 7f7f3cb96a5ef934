--------------------------- MODULE Client_proofs ---------------------------
(***************************************************************************)
(* Theorems about the client (cmd/client, internal/client/tunnel.go), for  *)
(* any number of connections or listeners, any retries and delays; about   *)
(* its UDP listener, for any number of sources and sessions and any of its *)
(* timeouts; and about the results of road-proxy udp-check (cmd/road/      *)
(* udp_check.go), for any number of players, pings and faults.             *)
(***************************************************************************)
EXTENDS ClientTunnel, UDPSessionTable, UDPCheck, SequenceTheorems, FiniteSetTheorems, TLAPS

-----------------------------------------------------------------------------
(* The client.                                                             *)

\* A dial: what has been tried, what is waited for, and what it left behind.
Dial == [state : {"none", "handshake", "waiting"}, attempt : Nat, delay : Nat, live : BOOLEAN,
         dials : Nat, late : Nat]

\* The types TypeOK states, and those of the dials and of the delays.
ClientTypeOK ==
  /\ TypeOK
  /\ network \in {"tcp", "udp"} /\ initial \in Nat
  /\ dial \in [Workers -> Dial]
  /\ socket \in [Workers -> {"none", "open", "closed"}]
  /\ pumpErr \in [Workers -> Nat]

\* A worker that has a dial is in it, and no worker has begun before its listener has.
DialsAreDialing ==
  /\ \A w \in Workers : dial[w].state # "none" => worker[w] = "dialing"
  /\ main \in {"preflight", "tcp", "udp"} => \A w \in Workers : worker[w] = "none"

\* A delay is begun only while the context is not done, so every handshake
\* before it was begun in time.
WaitingInTime ==
  \A w \in Workers : /\ dial[w].late > 0 => ContextDone
                     /\ dial[w].state = "waiting" => dial[w].late = 0

LateInv == ClientTypeOK /\ DialsAreDialing /\ WaitingInTime /\ OneLateHandshake

\* Ctrl+C ends the group; until its first result is in nothing else does, and
\* a socket is closed only after the end.
GroupEndsForAReason ==
  /\ cancelled => groupDone
  /\ groupDone => cancelled \/ main \in {"drain", "returned"}
  /\ \A w \in Workers : socket[w] = "closed" => groupDone

\* The recorder is open while the group runs and closed when it has ended.
RecorderFollows ==
  /\ main \in {"first", "drain"} <=> recorder = "open"
  /\ recorder = "closed" => main = "returned"

\* What the listeners sent is true, and so is the first of it, the result.
ResultsAreTrue ==
  /\ \A i \in 1 .. Len(errCh) : /\ errCh[i] = "nil" => groupDone
                                /\ errCh[i] = "error" => failedAt # {}
  /\ (main = "drain" \/ recorder = "closed") =>
        (result = "nil" => cancelled) /\ (result = "error" => failedAt # {})

GroupInv ==
  /\ ClientTypeOK /\ DialsAreDialing
  /\ GroupEndsForAReason /\ RecorderFollows /\ ResultsAreTrue
  /\ GroupOutlivesListeners

-----------------------------------------------------------------------------
(* Types. *)

\* A dial that goes on is a dial, whose late handshakes are one more if the
\* context is done.
LEMMA HandshakeIsDial ==
  ASSUME NEW d \in Dial, NEW attempt \in Nat, NEW delay \in Nat
  PROVE  /\ Handshake(d, attempt, delay) \in Dial
         /\ Handshake(d, attempt, delay).state = "handshake"
         /\ Handshake(d, attempt, delay).late = IF ContextDone THEN d.late + 1 ELSE d.late
<1>1. (IF attempt = 1 THEN d.dials + 1 ELSE d.dials) \in Nat
  BY DEF Dial
<1>2. (IF ContextDone THEN d.late + 1 ELSE d.late) \in Nat
  BY DEF Dial
<1>3. (~ ContextDone) \in BOOLEAN
  OBVIOUS
<1>4. QED
  BY <1>1, <1>2, <1>3 DEF Handshake, Dial

\* A dial that is over is a dial, with the late handshakes it had.
LEMMA OverIsDial ==
  ASSUME NEW d \in Dial PROVE Over(d) \in Dial /\ Over(d).state = "none" /\ Over(d).late = d.late
BY DEF Over, Dial

\* A new dial begins one handshake, in time or not.
LEMMA StartedDial ==
  ASSUME ClientTypeOK, NEW w \in Workers, StartDial(w)
  PROVE  /\ dial' \in [Workers -> Dial]
         /\ dial'[w].state = "handshake" /\ dial'[w].late = IF ContextDone THEN 1 ELSE 0
         /\ \A v \in Workers : v # w => dial'[v] = dial[v]
<1>1. FirstDelay \in Nat
  BY DEF FirstDelay, Max2, ClientTypeOK
<1> DEFINE fresh == [dial[w] EXCEPT !.late = 0]
           d == Handshake(fresh, 1, FirstDelay)
<1>2. fresh \in Dial /\ fresh.late = 0
  BY DEF ClientTypeOK, Dial
<1>3. dial' = [dial EXCEPT ![w] = d]
  BY DEF StartDial
<1> HIDE DEF fresh
<1>4. /\ d \in Dial /\ d.state = "handshake"
      /\ d.late = IF ContextDone THEN fresh.late + 1 ELSE fresh.late
  BY <1>1, <1>2, HandshakeIsDial
<1> HIDE DEF d
<1>5. QED
  BY <1>2, <1>3, <1>4 DEF ClientTypeOK

\* The next handshake of a dial that has waited.
LEMMA RetriedDial ==
  ASSUME ClientTypeOK, NEW w \in Workers, DelayOver(w)
  PROVE  /\ dial' \in [Workers -> Dial]
         /\ dial'[w].state = "handshake"
         /\ dial'[w].late = IF ContextDone THEN dial[w].late + 1 ELSE dial[w].late
         /\ \A v \in Workers : v # w => dial'[v] = dial[v]
<1>1. dial[w] \in Dial /\ dial[w].attempt + 1 \in Nat
  BY DEF ClientTypeOK, Dial
<1>2. Min2(dial[w].delay * 2, LongestDelay) \in Nat
  BY DelaysAssumption DEF ClientTypeOK, Dial, Min2, LongestDelay, Max2, FirstDelay
<1> DEFINE d == Handshake(dial[w], dial[w].attempt + 1, Min2(dial[w].delay * 2, LongestDelay))
<1>3. d \in Dial /\ d.state = "handshake"
      /\ d.late = IF ContextDone THEN dial[w].late + 1 ELSE dial[w].late
  BY <1>1, <1>2, HandshakeIsDial
<1>4. dial' = [dial EXCEPT ![w] = d]
  BY DEF DelayOver
<1> HIDE DEF d
<1>5. QED
  BY <1>3, <1>4 DEF ClientTypeOK

\* A dial that ends, or that waits.
LEMMA EndedDial ==
  ASSUME ClientTypeOK, NEW w \in Workers, DialOver(w)
  PROVE  /\ dial' \in [Workers -> Dial]
         /\ dial'[w].state = "none" /\ dial'[w].late = dial[w].late
         /\ \A v \in Workers : v # w => dial'[v] = dial[v]
<1>1. dial[w] \in Dial
  BY DEF ClientTypeOK
<1>2. Over(dial[w]) \in Dial /\ Over(dial[w]).state = "none" /\ Over(dial[w]).late = dial[w].late
  BY <1>1, OverIsDial
<1>3. QED
  BY <1>2 DEF DialOver, ClientTypeOK

\* A dial that waits keeps everything else.
LEMMA WaitingDial ==
  ASSUME ClientTypeOK, NEW w \in Workers, dial' = [dial EXCEPT ![w].state = "waiting"]
  PROVE  /\ dial' \in [Workers -> Dial]
         /\ dial'[w].state = "waiting" /\ dial'[w].late = dial[w].late
         /\ \A v \in Workers : v # w => dial'[v] = dial[v]
BY DEF ClientTypeOK, Dial

\* What a listener sends comes after what was sent.
LEMMA Sent ==
  ASSUME errCh \in Seq({"nil", "error"}), NEW r \in {"nil", "error"}, SendResult(r)
  PROVE  /\ errCh' \in Seq({"nil", "error"})
         /\ Len(errCh) \in Nat
         /\ \A i \in 1 .. Len(errCh') : (i \in 1 .. Len(errCh) /\ errCh'[i] = errCh[i]) \/ errCh'[i] = r
<1>1. errCh' = Append(errCh, r)
  BY DEF SendResult
<1>2. QED
  BY <1>1, AppendProperties, LenProperties

\* What Start reads is the first that was sent.
LEMMA Heard ==
  ASSUME errCh \in Seq({"nil", "error"}), errCh # <<>>
  PROVE  /\ Head(errCh) \in {"nil", "error"} /\ Head(errCh) = errCh[1]
         /\ Tail(errCh) \in Seq({"nil", "error"})
         /\ Len(errCh) \in Nat \ {0}
         /\ \A i \in 1 .. Len(Tail(errCh)) : i + 1 \in 1 .. Len(errCh) /\ Tail(errCh)[i] = errCh[i + 1]
<1>1. Len(errCh) \in Nat \ {0}
  BY EmptySeq, LenProperties
<1>2. Len(Tail(errCh)) = Len(errCh) - 1
  BY HeadTailProperties
<1>3. QED
  BY <1>1, <1>2, HeadTailProperties

\* Types hold in the initial states.
LEMMA ClientTypeInit == Init => ClientTypeOK
<1> SUFFICES ASSUME Init PROVE ClientTypeOK
  OBVIOUS
<1>1. dial \in [Workers -> Dial]
  BY DEF Init, NoDial, Dial
<1>2. /\ worker \in [Workers -> {"none", "binding", "serving", "dialing", "pumping", "awaiting",
                                 "ended", "returned"}]
      /\ socket \in [Workers -> {"none", "open", "closed"}]
      /\ pumpErr \in [Workers -> Nat] /\ \A w \in Workers : pumpErr[w] \in 0 .. ErrChCap
  BY DEF Init, ErrChCap
<1>3. errCh \in Seq({"nil", "error"}) /\ initial \in Nat /\ network \in {"tcp", "udp"}
  BY DelaysAssumption, NetworkAssumption DEF Init
<1>4. QED
  BY <1>1, <1>2, <1>3 DEF Init, ClientTypeOK, TypeOK

\* Every step keeps the types.
LEMMA ClientTypeStep ==
  ASSUME ClientTypeOK, [Next]_vars PROVE ClientTypeOK'
<1> USE DEF ClientTypeOK, TypeOK, mainVars, pumpVars, ErrChCap
<1>1. CASE UNCHANGED vars
  BY <1>1 DEF vars
<1>2. CASE Preflight
  BY <1>2 DEF Preflight, Returns
<1>2a. CASE Cancel
  BY <1>2a DEF Cancel
<1>3. CASE ListenTCP \/ CloseTCP \/ AcceptEnds
  BY <1>3 DEF ListenTCP, CloseTCP, AcceptEnds, Returns
<1>4. CASE SetupUDP
  BY <1>4 DEF SetupUDP, Returns
<1>5. CASE FirstResult \/ OtherResult \/ GroupEnds
  BY <1>5, Heard DEF FirstResult, OtherResult, AfterFirst, GroupEnds
<1>6. ASSUME NEW w \in Workers, DialFails(w) PROVE ClientTypeOK'
  <2>1. dial' \in [Workers -> Dial]
    BY <1>6, EndedDial, WaitingDial DEF DialFails
  <2>2. QED
    BY <1>6, <2>1 DEF DialFails, AfterFailure
<1>7. ASSUME NEW w \in Workers, DelayOver(w) PROVE ClientTypeOK'
  <2>1. dial' \in [Workers -> Dial]
    BY <1>7, RetriedDial
  <2>2. QED
    BY <1>7, <2>1 DEF DelayOver
<1>8. ASSUME NEW w \in Workers, DelayCancelled(w) \/ DialOkTCP(w) \/ DialOkUDP(w) PROVE ClientTypeOK'
  <2>1. dial' \in [Workers -> Dial]
    BY <1>8, EndedDial DEF DelayCancelled, DialOkTCP, DialOkUDP
  <2>2. QED
    BY <1>8, <2>1 DEF DelayCancelled, DialOkTCP, DialOkUDP, AfterFailure
<1>9. ASSUME NEW w \in Workers, NewSource(w) \/ Accept(w) PROVE ClientTypeOK'
  <2>1. dial' \in [Workers -> Dial]
    BY <1>9, StartedDial DEF NewSource, Accept
  <2>2. QED
    BY <1>9, <2>1 DEF NewSource, Accept
<1>10. ASSUME NEW w \in Workers, Bind(w) \/ CloseUDP(w) \/ ListenerEnds(w) PROVE ClientTypeOK'
  <2>1. errCh' \in Seq({"nil", "error"})
    BY <1>10, Sent DEF Bind, CloseUDP, ListenerEnds
  <2>2. QED
    BY <1>10, <2>1 DEF Bind, CloseUDP, ListenerEnds
<1>11. ASSUME NEW w \in Workers, Pump(w) PROVE ClientTypeOK'
  <2>1. CASE PingFails(w) \/ PingStops(w)
    <3>1. pumpErr' \in [Workers -> Nat] /\ \A v \in Workers : pumpErr'[v] \in 0 .. 3
      BY <2>1, SMTT(30) DEF PingFails, Reported, PingStops
    <3>2. UNCHANGED <<mainVars, socket, worker, dial>>
      BY <2>1 DEF PingFails, PingStops
    <3>3. QED
      BY <3>1, <3>2
  <2>2. CASE FirstError(w) \/ SecondError(w)
    <3>1. pumpErr[w] \in 1 .. 3 /\ pumpErr' = [pumpErr EXCEPT ![w] = pumpErr[w] - 1]
      BY <2>2 DEF FirstError, SecondError
    <3>2. pumpErr[w] - 1 \in 0 .. 3
      BY <3>1
    <3>3. pumpErr' \in [Workers -> Nat] /\ \A v \in Workers : pumpErr'[v] \in 0 .. 3
      BY <3>1, <3>2
    <3>4. QED
      BY <2>2, <3>3 DEF FirstError, SecondError
  <2>3. ASSUME NEW c \in Copiers, CopierFails(w, c) PROVE ClientTypeOK'
    BY <2>3 DEF CopierFails
  <2>4. QED
    BY <1>11, <2>1, <2>2, <2>3 DEF Pump
<1>12. ASSUME NEW w \in Workers, Environment(w) PROVE ClientTypeOK'
  BY <1>12 DEF Environment, Stall, Resume, Break
<1>13. QED
  BY <1>1, <1>2, <1>2a, <1>3, <1>4, <1>5, <1>6, <1>7, <1>8, <1>9, <1>10, <1>11, <1>12
  DEF Next, Start, Dialing, Listener

-----------------------------------------------------------------------------
(* The dials. *)

\* Every step keeps the dials to the workers that are in one.
LEMMA DialsStep ==
  ASSUME ClientTypeOK, DialsAreDialing, [Next]_vars PROVE DialsAreDialing'
<1> USE DEF DialsAreDialing, mainVars, pumpVars
<1> worker \in [Workers -> {"none", "binding", "serving", "dialing", "pumping", "awaiting",
                            "ended", "returned"}]
  BY DEF ClientTypeOK, TypeOK
<1>1. CASE UNCHANGED vars
  BY <1>1 DEF vars
<1>2. CASE Preflight \/ Cancel
  BY <1>2 DEF Preflight, Cancel, Returns
<1>3. CASE ListenTCP \/ CloseTCP \/ AcceptEnds
  BY <1>3 DEF ListenTCP, CloseTCP, AcceptEnds, Returns
<1>4. CASE SetupUDP
  BY <1>4 DEF SetupUDP, Returns
<1>5. CASE FirstResult \/ OtherResult \/ GroupEnds
  BY <1>5 DEF FirstResult, OtherResult, GroupEnds
<1>6. ASSUME NEW w \in Workers, DialFails(w) PROVE DialsAreDialing'
  BY <1>6, EndedDial, WaitingDial DEF DialFails
<1>7. ASSUME NEW w \in Workers, DelayOver(w) PROVE DialsAreDialing'
  BY <1>7, RetriedDial DEF DelayOver
<1>8. ASSUME NEW w \in Workers, DelayCancelled(w) \/ DialOkTCP(w) \/ DialOkUDP(w)
      PROVE  DialsAreDialing'
  BY <1>8, EndedDial DEF DelayCancelled, DialOkTCP, DialOkUDP
<1>9. ASSUME NEW w \in Workers, NewSource(w) \/ Accept(w) PROVE DialsAreDialing'
  BY <1>9, StartedDial DEF NewSource, Accept
<1>10. ASSUME NEW w \in Workers, Bind(w) \/ CloseUDP(w) \/ ListenerEnds(w) PROVE DialsAreDialing'
  BY <1>10 DEF Bind, CloseUDP, ListenerEnds
<1>11. ASSUME NEW w \in Workers, Pump(w) PROVE DialsAreDialing'
  BY <1>11 DEF Pump, CopierFails, PingFails, PingStops, FirstError, SecondError
<1>12. ASSUME NEW w \in Workers, Environment(w) PROVE DialsAreDialing'
  BY <1>12 DEF Environment, Stall, Resume, Break
<1>13. QED
  BY <1>1, <1>2, <1>3, <1>4, <1>5, <1>6, <1>7, <1>8, <1>9, <1>10, <1>11, <1>12
  DEF Next, Start, Dialing, Listener

\* A context that is done stays done.
LEMMA ContextStaysDone == ASSUME [Next]_vars, ContextDone PROVE ContextDone'
<1> USE DEF ContextDone, mainVars, pumpVars
<1>1. network' = network
  BY DEF Next, vars, Start, Dialing, Listener, Pump, Environment, Preflight, Cancel, ListenTCP, CloseTCP,
         AcceptEnds, SetupUDP, FirstResult, OtherResult, GroupEnds, DialFails, DelayOver,
         DelayCancelled, DialOkTCP, DialOkUDP, Bind, CloseUDP, NewSource, ListenerEnds, Accept,
         CopierFails, PingFails, PingStops, FirstError, SecondError, Stall, Resume, Break
<1>2. (cancelled' = cancelled \/ cancelled') /\ (groupDone' = groupDone \/ groupDone')
  BY DEF Next, vars, Start, Dialing, Listener, Pump, Environment, Preflight, Cancel, ListenTCP, CloseTCP,
         AcceptEnds, SetupUDP, FirstResult, OtherResult, GroupEnds, DialFails, DelayOver,
         DelayCancelled, DialOkTCP, DialOkUDP, Bind, CloseUDP, NewSource, ListenerEnds, Accept,
         CopierFails, PingFails, PingStops, FirstError, SecondError, Stall, Resume, Break
<1>3. QED
  BY <1>1, <1>2

\* Every step keeps what the dials' waits promise.
LEMMA LateInvStep == LateInv /\ [Next]_vars => LateInv'
<1> SUFFICES ASSUME LateInv, [Next]_vars PROVE (WaitingInTime /\ OneLateHandshake)'
  BY ClientTypeStep, DialsStep DEF LateInv
<1>1. ClientTypeOK /\ (ContextDone => ContextDone')
  BY ContextStaysDone DEF LateInv
<1>2. \A w \in Workers : dial[w].late \in Nat
  BY <1>1 DEF ClientTypeOK, Dial
<1> USE DEF LateInv, WaitingInTime, OneLateHandshake
<1>3. CASE dial' = dial
  BY <1>1, <1>3
<1>4. ASSUME NEW w \in Workers, DialFails(w) PROVE (WaitingInTime /\ OneLateHandshake)'
  <2>1. CASE DialOver(w)
    BY <1>1, <2>1, EndedDial
  <2>2. CASE dial' = [dial EXCEPT ![w].state = "waiting"] /\ ~ ContextDone
    BY <1>1, <1>2, <2>2, WaitingDial
  <2>3. QED
    BY <1>4, <2>1, <2>2 DEF DialFails, Retried
<1>5. ASSUME NEW w \in Workers, DelayOver(w) PROVE (WaitingInTime /\ OneLateHandshake)'
  <2>1. dial[w].late = 0
    BY <1>5 DEF DelayOver
  <2>2. QED
    BY <1>1, <1>5, <2>1, RetriedDial
<1>6. ASSUME NEW w \in Workers, DelayCancelled(w) \/ DialOkTCP(w) \/ DialOkUDP(w)
      PROVE  (WaitingInTime /\ OneLateHandshake)'
  BY <1>1, <1>6, EndedDial DEF DelayCancelled, DialOkTCP, DialOkUDP
<1>7. ASSUME NEW w \in Workers, NewSource(w) \/ Accept(w)
      PROVE  (WaitingInTime /\ OneLateHandshake)'
  BY <1>1, <1>7, StartedDial DEF NewSource, Accept
<1>8. \/ dial' = dial
      \/ \E w \in Workers : DialFails(w) \/ DelayOver(w) \/ DelayCancelled(w) \/ DialOkTCP(w)
                              \/ DialOkUDP(w) \/ NewSource(w) \/ Accept(w)
  BY DEF Next, vars, mainVars, pumpVars, Start, Dialing, Listener, Pump, Environment, Preflight,
         Cancel, ListenTCP, CloseTCP, AcceptEnds, SetupUDP, FirstResult, OtherResult, GroupEnds,
         Bind, CloseUDP, ListenerEnds, CopierFails, PingFails, PingStops, FirstError, SecondError,
         Stall, Resume, Break
<1>9. QED
  BY <1>3, <1>4, <1>5, <1>6, <1>7, <1>8

\* However many retries are configured and whenever Ctrl+C comes, a dial begins
\* at most one handshake after it (dialWebSocketWithRetry).
THEOREM OneHandshakeIsLate == Spec => []OneLateHandshake
<1>1. Init => LateInv
  <2> SUFFICES ASSUME Init PROVE LateInv
    OBVIOUS
  <2>1. \A w \in Workers : dial[w] = NoDial /\ worker[w] = "none"
    BY DEF Init
  <2>2. QED
    BY <2>1, ClientTypeInit DEF LateInv, DialsAreDialing, WaitingInTime, OneLateHandshake, NoDial
<1>2. LateInv => OneLateHandshake
  BY DEF LateInv
<1>3. QED
  BY <1>1, <1>2, LateInvStep, PTL DEF Spec

-----------------------------------------------------------------------------
(* The UDP group. *)

\* Every step keeps what the group's end, its recorder and its results promise.
LEMMA GroupInvStep == GroupInv /\ [Next]_vars => GroupInv'
<1> SUFFICES ASSUME GroupInv, [Next]_vars
             PROVE  (GroupEndsForAReason /\ RecorderFollows /\ ResultsAreTrue /\ GroupOutlivesListeners)'
  BY ClientTypeStep, DialsStep DEF GroupInv
<1> DEFINE Goal == (GroupEndsForAReason /\ RecorderFollows /\ ResultsAreTrue /\ GroupOutlivesListeners)'
<1>a. errCh \in Seq({"nil", "error"}) /\ result \in {"none", "nil", "error"}
  BY DEF GroupInv, ClientTypeOK, TypeOK
<1>b. /\ socket \in [Workers -> {"none", "open", "closed"}]
      /\ worker \in [Workers -> {"none", "binding", "serving", "dialing", "pumping", "awaiting",
                                 "ended", "returned"}]
  BY DEF GroupInv, ClientTypeOK, TypeOK
<1> USE DEF GroupInv, GroupEndsForAReason, RecorderFollows, ResultsAreTrue, GroupOutlivesListeners,
            DialsAreDialing, mainVars, pumpVars
<1>2. CASE Preflight
  <2>1. network \in {"tcp", "udp"}
    BY DEF ClientTypeOK
  <2>2. QED
    BY <1>2, <2>1 DEF Preflight, Returns
<1>3. CASE Cancel
  BY <1>3 DEF Cancel
<1>4. CASE ListenTCP \/ AcceptEnds
  BY <1>4, <1>b DEF ListenTCP, AcceptEnds, Returns
<1>5. CASE CloseTCP
  BY <1>5 DEF CloseTCP
<1>6. CASE SetupUDP
  BY <1>6, <1>b DEF SetupUDP, Returns
<1>7. CASE FirstResult
  BY <1>7, <1>a, Heard DEF FirstResult
<1>8. CASE OtherResult
  BY <1>8, <1>a, Heard DEF OtherResult, AfterFirst
<1>9. CASE GroupEnds
  BY <1>9 DEF GroupEnds, AllHeard, Returned
<1>10. ASSUME NEW w \in Workers, Bind(w) PROVE Goal
  BY <1>10, <1>a, <1>b, Sent, ZenonT(30) DEF Bind
<1>11. ASSUME NEW w \in Workers, CloseUDP(w) PROVE Goal
  BY <1>11, <1>b DEF CloseUDP, GroupCancelled
<1>12. ASSUME NEW w \in Workers, ListenerEnds(w) PROVE Goal
  BY <1>12, <1>a, <1>b, Sent DEF ListenerEnds
<1>13. ASSUME NEW w \in Workers,
              DialFails(w) \/ DelayOver(w) \/ DelayCancelled(w) \/ DialOkTCP(w) \/ DialOkUDP(w)
       PROVE  Goal
  BY <1>13, <1>b DEF DialFails, DelayOver, DelayCancelled, DialOkTCP, DialOkUDP
<1>14. ASSUME NEW w \in Workers, NewSource(w) \/ Accept(w) PROVE Goal
  BY <1>14, <1>b DEF NewSource, Accept
<1>15. ASSUME NEW w \in Workers, Pump(w) PROVE Goal
  BY <1>15, <1>b DEF Pump, CopierFails, PingFails, PingStops, FirstError, SecondError
<1>16. ASSUME NEW w \in Workers, Environment(w) PROVE Goal
  BY <1>16 DEF Environment, Stall, Resume, Break
<1>17. CASE UNCHANGED vars
  BY <1>17 DEF vars
<1>18. QED
  BY <1>2, <1>3, <1>4, <1>5, <1>6, <1>7, <1>8, <1>9, <1>10, <1>11, <1>12, <1>13, <1>14, <1>15,
     <1>16, <1>17
  DEF Next, Start, Dialing, Listener

\* The invariant of the group holds in every state.
LEMMA GroupInvHolds == Spec => []GroupInv
<1>1. Init => GroupInv
  <2> SUFFICES ASSUME Init PROVE GroupInv
    OBVIOUS
  <2>1. \A w \in Workers : dial[w] = NoDial /\ worker[w] = "none" /\ socket[w] = "none"
    BY DEF Init
  <2>2. Len(errCh) = 0
    BY EmptySeq DEF Init
  <2>3. QED
    BY <2>1, <2>2, ClientTypeInit
    DEF Init, GroupInv, DialsAreDialing, GroupEndsForAReason, RecorderFollows, ResultsAreTrue,
        GroupOutlivesListeners, NoDial
<1>2. QED
  BY <1>1, GroupInvStep, PTL DEF Spec

\* The recorder is closed when no listener of the group is left, whatever ended
\* it and however many there are (startUDP).
THEOREM RecorderClosedLast == Spec => []GroupOutlivesListeners
<1>1. GroupInv => GroupOutlivesListeners
  BY DEF GroupInv
<1>2. QED
  BY <1>1, GroupInvHolds, PTL

\* What Start returns for the group is an error when a listener failed first,
\* and nil only after somebody has asked for the end (startUDP).
THEOREM GroupResultTellsWhy == Spec => []ResultTellsWhy
<1>1. GroupInv => ResultTellsWhy
  BY DEF GroupInv, ResultsAreTrue, ResultTellsWhy
<1>2. QED
  BY <1>1, GroupInvHolds, PTL

-----------------------------------------------------------------------------
(* The listener and its table of sessions. *)

\* Where each kind of actor can be.
PlacesOK ==
  /\ at[Main] \in {"read", "dial", "insert", "touch", "write", "remove", "close", "closeAll", "done"}
  /\ at[Sweeper] \in {"none", "wait", "sweep", "close", "done"}
  /\ \A s \in Slots : at[s] \in {"none", "read", "remove", "close", "done"}

\* Sessions are in an actor's hands only while it closes them.
HandsOK == \A a \in Actors : closing[a] # {} => at[a] \in {"close", "closeAll"}

\* The table holds each session under its key, and so does the reader that
\* takes one out: it does so by its own key.
KeysOK ==
  /\ \A k \in DOMAIN table : key[table[k]] = k
  /\ \A a \in Actors : \A s \in closing[a] : key[s] # NoSource
  /\ \A r \in Slots : \A s \in closing[r] : key[s] = key[r]
  /\ \A s \in Slots : key[s] = NoSource => at[s] = "none"

\* Only Main puts sessions into the table, so the key it has dialled for is not
\* there yet, and the session it writes to is the one its key has, if any.
MainOK ==
  /\ at[Main] \in {"dial", "insert"} => cur \in Sources /\ cur \notin DOMAIN table
  /\ at[Main] = "insert" =>
       /\ ses \in Slots /\ key[ses] = cur /\ at[ses] = "none"
       /\ \A a \in Actors : ses \notin closing[a]
  /\ at[Main] \in {"touch", "write", "remove"} =>
       ses \in Slots /\ key[ses] \in Sources /\ (key[ses] \in DOMAIN table => table[key[ses]] = ses)
  /\ at[Main] = "close" => closing[Main] \subseteq {ses}

\* What Main has failed to write to is not a healthy session, and it empties the
\* table only after the context is done.
FailureOK ==
  /\ at[Main] \in {"remove", "close"} => ses \in Slots /\ (~ open[ses] \/ wire[ses] # "up")
  /\ ~ sockOpen => ctxDone
  /\ at[Main] \in {"closeAll", "done"} => ctxDone /\ table = << >>

TableInv ==
  TableTypeOK /\ PlacesOK /\ HandsOK /\ KeysOK /\ MainOK /\ FailureOK /\ NoOrphanSession

-----------------------------------------------------------------------------
(* The operators the steps are made of. *)

\* removeSession takes one key out of the table and what it held into the
\* actor's hands.
LEMMA RemovedKey ==
  ASSUME TableTypeOK, NEW a \in Actors, NEW k \in Sources, RemoveKey(a, k)
  PROVE  /\ DOMAIN table' = DOMAIN table \ {k}
         /\ \A j \in DOMAIN table' : table'[j] = table[j]
         /\ DOMAIN table' \subseteq Sources /\ Range(table') \subseteq Slots
         /\ closing' \in [Actors -> SUBSET Slots]
         /\ closing'[a] = IF k \in DOMAIN table THEN {table[k]} ELSE {}
         /\ \A b \in Actors : b # a => closing'[b] = closing[b]
         /\ table = << >> => table' = << >>
<1>1. /\ DOMAIN table' = DOMAIN table \ {k}
      /\ \A j \in DOMAIN table' : table'[j] = table[j]
  BY DEF RemoveKey, Restrict
<1>2. DOMAIN table \subseteq Sources /\ \A j \in DOMAIN table : table[j] \in Slots
  BY DEF TableTypeOK, Range
<1>3. DOMAIN table' \subseteq Sources /\ Range(table') \subseteq Slots
  BY <1>1, <1>2 DEF Range
<1>4. (IF k \in DOMAIN table THEN {table[k]} ELSE {}) \in SUBSET Slots
  BY <1>2
<1>5. table = << >> => table' = << >>
  <2> SUFFICES ASSUME table = << >> PROVE table' = << >>
    OBVIOUS
  <2>1. DOMAIN table = {}
    OBVIOUS
  <2>2. table' = Restrict(table, {})
    BY <2>1 DEF RemoveKey
  <2>3. QED
    BY <2>2 DEF Restrict
<1>6. QED
  BY <1>1, <1>3, <1>4, <1>5 DEF RemoveKey, TableTypeOK

\* A session is closed for good, and others are left alone.
LEMMA Closed ==
  ASSUME TableTypeOK, NEW S, Shut(S)
  PROVE  /\ open' \in [Slots -> BOOLEAN] /\ idle' \in [Slots -> BOOLEAN]
         /\ wire' \in [Slots -> {"up", "stalled", "lost"}]
         /\ \A s \in Slots : /\ open'[s] <=> open[s] /\ s \notin S
                             /\ wire'[s] = IF s \in S THEN "lost" ELSE wire[s]
<1>1. open' \in [Slots -> BOOLEAN] /\ idle' \in [Slots -> BOOLEAN]
  BY DEF Shut
<1>2. wire' \in [Slots -> {"up", "stalled", "lost"}]
  BY DEF Shut, TableTypeOK
<1>3. QED
  BY <1>1, <1>2 DEF Shut

-----------------------------------------------------------------------------
(* Every action keeps the invariant. *)

Rest == PlacesOK /\ HandsOK /\ KeysOK /\ MainOK /\ FailureOK /\ NoOrphanSession

\* An actor closes what it holds.
LEMMA CloseHeldStep == ASSUME TableInv, NEW a \in Actors, CloseHeld(a) PROVE TableInv'
<1> USE ConfigAssumption DEF Actors
<1>1. TableTypeOK /\ at[a] \in {"close", "closeAll"} /\ UNCHANGED <<ctxDone, sockOpen, table, key, pinger, expired>>
  BY DEF TableInv, CloseHeld
<1>2. PICK S : /\ S \subseteq closing[a] /\ Shut(S)
               /\ closing' = [closing EXCEPT ![a] = @ \ S]
  BY DEF CloseHeld
<1>3. /\ closing' \in [Actors -> SUBSET Slots] /\ closing'[a] = closing[a] \ S
      /\ \A b \in Actors : b # a => closing'[b] = closing[b]
  BY <1>1, <1>2 DEF TableTypeOK
<1>4. /\ open' \in [Slots -> BOOLEAN] /\ idle' \in [Slots -> BOOLEAN]
      /\ wire' \in [Slots -> {"up", "stalled", "lost"}]
      /\ \A s \in Slots : /\ open'[s] <=> open[s] /\ s \notin S
                          /\ wire'[s] = IF s \in S THEN "lost" ELSE wire[s]
  BY <1>1, <1>2, Closed
<1>5. CASE closing'[a] = {}
  <2>1. at' = [at EXCEPT ![a] = IF a = Sweeper THEN "sweep"
                                ELSE IF a = Main /\ at[a] = "close" THEN "read" ELSE "done"]
    BY <1>5 DEF CloseHeld, Goto
  <2>2. IF a = Main THEN cur' = NoSource /\ ses' = NoSlot ELSE UNCHANGED <<cur, ses>>
    BY <1>5 DEF CloseHeld
  <2>3. TableTypeOK'
    BY <1>1, <1>3, <1>4, <2>1, <2>2 DEF TableTypeOK
  <2>4. Rest'
    BY <1>1, <1>2, <1>3, <1>4, <1>5, <2>1, <2>2
    DEF Rest, TableInv, TableTypeOK, PlacesOK, HandsOK, KeysOK, MainOK, FailureOK, NoOrphanSession,
        Tabled
  <2>5. QED
    BY <2>3, <2>4 DEF TableInv, Rest
<1>6. CASE closing'[a] # {}
  <2>1. UNCHANGED <<at, cur, ses>>
    BY <1>6 DEF CloseHeld
  <2>2. TableTypeOK'
    BY <1>1, <1>3, <1>4, <2>1 DEF TableTypeOK
  <2>3. Rest'
    BY <1>1, <1>2, <1>3, <1>4, <1>6, <2>1
    DEF Rest, TableInv, TableTypeOK, PlacesOK, HandsOK, KeysOK, MainOK, FailureOK, NoOrphanSession,
        Tabled
  <2>4. QED
    BY <2>2, <2>3 DEF TableInv, Rest
<1>7. QED
  BY <1>5, <1>6

\* A datagram finds a session of its source, or is dialled for.
LEMMA ReceiveStep == ASSUME TableInv, NEW src \in Sources, Receive(src) PROVE TableInv'
<1> USE ConfigAssumption DEF Actors, Goto, sessionVars
<1>1. TableTypeOK'
  BY DEF Receive, TableInv, TableTypeOK, Range
<1>2. Rest'
  BY DEF Receive, Rest, TableInv, TableTypeOK, PlacesOK, HandsOK, KeysOK, MainOK,
         FailureOK, NoOrphanSession, Tabled, Range
<1>3. QED
  BY <1>1, <1>2 DEF TableInv, Rest

\* A dial makes a session of a free slot.
LEMMA DialOkStep == ASSUME TableInv, NEW s \in Slots, DialOk(s) PROVE TableInv'
<1> USE ConfigAssumption DEF Actors, Goto, sessionVars
<1>1. TableTypeOK'
  BY DEF DialOk, TableInv, TableTypeOK, Range
<1>2. Rest'
  BY DEF DialOk, Rest, TableInv, TableTypeOK, PlacesOK, HandsOK, KeysOK, MainOK,
         FailureOK, NoOrphanSession, Tabled, Range
<1>3. QED
  BY <1>1, <1>2 DEF TableInv, Rest

\* A datagram is dropped.
LEMMA DialFailStep == ASSUME TableInv, DialFail PROVE TableInv'
<1> USE ConfigAssumption DEF Actors, Goto, sessionVars
<1>1. TableTypeOK'
  BY DEF DialFail, TableInv, TableTypeOK, Range
<1>2. Rest'
  BY DEF DialFail, Rest, TableInv, TableTypeOK, PlacesOK, HandsOK, KeysOK, MainOK,
         FailureOK, NoOrphanSession, Tabled, Range
<1>3. QED
  BY <1>1, <1>2 DEF TableInv, Rest

\* A session is used.
LEMMA TouchStep == ASSUME TableInv, Touch \/ WriteOk PROVE TableInv'
<1> USE ConfigAssumption DEF Actors, Goto, sessionVars
<1>1. TableTypeOK'
  <2>1. CASE Touch
    BY <2>1 DEF Touch, TableInv, TableTypeOK
  <2>2. CASE WriteOk
    BY <2>2 DEF WriteOk, TableInv, TableTypeOK
  <2>3. QED
    BY <2>1, <2>2
<1>2. Rest'
  BY DEF Touch, WriteOk, Rest, TableInv, TableTypeOK, PlacesOK, HandsOK, KeysOK, MainOK,
         FailureOK, NoOrphanSession, Tabled, Range
<1>3. QED
  BY <1>1, <1>2 DEF TableInv, Rest

\* A write fails only on a session that is not healthy.
LEMMA WriteFailStep == ASSUME TableInv, WriteFail PROVE TableInv'
<1> USE ConfigAssumption DEF Actors, Goto, sessionVars
<1>1. TableTypeOK'
  BY DEF WriteFail, TableInv, TableTypeOK, Range
<1>2. Rest'
  BY DEF WriteFail, Rest, TableInv, TableTypeOK, PlacesOK, HandsOK, KeysOK, MainOK,
         FailureOK, NoOrphanSession, Tabled, Range
<1>3. QED
  BY <1>1, <1>2 DEF TableInv, Rest

\* A reader goes on, or stops.
LEMMA ReaderEndStep == ASSUME TableInv, NEW s \in Slots, Reply(s) \/ ReaderFail(s) \/ ReaderGiveUp(s) PROVE TableInv'
<1> USE ConfigAssumption DEF Actors, Goto, sessionVars
<1>1. TableTypeOK'
  <2>1. CASE Reply(s)
    BY <2>1 DEF Reply, TableInv, TableTypeOK
  <2>2. CASE ReaderFail(s)
    BY <2>2 DEF ReaderFail, TableInv, TableTypeOK
  <2>3. CASE ReaderGiveUp(s)
    BY <2>3 DEF ReaderGiveUp, TableInv, TableTypeOK
  <2>4. QED
    BY <2>1, <2>2, <2>3
<1>2. Rest'
  BY DEF Reply, ReaderFail, ReaderGiveUp, Rest, TableInv, TableTypeOK, PlacesOK, HandsOK, KeysOK, MainOK,
         FailureOK, NoOrphanSession, Tabled, Range
<1>3. QED
  BY <1>1, <1>2 DEF TableInv, Rest

\* The sweeper lists, ends or waits.
LEMMA SweeperSteps == ASSUME TableInv, SweepCollect \/ SweepEnd \/ SweeperExit PROVE TableInv'
<1> USE ConfigAssumption DEF Actors, Goto, sessionVars
<1>1. TableTypeOK'
  BY DEF SweepCollect, SweepEnd, SweeperExit, TableInv, TableTypeOK, Range
<1>2. Rest'
  BY DEF SweepCollect, SweepEnd, SweeperExit, Rest, TableInv, TableTypeOK, PlacesOK, HandsOK, KeysOK, MainOK,
         FailureOK, NoOrphanSession, Tabled, Range
<1>3. QED
  BY <1>1, <1>2 DEF TableInv, Rest

\* The client is cancelled, and connections get worse.
LEMMA EnvironmentStep == ASSUME TableInv, CancelTunnel \/ CloseSocket PROVE TableInv'
<1> USE ConfigAssumption DEF Actors, Goto, sessionVars
<1>1. TableTypeOK'
  <2>1. CASE CancelTunnel
    BY <2>1 DEF CancelTunnel, TableInv, TableTypeOK
  <2>2. CASE CloseSocket
    BY <2>2 DEF CloseSocket, TableInv, TableTypeOK
  <2>3. QED
    BY <2>1, <2>2
<1>2. Rest'
  BY DEF CancelTunnel, CloseSocket, Rest, TableInv, TableTypeOK, PlacesOK, HandsOK, KeysOK, MainOK,
         FailureOK, NoOrphanSession, Tabled, Range
<1>3. QED
  BY <1>1, <1>2 DEF TableInv, Rest

\* A connection gets worse, or a session is idle.
LEMMA WireStep == ASSUME TableInv, NEW s \in Slots, Degrade(s) \/ GoIdle(s) \/ PingerExit(s) PROVE TableInv'
<1> USE ConfigAssumption DEF Actors, Goto, sessionVars
<1>1. TableTypeOK'
  <2>1. CASE Degrade(s)
    BY <2>1 DEF Degrade, TableInv, TableTypeOK
  <2>2. CASE GoIdle(s)
    BY <2>2 DEF GoIdle, TableInv, TableTypeOK
  <2>3. CASE PingerExit(s)
    BY <2>3 DEF PingerExit, TableInv, TableTypeOK
  <2>4. QED
    BY <2>1, <2>2, <2>3
<1>2. Rest'
  BY DEF Degrade, GoIdle, PingerExit, Rest, TableInv, TableTypeOK, PlacesOK, HandsOK, KeysOK, MainOK,
         FailureOK, NoOrphanSession, Tabled, Range
<1>3. QED
  BY <1>1, <1>2 DEF TableInv, Rest

\* Nothing refers to a slot that is used again.
LEMMA RecycleStep == ASSUME TableInv, NEW s \in Slots, Recycle(s) PROVE TableInv'
<1> USE ConfigAssumption DEF Actors, Goto, sessionVars
<1>1. TableTypeOK'
  BY DEF Recycle, Garbage, TableInv, TableTypeOK, Range
<1>2. Rest'
  BY SMTT(30) DEF Recycle, Garbage, Rest, TableInv, TableTypeOK, PlacesOK, HandsOK, KeysOK, MainOK,
         FailureOK, NoOrphanSession, Tabled, Range
<1>3. QED
  BY <1>1, <1>2 DEF TableInv, Rest

\* A failed ping closes one session and leaves it where it is.
LEMMA PingFailStep == ASSUME TableInv, NEW s \in Slots, PingFail(s) PROVE TableInv'
<1> USE ConfigAssumption DEF Actors
<1>1. /\ Shut({s}) /\ UNCHANGED <<ctxDone, sockOpen, table, key, at, closing, cur, ses, expired>>
      /\ pinger' = [pinger EXCEPT ![s] = "done"]
  BY DEF PingFail
<1>2. /\ open' \in [Slots -> BOOLEAN] /\ idle' \in [Slots -> BOOLEAN]
      /\ wire' \in [Slots -> {"up", "stalled", "lost"}]
      /\ \A r \in Slots : /\ open'[r] <=> open[r] /\ r \notin {s}
                          /\ wire'[r] = IF r \in {s} THEN "lost" ELSE wire[r]
  BY <1>1, Closed DEF TableInv
<1>3. TableTypeOK'
  BY <1>1, <1>2 DEF TableInv, TableTypeOK
<1>4. Rest'
  BY <1>1, <1>2 DEF Rest, TableInv, TableTypeOK, PlacesOK, HandsOK, KeysOK, MainOK, FailureOK,
                    NoOrphanSession, Tabled
<1>5. QED
  BY <1>3, <1>4 DEF TableInv, Rest

\* The dialled session enters the table: no other is there.
LEMMA InsertStep == ASSUME TableInv, Insert PROVE TableInv'
<1> USE ConfigAssumption DEF Actors
<1>1. /\ cur \in Sources /\ cur \notin DOMAIN table /\ at[Main] = "insert"
      /\ ses \in Slots /\ key[ses] = cur /\ at[ses] = "none" /\ ses # Main /\ ses # Sweeper
      /\ \A a \in Actors : ses \notin closing[a]
  BY DEF TableInv, MainOK, Insert
<1>2. /\ table' = [k \in DOMAIN table \cup {cur} |-> IF k = cur THEN ses ELSE table[k]]
      /\ pinger' = [pinger EXCEPT ![ses] = IF Pinging THEN "running" ELSE "none"]
      /\ at' = [at EXCEPT ![Main] = "touch", ![ses] = "read"]
      /\ UNCHANGED <<key, open, wire, idle, ses, ctxDone, sockOpen, closing, cur, expired>>
  BY <1>1 DEF Insert
<1>3. /\ DOMAIN table' = DOMAIN table \cup {cur} /\ table'[cur] = ses
      /\ \A k \in DOMAIN table : table'[k] = table[k]
  BY <1>1, <1>2
<1>4. /\ at' \in [Actors -> {"none", "read", "dial", "insert", "touch", "write", "remove",
                             "close", "closeAll", "wait", "sweep", "done"}]
      /\ at'[Main] = "touch" /\ at'[ses] = "read"
      /\ \A a \in Actors \ {Main, ses} : at'[a] = at[a]
  BY <1>1, <1>2 DEF TableInv, TableTypeOK
<1>5. DOMAIN table' \subseteq Sources /\ Range(table') \subseteq Slots
  BY <1>1, <1>3 DEF TableInv, TableTypeOK, Range
<1>6. TableTypeOK'
  BY <1>2, <1>4, <1>5 DEF TableInv, TableTypeOK
<1>7. \A r \in Slots : Tabled(r) \/ r = ses => Tabled(r)'
  BY <1>3 DEF Tabled, Range
<1>8. NoOrphanSession'
  BY <1>1, <1>2, <1>7 DEF TableInv, NoOrphanSession
<1>9. (PlacesOK /\ HandsOK /\ KeysOK)'
  <2>1. closing[ses] = {} /\ UNCHANGED <<closing, key>>
    BY <1>1, <1>2 DEF TableInv, HandsOK
  <2>2. (PlacesOK /\ HandsOK)'
    BY <1>1, <1>4, <2>1 DEF TableInv, PlacesOK, HandsOK
  <2>3. \A k \in DOMAIN table' : key'[table'[k]] = k
    BY <1>1, <1>2, <1>3 DEF TableInv, KeysOK
  <2>4. \A r \in Slots : key[r] = NoSource => r # ses /\ at'[r] = "none"
    BY <1>1, <1>4 DEF TableInv, KeysOK
  <2>5. KeysOK'
    BY <2>1, <2>3, <2>4 DEF TableInv, KeysOK
  <2>6. QED
    BY <2>2, <2>5
<1>10. (MainOK /\ FailureOK)'
  BY <1>1, <1>2, <1>3, <1>4 DEF TableInv, TableTypeOK, MainOK, FailureOK
<1>11. QED
  BY <1>6, <1>8, <1>9, <1>10 DEF TableInv

\* Main removes the key of the session it has failed to write to.
LEMMA MainRemoveStep == ASSUME TableInv, MainRemove PROVE TableInv'
<1> USE ConfigAssumption DEF Actors
<1>1. /\ at[Main] = "remove" /\ ses \in Slots /\ key[ses] \in Sources
      /\ key[ses] \in DOMAIN table => table[key[ses]] = ses
  BY DEF TableInv, MainOK, MainRemove
<1>2. RemoveKey(Main, key[ses]) /\ UNCHANGED <<ctxDone, sockOpen, sessionVars, cur, ses, expired>>
  BY DEF MainRemove
<1>3. /\ DOMAIN table' = DOMAIN table \ {key[ses]}
      /\ \A j \in DOMAIN table' : table'[j] = table[j]
      /\ DOMAIN table' \subseteq Sources /\ Range(table') \subseteq Slots
      /\ closing' \in [Actors -> SUBSET Slots]
      /\ closing'[Main] = IF key[ses] \in DOMAIN table THEN {table[key[ses]]} ELSE {}
      /\ \A b \in Actors : b # Main => closing'[b] = closing[b]
      /\ table = << >> => table' = << >>
  BY <1>1, <1>2, RemovedKey DEF TableInv
<1>4. at' = [at EXCEPT ![Main] = "close"]
  BY DEF MainRemove, Goto
<1>5. TableTypeOK'
  BY <1>2, <1>3, <1>4 DEF TableInv, TableTypeOK, sessionVars
<1>6. \A r \in Slots : Tabled(r) => Tabled(r)' \/ r \in closing'[Main]
  BY <1>3 DEF Tabled, Range
<1>7. NoOrphanSession'
  BY <1>1, <1>2, <1>3, <1>4, <1>6 DEF TableInv, TableTypeOK, HandsOK, NoOrphanSession, sessionVars
<1>8. (PlacesOK /\ HandsOK /\ KeysOK)'
  BY <1>1, <1>2, <1>3, <1>4 DEF TableInv, TableTypeOK, PlacesOK, HandsOK, KeysOK, sessionVars
<1>9. (MainOK /\ FailureOK)'
  BY <1>1, <1>2, <1>3, <1>4 DEF TableInv, TableTypeOK, MainOK, FailureOK, sessionVars
<1>10. QED
  BY <1>5, <1>7, <1>8, <1>9 DEF TableInv

\* A reader removes the key of its session.
LEMMA ReaderRemoveStep == ASSUME TableInv, NEW s \in Slots, ReaderRemove(s) PROVE TableInv'
<1> USE ConfigAssumption DEF Actors
<1>1. at[s] = "remove" /\ key[s] \in Sources /\ s # Main /\ s # Sweeper
  BY DEF TableInv, TableTypeOK, KeysOK, ReaderRemove
<1>2. RemoveKey(s, key[s]) /\ UNCHANGED <<ctxDone, sockOpen, sessionVars, cur, ses, expired>>
  BY DEF ReaderRemove
<1>3. /\ DOMAIN table' = DOMAIN table \ {key[s]}
      /\ \A j \in DOMAIN table' : table'[j] = table[j]
      /\ DOMAIN table' \subseteq Sources /\ Range(table') \subseteq Slots
      /\ closing' \in [Actors -> SUBSET Slots]
      /\ closing'[s] = IF key[s] \in DOMAIN table THEN {table[key[s]]} ELSE {}
      /\ \A b \in Actors : b # s => closing'[b] = closing[b]
      /\ table = << >> => table' = << >>
  BY <1>1, <1>2, RemovedKey DEF TableInv
<1>4. at' = [at EXCEPT ![s] = "close"]
  BY DEF ReaderRemove, Goto
<1>5. TableTypeOK'
  BY <1>2, <1>3, <1>4 DEF TableInv, TableTypeOK, sessionVars
<1>6. \A r \in Slots : Tabled(r) => Tabled(r)' \/ r \in closing'[s]
  BY <1>3 DEF Tabled, Range
<1>7. NoOrphanSession'
  BY <1>1, <1>2, <1>3, <1>4, <1>6 DEF TableInv, TableTypeOK, HandsOK, NoOrphanSession, sessionVars
<1>8. (PlacesOK /\ HandsOK /\ KeysOK)'
  BY <1>1, <1>2, <1>3, <1>4 DEF TableInv, TableTypeOK, PlacesOK, HandsOK, KeysOK, sessionVars
<1>9. (MainOK /\ FailureOK)'
  BY <1>1, <1>2, <1>3, <1>4 DEF TableInv, TableTypeOK, KeysOK, MainOK, FailureOK, sessionVars
<1>10. QED
  BY <1>5, <1>7, <1>8, <1>9 DEF TableInv

\* The sweeper removes a key it has listed.
LEMMA SweepRemoveStep == ASSUME TableInv, SweepRemove PROVE TableInv'
<1> USE ConfigAssumption DEF Actors
<1>1. PICK k \in Sources : RemoveKey(Sweeper, k) /\ expired' = expired \ {k}
  BY DEF SweepRemove, TableInv, TableTypeOK
<1>2. /\ at[Sweeper] = "sweep" /\ at' = [at EXCEPT ![Sweeper] = "close"]
      /\ UNCHANGED <<ctxDone, sockOpen, sessionVars, cur, ses>>
  BY DEF SweepRemove, Goto
<1>3. /\ DOMAIN table' = DOMAIN table \ {k}
      /\ \A j \in DOMAIN table' : table'[j] = table[j]
      /\ DOMAIN table' \subseteq Sources /\ Range(table') \subseteq Slots
      /\ closing' \in [Actors -> SUBSET Slots]
      /\ closing'[Sweeper] = IF k \in DOMAIN table THEN {table[k]} ELSE {}
      /\ \A b \in Actors : b # Sweeper => closing'[b] = closing[b]
      /\ table = << >> => table' = << >>
  BY <1>1, RemovedKey DEF TableInv
<1>4. TableTypeOK'
  BY <1>1, <1>2, <1>3 DEF TableInv, TableTypeOK, sessionVars
<1>5. \A r \in Slots : Tabled(r) => Tabled(r)' \/ r \in closing'[Sweeper]
  BY <1>3 DEF Tabled, Range
<1>6. NoOrphanSession'
  BY <1>2, <1>3, <1>5 DEF TableInv, TableTypeOK, HandsOK, NoOrphanSession, sessionVars
<1>7. (PlacesOK /\ HandsOK /\ KeysOK)'
  BY <1>2, <1>3 DEF TableInv, TableTypeOK, PlacesOK, HandsOK, KeysOK, sessionVars
<1>8. (MainOK /\ FailureOK)'
  BY <1>2, <1>3 DEF TableInv, TableTypeOK, KeysOK, MainOK, FailureOK, sessionVars
<1>9. QED
  BY <1>4, <1>6, <1>7, <1>8 DEF TableInv

\* Main returns and takes the whole table.
LEMMA ListenerReturnsStep == ASSUME TableInv, ListenerReturns PROVE TableInv'
<1> USE ConfigAssumption DEF Actors
<1>1. /\ at[Main] = "read" /\ ~ sockOpen /\ at' = [at EXCEPT ![Main] = "closeAll"]
      /\ UNCHANGED <<ctxDone, sockOpen, sessionVars, cur, ses, expired>>
  BY DEF ListenerReturns, Goto
<1>2. table' = << >> /\ DOMAIN table' = {} /\ Range(table') = {}
  BY DEF ListenerReturns, Range
<1>3. /\ closing' \in [Actors -> SUBSET Slots] /\ closing'[Main] = Range(table)
      /\ \A b \in Actors : b # Main => closing'[b] = closing[b]
  BY DEF ListenerReturns, TableInv, TableTypeOK
<1>4. TableTypeOK'
  BY <1>1, <1>2, <1>3 DEF TableInv, TableTypeOK, sessionVars
<1>5. NoOrphanSession'
  BY <1>1, <1>3 DEF TableInv, TableTypeOK, HandsOK, NoOrphanSession, sessionVars, Tabled
<1>6. (PlacesOK /\ HandsOK)'
  BY <1>1, <1>3 DEF TableInv, TableTypeOK, PlacesOK, HandsOK
<1>7. KeysOK'
  <2>1. \A s \in Range(table) : key[s] # NoSource
    BY DEF TableInv, TableTypeOK, KeysOK, Range
  <2>2. QED
    BY <1>1, <1>2, <1>3, <2>1 DEF TableInv, TableTypeOK, KeysOK, sessionVars
<1>8. (MainOK /\ FailureOK)'
  BY <1>1, <1>2, <1>3 DEF TableInv, TableTypeOK, MainOK, FailureOK, sessionVars
<1>9. QED
  BY <1>4, <1>5, <1>6, <1>7, <1>8 DEF TableInv

\* Every step of the listener, its sessions and its sweeper keeps the invariant.
LEMMA TableInvStep == TableInv /\ [TableNext]_tableVars => TableInv'
<1> SUFFICES ASSUME TableInv, [TableNext]_tableVars PROVE TableInv'
  OBVIOUS
<1>1. CASE UNCHANGED tableVars
  BY <1>1 DEF tableVars, sessionVars, TableInv, TableTypeOK, PlacesOK, HandsOK, KeysOK, MainOK, FailureOK,
              NoOrphanSession, Tabled, Range, Actors
<1>2. CASE MainStep
  BY <1>2, DialFailStep, InsertStep, TouchStep, WriteFailStep, MainRemoveStep, ListenerReturnsStep,
     CloseHeldStep, DialOkStep
  DEF MainStep, Actors
<1>3. CASE SweeperStep
  BY <1>3, SweeperSteps, SweepRemoveStep, CloseHeldStep DEF SweeperStep, Actors
<1>4. CASE CancelTunnel \/ CloseSocket \/ \E src \in Sources : Receive(src)
  BY <1>4, EnvironmentStep, ReceiveStep
<1>5. ASSUME NEW s \in Slots, ReaderStep(s) \/ PingerStep(s) PROVE TableInv'
  BY <1>5, ReaderEndStep, ReaderRemoveStep, CloseHeldStep, PingFailStep, WireStep
  DEF ReaderStep, PingerStep, Actors
<1>6. ASSUME NEW s \in Slots, Reply(s) \/ ReaderGiveUp(s) \/ Degrade(s) \/ GoIdle(s) \/ Recycle(s)
      PROVE  TableInv'
  BY <1>6, ReaderEndStep, WireStep, RecycleStep
<1>7. QED
  BY <1>1, <1>2, <1>3, <1>4, <1>5, <1>6 DEF TableNext

-----------------------------------------------------------------------------
(* The theorems. *)

\* The invariant holds before the first datagram.
LEMMA TableInvInit == TableInit => TableInv
<1> SUFFICES ASSUME TableInit PROVE TableInv
  OBVIOUS
<1> USE ConfigAssumption DEF Actors
<1>1. DOMAIN table = {} /\ Range(table) = {}
  BY DEF TableInit, Range
<1>2. \A a \in Actors : closing[a] = {}
  BY DEF TableInit
<1>3. /\ at[Main] = "read" /\ at[Sweeper] \in {"wait", "none"}
      /\ \A s \in Slots : at[s] = "none" /\ open[s] = FALSE
  BY DEF TableInit
<1>4. at \in [Actors -> {"none", "read", "dial", "insert", "touch", "write", "remove",
                         "close", "closeAll", "wait", "sweep", "done"}]
  BY DEF TableInit
<1>5. TableTypeOK
  BY <1>1, <1>4 DEF TableInit, TableTypeOK
<1>6. PlacesOK /\ HandsOK /\ KeysOK /\ MainOK /\ NoOrphanSession
  BY <1>1, <1>2, <1>3 DEF PlacesOK, HandsOK, KeysOK, MainOK, NoOrphanSession
<1>7. FailureOK
  BY <1>3 DEF TableInit, FailureOK
<1>8. QED
  BY <1>5, <1>6, <1>7 DEF TableInv

\* The invariant holds in every state.
LEMMA TableInvHolds == TableSpec => []TableInv
BY TableInvInit, TableInvStep, PTL DEF TableSpec

\* No session leaks, whoever of the listener, the readers, the pingers and the
\* sweeper removes it, and in whatever order (removeSession, getOrCreateSession).
THEOREM NoSessionLeaks == TableSpec => []NoOrphanSession
<1>1. TableInv => NoOrphanSession
  BY DEF TableInv
<1>2. QED
  BY <1>1, TableInvHolds, PTL

\* After the listener has returned the table is empty, and what is open is in the
\* hands of another actor (closeAllSessions).
THEOREM ReturnIsQuiet == TableSpec => []QuietAfterReturn
<1>1. TableInv => QuietAfterReturn
  <2> SUFFICES ASSUME TableInv, at[Main] = "done" PROVE table = << >> /\
        \A s \in Slots : open[s] => \E a \in Actors \ {Main} : s \in closing[a]
    BY DEF QuietAfterReturn
  <2>1. table = << >> /\ closing[Main] = {}
    BY DEF TableInv, FailureOK, HandsOK, Actors
  <2>2. DOMAIN table = {}
    BY <2>1
  <2>3. \A s \in Slots : ~ Tabled(s)
    BY <2>2 DEF Tabled, Range
  <2>4. QED
    BY <2>1, <2>3 DEF TableInv, NoOrphanSession
<1>2. QED
  BY <1>1, TableInvHolds, PTL

\* Whatever closes a healthy session before the shutdown is its own reader, the
\* sweeper, or the reader of the session its source had before.
THEOREM HealthyClosedByKey == TableSpec => HealthyClosedOnlyByKey
<1> DEFINE ByKey(s) == \/ idle[s] \/ wire[s] # "up" \/ ctxDone
                       \/ s \in closing[s]
                       \/ s \in closing[Sweeper]
                       \/ \E a \in Slots \ {s} : s \in closing[a] /\ key[a] = key[s]
<1>1. ASSUME TableInv, [TableNext]_tableVars, NEW s \in Slots, open[s], ~ open'[s] PROVE ByKey(s)
  <2> USE <1>1, ConfigAssumption DEF Actors
  <2>1. ASSUME NEW a \in Actors, CloseHeld(a) PROVE ByKey(s)
    <3>1. s \in closing[a] /\ at[a] \in {"close", "closeAll"}
      <4>1. PICK S \in {{}} \cup {{x} : x \in closing[a]} : Shut(S)
        BY <2>1 DEF CloseHeld
      <4>2. s \in S
        BY <4>1 DEF Shut
      <4>3. S \subseteq closing[a]
        BY <4>1
      <4>4. QED
        BY <2>1, <4>2, <4>3 DEF CloseHeld
    <3>2. CASE a = Main
      BY <3>1, <3>2 DEF TableInv, MainOK, FailureOK
    <3>3. CASE a \in Slots
      BY <3>1, <3>3 DEF TableInv, KeysOK
    <3>4. QED
      BY <3>1, <3>2, <3>3
  <2>2. CASE Insert
    BY <2>2 DEF Insert, TableInv, MainOK
  <2>3. ASSUME NEW r \in Slots, PingFail(r) PROVE ByKey(s)
    BY <2>3 DEF PingFail, Shut
  <2>4. ASSUME NEW r \in Slots, DialOk(r) PROVE FALSE
    BY <2>4 DEF DialOk, TableInv, TableTypeOK
  <2>5. CASE open' = open
    BY <2>5
  <2>6. QED
    BY <2>1, <2>2, <2>3, <2>4, <2>5
    DEF TableNext, MainStep, SweeperStep, ReaderStep, PingerStep, DialFail, Touch, WriteOk, WriteFail,
        MainRemove, ListenerReturns, SweepCollect, SweepRemove, SweepEnd, SweeperExit, CancelTunnel,
        CloseSocket, Receive, ReaderFail, ReaderRemove, PingerExit, Reply, ReaderGiveUp, Degrade,
        GoIdle, Recycle, sessionVars, tableVars
<1>2. TableInv /\ [TableNext]_tableVars =>
        [\A s \in Slots : open[s] /\ ~open'[s] => ByKey(s)]_tableVars
  BY <1>1
<1> HIDE DEF ByKey
<1>3. TableSpec => [][\A s \in Slots : open[s] /\ ~open'[s] => ByKey(s)]_tableVars
  BY <1>2, TableInvHolds, PTL DEF TableSpec
<1>4. QED
  BY <1>3 DEF HealthyClosedOnlyByKey, ByKey

-----------------------------------------------------------------------------
(* udp-check: what Observe keeps of the sequence statistics, whatever     *)
(* arrives.                                                                *)

\* Packets of a side: what was seen spans the numbers up to the highest; a side
\* that saw nothing counts nothing.
StatsOK(st) ==
  /\ st \in Stats
  /\ Spans(st)
  /\ ~ st.initialized => st = ZeroStats
  /\ st.initialized => st.highest \in st.seen /\ st.first \in st.seen

\* Observe keeps that, adds the number it observed and nothing else.
LEMMA ObserveKeeps ==
  ASSUME CheckAssumption, NEW st, StatsOK(st), NEW seq \in 1 .. MaxSends
  PROVE  StatsOK(Observe(st, seq)) /\ Observe(st, seq).seen = st.seen \cup {seq}
<1>1. /\ st.seen \subseteq 1 .. MaxSends /\ st.packets \in Nat /\ st.duplicate \in Nat /\ st.reordered \in Nat
      /\ st.loss \in Nat /\ st.initialized \in BOOLEAN /\ st.highest \in 0 .. MaxSends /\ st.first \in 0 .. MaxSends
      /\ MaxSends \in Nat
  BY DEF StatsOK, Stats, CheckAssumption
<1>2. IsFiniteSet(st.seen) /\ Cardinality(st.seen) \in Nat
      /\ Cardinality(st.seen \cup {seq}) = IF seq \in st.seen THEN Cardinality(st.seen) ELSE Cardinality(st.seen) + 1
  <2>1. IsFiniteSet(1 .. MaxSends)
    BY <1>1, FS_Interval
  <2>2. IsFiniteSet(st.seen)
    BY <1>1, <2>1, FS_Subset
  <2>3. QED
    BY <2>2, FS_CardinalityType, FS_AddElement
<1>3. PICK n \in Nat : n = Cardinality(st.seen)
  BY <1>2
<1>4. st.initialized => st.highest - st.first + 1 = n - st.reordered + st.loss /\ st.packets = n + st.duplicate
  BY <1>3 DEF StatsOK, Spans, Unique
<1>5. PICK new : new = Observe(st, seq)
  OBVIOUS
<1>6. CASE seq \in st.seen
  <2>1. st.initialized
    BY <1>6 DEF StatsOK, ZeroStats
  <2>2. new = [seen |-> st.seen, packets |-> st.packets + 1, duplicate |-> st.duplicate + 1,
              reordered |-> st.reordered, loss |-> st.loss, initialized |-> st.initialized,
              highest |-> st.highest, first |-> st.first]
    BY <1>5, <1>6 DEF Observe, StatsOK, Stats
  <2>3. /\ new \in Stats /\ new.seen = st.seen /\ new.packets = st.packets + 1 /\ new.duplicate = st.duplicate + 1
        /\ new.highest = st.highest /\ new.first = st.first /\ new.reordered = st.reordered /\ new.loss = st.loss
        /\ new.initialized = st.initialized
    BY <1>1, <2>2 DEF Stats
  <2>4. Spans(new)
    BY <1>1, <1>3, <1>4, <2>1, <2>3 DEF Spans, Unique
  <2>5. QED
    BY <1>5, <1>6, <2>1, <2>3, <2>4 DEF StatsOK
<1>7. CASE seq \notin st.seen /\ ~ st.initialized
  <2>1. st = ZeroStats
    BY <1>7 DEF StatsOK
  <2>2. new = [seen |-> st.seen \cup {seq}, packets |-> st.packets + 1, duplicate |-> st.duplicate,
              reordered |-> st.reordered, loss |-> st.loss, initialized |-> TRUE,
              highest |-> seq, first |-> seq]
    BY <1>5, <1>7 DEF Observe, StatsOK, Stats
  <2>3. /\ new \in Stats /\ new.seen = st.seen \cup {seq} /\ new.packets = st.packets + 1 /\ new.duplicate = st.duplicate
        /\ new.highest = seq /\ new.first = seq /\ new.reordered = st.reordered /\ new.loss = st.loss
        /\ new.initialized
    BY <1>1, <2>2 DEF Stats
  <2>4. Cardinality(new.seen) = 1
    <3>1. st.seen = {} /\ new.seen = {seq}
      BY <2>1, <2>3 DEF ZeroStats
    <3>2. QED
      BY <3>1, FS_Singleton
  <2>5. Spans(new)
    BY <2>1, <2>3, <2>4 DEF Spans, Unique, ZeroStats
  <2>6. QED
    BY <1>5, <2>3, <2>5 DEF StatsOK
<1>8. CASE seq \notin st.seen /\ st.initialized /\ seq > st.highest
  <2>1. new = [seen |-> st.seen \cup {seq}, packets |-> st.packets + 1, duplicate |-> st.duplicate,
              reordered |-> st.reordered, loss |-> st.loss + (seq - st.highest - 1), initialized |-> st.initialized,
              highest |-> seq, first |-> st.first]
    <3>1. seq \in Int /\ st.highest \in Int /\ ~ (seq <= st.highest)
      BY <1>1, <1>8
    <3>2. Observe(st, seq) = [[[st EXCEPT !.packets = @ + 1] EXCEPT !.seen = @ \cup {seq}]
                                 EXCEPT !.loss = @ + Skipped(st, seq), !.highest = seq]
      BY <1>8, <3>1 DEF Observe
    <3>3. QED
      BY <1>5, <3>1, <3>2 DEF StatsOK, Stats, Skipped
  <2>2. Skipped(st, seq) = seq - st.highest - 1 /\ Skipped(st, seq) \in Nat
    BY <1>1, <1>8 DEF Skipped
  <2>3. /\ new \in Stats /\ new.seen = st.seen \cup {seq} /\ new.packets = st.packets + 1 /\ new.duplicate = st.duplicate
        /\ new.highest = seq /\ new.first = st.first /\ new.reordered = st.reordered
        /\ new.loss = st.loss + (seq - st.highest - 1) /\ new.initialized
    BY <1>1, <1>8, <2>1, <2>2 DEF Stats
  <2>4. Cardinality(new.seen) = n + 1
    BY <1>2, <1>3, <1>8, <2>3
  <2>5. Spans(new)
    <3>1. st.highest - st.first + 1 = n - st.reordered + st.loss /\ st.packets = n + st.duplicate
      BY <1>4, <1>8
    <3>2. seq - st.first + 1 = (n + 1) - st.reordered + (st.loss + (seq - st.highest - 1))
      <4>1. PICK hi, fi, re, lo, k \in Int : hi = st.highest /\ fi = st.first /\ re = st.reordered /\ lo = st.loss /\ k = seq
        BY <1>1
      <4>2. hi - fi + 1 = n - re + lo
        BY <3>1, <4>1
      <4>3. k - fi + 1 = (n + 1) - re + (lo + (k - hi - 1))
        BY <4>2
      <4>4. QED
        BY <4>1, <4>3
    <3>3. st.packets + 1 = (n + 1) + st.duplicate
      BY <1>1, <3>1
    <3>4. QED
      BY <2>3, <2>4, <3>2, <3>3 DEF Spans, Unique
  <2>6. QED
    BY <1>5, <1>8, <2>3, <2>5 DEF StatsOK
<1>9. CASE seq \notin st.seen /\ st.initialized /\ ~ (seq > st.highest)
  <2>1. new = [seen |-> st.seen \cup {seq}, packets |-> st.packets + 1, duplicate |-> st.duplicate,
              reordered |-> st.reordered + 1, loss |-> st.loss, initialized |-> st.initialized,
              highest |-> st.highest, first |-> st.first]
    <3>1. seq \in Int /\ st.highest \in Int /\ seq <= st.highest
      BY <1>1, <1>9
    <3>2. Observe(st, seq) = [[[st EXCEPT !.packets = @ + 1] EXCEPT !.seen = @ \cup {seq}] EXCEPT !.reordered = @ + 1]
      BY <1>9, <3>1 DEF Observe
    <3>3. QED
      BY <1>5, <3>1, <3>2 DEF StatsOK, Stats
  <2>2. /\ new \in Stats /\ new.seen = st.seen \cup {seq} /\ new.packets = st.packets + 1 /\ new.duplicate = st.duplicate
        /\ new.highest = st.highest /\ new.first = st.first /\ new.reordered = st.reordered + 1
        /\ new.loss = st.loss /\ new.initialized
    BY <1>1, <1>9, <2>1 DEF Stats
  <2>3. Cardinality(new.seen) = n + 1
    BY <1>2, <1>3, <1>9, <2>2
  <2>4. Spans(new)
    BY <1>1, <1>4, <1>9, <2>2, <2>3 DEF Spans, Unique
  <2>5. QED
    BY <1>5, <1>9, <2>2, <2>4 DEF StatsOK
<1>10. QED
  BY <1>6, <1>7, <1>8, <1>9

\* A number above every number seen in turn is neither a repetition nor late.
LEMMA ObserveNext ==
  ASSUME NEW st, StatsOK(st), NEW seq \in 1 .. MaxSends, \A k \in st.seen : k < seq
  PROVE  Observe(st, seq).reordered = st.reordered /\ Observe(st, seq).duplicate = st.duplicate
<1>1. seq \notin st.seen
  <2>1. seq \in Int
    OBVIOUS
  <2>2. QED
    BY <2>1
<1>2. st.initialized => seq > st.highest
  BY DEF StatsOK, Stats
<1>3. QED
  BY <1>1, <1>2 DEF Observe, StatsOK, Stats

-----------------------------------------------------------------------------
(* The inductive invariant. *)

FunctionsOK ==
  /\ {sentSeq, ackSeq} \subseteq [Players -> Stats] /\ peers \in [Players -> [rx : Stats, tx : Stats]]
  /\ reader \in [Players -> {Reading, Done} \cup [at : {"count"}, ack : 1 .. MaxSends]]
  /\ {rtts, failedSends} \subseteq [Players -> SUBSET (1 .. MaxSends)]

\* The numbers a player has written to its socket.
Written(p) == IF sender[p] = "record" THEN sent[p] \cup {nextSeq[p]} ELSE sent[p]

CountsOK == \A p \in Players :
  StatsOK(sentSeq[p]) /\ StatsOK(ackSeq[p]) /\ StatsOK(peers[p].rx) /\ StatsOK(peers[p].tx)

\* A player records what it wrote, in order; failed writes leave a gap.
SendingOK == \A p \in Players :
  /\ sentSeq[p].seen = sent[p]
  /\ sent[p] = (1 .. nextSeq[p] - 1) \ failedSends[p]
  /\ failedSends[p] \subseteq 1 .. nextSeq[p] - 1
  /\ sentSeq[p].reordered = 0 /\ sentSeq[p].duplicate = 0
  /\ sender[p] = "record" => nextSeq[p] <= MaxSends

\* Nothing is counted or in flight that was not written, received, acknowledged
\* in this order.
AnsweredOK ==
  /\ \A p \in Players :
       /\ rtts[p] \subseteq ackSeq[p].seen
       /\ ackSeq[p].seen \subseteq peers[p].tx.seen
       /\ peers[p].tx.seen \subseteq peers[p].rx.seen
       /\ peers[p].rx.seen \subseteq Written(p)
       /\ reader[p].at = "count" => reader[p].ack \in peers[p].tx.seen
  /\ \A d \in pings : d[2] \in Written(d[1])
  /\ \A d \in acks : d[2] \in peers[d[1]].tx.seen

CheckInv == CheckTypeOK /\ FunctionsOK /\ CountsOK /\ SendingOK /\ AnsweredOK

Readers == {Reading, Done} \cup [at : {"count"}, ack : 1 .. MaxSends]

\* What the invariant says of the types, in one place.
LEMMA CheckTypes ==
  ASSUME CheckInv
  PROVE  /\ sender \in [Players -> {"write", "record", "grace", "awaiting", "returned", "failed"}]
         /\ nextSeq \in [Players -> 1 .. MaxSends + 1]
         /\ sentSeq \in [Players -> Stats] /\ ackSeq \in [Players -> Stats]
         /\ peers \in [Players -> [rx : Stats, tx : Stats]]
         /\ reader \in [Players -> Readers]
         /\ rtts \in [Players -> SUBSET (1 .. MaxSends)] /\ failedSends \in [Players -> SUBSET (1 .. MaxSends)]
         /\ sent \in [Players -> SUBSET (1 .. MaxSends)]
         /\ pings \subseteq Players \X (1 .. MaxSends) /\ acks \subseteq Players \X (1 .. MaxSends)
         /\ server \in {"serving", "returned"}
BY DEF CheckInv, CheckTypeOK, FunctionsOK, Readers

\* And the converse, for the next state.
LEMMA CheckTypesNext ==
  ASSUME /\ sender' \in [Players -> {"write", "record", "grace", "awaiting", "returned", "failed"}]
         /\ nextSeq' \in [Players -> 1 .. MaxSends + 1]
         /\ sentSeq' \in [Players -> Stats] /\ ackSeq' \in [Players -> Stats]
         /\ peers' \in [Players -> [rx : Stats, tx : Stats]]
         /\ reader' \in [Players -> Readers]
         /\ rtts' \in [Players -> SUBSET (1 .. MaxSends)] /\ failedSends' \in [Players -> SUBSET (1 .. MaxSends)]
         /\ sent' \in [Players -> SUBSET (1 .. MaxSends)]
         /\ pings' \subseteq Players \X (1 .. MaxSends) /\ acks' \subseteq Players \X (1 .. MaxSends)
         /\ server' \in {"serving", "returned"}
  PROVE  CheckTypeOK' /\ FunctionsOK'
<1>1. ASSUME NEW p \in Players
      PROVE  {sentSeq'[p], ackSeq'[p], peers'[p].rx, peers'[p].tx} \subseteq Stats /\ reader'[p] \in Readers
  OBVIOUS
<1>2. CheckTypeOK'
  BY <1>1 DEF CheckTypeOK, Readers
<1>3. FunctionsOK'
  BY DEF FunctionsOK, Readers
<1>4. QED
  BY <1>2, <1>3

\* The steps that count nothing and put nothing new in flight.
LEMMA QuietKeeps ==
  ASSUME CheckInv, UNCHANGED <<nextSeq, sent, sentSeq, ackSeq, rtts, peers, failedSends>>,
         sender' \in [Players -> {"write", "record", "grace", "awaiting", "returned", "failed"}],
         \A p \in Players : sender'[p] = "record" <=> sender[p] = "record",
         pings' \subseteq pings, acks' \subseteq acks, server' \in {"serving", "returned"},
         reader' \in [Players -> Readers],
         \A p \in Players : reader'[p].at = "count" => reader'[p].ack \in peers[p].tx.seen
  PROVE  CheckInv'
<1>1. CheckTypeOK' /\ FunctionsOK'
  <2>1. /\ pings' \subseteq Players \X (1 .. MaxSends) /\ acks' \subseteq Players \X (1 .. MaxSends)
    BY CheckTypes
  <2>2. QED
    BY <2>1, CheckTypes, CheckTypesNext
<1>2. CountsOK'
  BY DEF CheckInv, CountsOK, StatsOK, Spans, Unique
<1>3. SendingOK'
  BY DEF CheckInv, SendingOK
<1>4. \A p \in Players : Written(p)' = Written(p)
  BY DEF Written
<1>5. \A d \in pings' \cup acks' : d[1] \in Players
  BY CheckTypes
<1>6. AnsweredOK'
  BY <1>4, <1>5 DEF CheckInv, AnsweredOK
<1>7. QED
  BY <1>1, <1>2, <1>3, <1>6 DEF CheckInv

\* These steps are quiet.
LEMMA QuietSteps ==
  ASSUME CheckInv,
         \/ SkipNoise \/ TimedOut \/ Tell \/ Lose \/ OtherSender
         \/ \E p \in Players : \/ StopSending(p) \/ EndGrace(p) \/ ReturnResult(p)
                               \/ ReadAck(p) \/ ReadFails(p) \/ ReaderStops(p)
  PROVE  CheckInv'
<1>1. /\ sender \in [Players -> {"write", "record", "grace", "awaiting", "returned", "failed"}]
      /\ reader \in [Players -> Readers] /\ server \in {"serving", "returned"}
      /\ pings \subseteq Players \X (1 .. MaxSends) /\ acks \subseteq Players \X (1 .. MaxSends)
      /\ \A p \in Players : reader[p].at = "count" => reader[p].ack \in peers[p].tx.seen
      /\ \A d \in acks : d[2] \in peers[d[1]].tx.seen
      /\ Reading \in Readers /\ Done \in Readers /\ Reading.at # "count" /\ Done.at # "count"
  BY CheckTypes DEF CheckInv, AnsweredOK, Readers, Reading, Done
<1>2. CASE SkipNoise
  BY <1>1, <1>2, QuietKeeps DEF SkipNoise, counters, serverVars
<1>3. CASE TimedOut
  BY <1>1, <1>3, QuietKeeps DEF TimedOut, counters, netVars
<1>4. CASE Tell
  BY <1>1, <1>4, QuietKeeps DEF Tell, counters, netVars
<1>5. CASE Lose
  <2>1. pings' \subseteq pings /\ acks' \subseteq acks
    BY <1>5 DEF Lose
  <2>2. QED
    BY <1>1, <1>5, <2>1, QuietKeeps DEF Lose, counters, serverVars
<1>6. CASE OtherSender
  BY <1>1, <1>6, QuietKeeps DEF OtherSender, counters, serverVars
<1>7. ASSUME NEW p \in Players, StopSending(p) \/ EndGrace(p) \/ ReturnResult(p) PROVE CheckInv'
  <2>1. /\ sender' \in [Players -> {"write", "record", "grace", "awaiting", "returned", "failed"}]
        /\ \A q \in Players : sender'[q] = "record" <=> sender[q] = "record"
        /\ UNCHANGED <<nextSeq, sent, sentSeq, ackSeq, rtts, peers, failedSends, reader, pings, acks, server>>
    BY <1>1, <1>7 DEF StopSending, EndGrace, ReturnResult, counters, netVars, serverVars
  <2>2. QED
    BY <1>1, <2>1, QuietKeeps
<1>8. ASSUME NEW p \in Players, ReadAck(p) PROVE CheckInv'
  <2>1. PICK a \in acks : /\ a[1] = p /\ acks' = acks \ {a}
                          /\ reader' = [reader EXCEPT ![p] = [at |-> "count", ack |-> a[2]]]
    BY <1>8 DEF ReadAck
  <2>2. a[2] \in 1 .. MaxSends /\ a[2] \in peers[p].tx.seen
    BY <1>1, <2>1
  <2>3. reader' \in [Players -> Readers]
    BY <1>1, <2>1, <2>2 DEF Readers
  <2>4. \A q \in Players : reader'[q].at = "count" => reader'[q].ack \in peers[q].tx.seen
    BY <1>1, <2>1, <2>2
  <2>5. QED
    BY <1>1, <1>8, <2>1, <2>3, <2>4, QuietKeeps DEF ReadAck, counters, serverVars
<1>9. ASSUME NEW p \in Players, ReadFails(p) PROVE CheckInv'
  BY <1>1, <1>9, QuietKeeps DEF ReadFails, serverVars
<1>10. ASSUME NEW p \in Players, ReaderStops(p) PROVE CheckInv'
  <2>1. reader' \in [Players -> Readers]
    BY <1>1, <1>10 DEF ReaderStops
  <2>2. \A q \in Players : reader'[q].at = "count" => reader'[q].ack \in peers[q].tx.seen
    BY <1>1, <1>10 DEF ReaderStops
  <2>3. QED
    BY <1>1, <1>10, <2>1, <2>2, QuietKeeps DEF ReaderStops, counters, netVars, serverVars
<1>11. QED
  BY <1>2, <1>3, <1>4, <1>5, <1>6, <1>7, <1>8, <1>9, <1>10

\* A ping is written, and recorded after that: meanwhile its number is the next.
LEMMA WriteKeeps ==
  ASSUME CheckAssumption, CheckInv, NEW p \in Players, WritePing(p)
  PROVE  CheckInv'
<1>1. /\ sender[p] = "write" /\ nextSeq[p] <= MaxSends
      /\ pings' = pings \cup {<<p, nextSeq[p]>>} /\ sender' = [sender EXCEPT ![p] = "record"]
      /\ UNCHANGED <<nextSeq, sent, sentSeq, ackSeq, rtts, reader, acks, peers, server, failedSends>>
  BY DEF WritePing, counters, serverVars
<1>2. /\ nextSeq[p] \in 1 .. MaxSends
      /\ sender \in [Players -> {"write", "record", "grace", "awaiting", "returned", "failed"}]
  BY <1>1, CheckTypes DEF CheckAssumption
<1>3. /\ sender' \in [Players -> {"write", "record", "grace", "awaiting", "returned", "failed"}]
      /\ sender'[p] = "record" /\ \A q \in Players \ {p} : sender'[q] = sender[q]
  BY <1>1, <1>2
<1>4. CheckTypeOK' /\ FunctionsOK'
  <2>1. pings' \subseteq Players \X (1 .. MaxSends)
    BY <1>1, <1>2, CheckTypes
  <2>2. QED
    BY <1>1, <1>3, <2>1, CheckTypes, CheckTypesNext
<1>5. CountsOK'
  BY <1>1 DEF CheckInv, CountsOK, StatsOK, Spans, Unique
<1>6. SendingOK'
  BY <1>1, <1>3 DEF CheckInv, SendingOK
<1>7. Written(p)' = sent[p] \cup {nextSeq[p]} /\ Written(p) = sent[p] /\ \A q \in Players \ {p} : Written(q)' = Written(q)
  BY <1>1, <1>3 DEF Written
<1>8. AnsweredOK'
  <2>1. \A q \in Players : peers'[q].rx.seen \subseteq Written(q)'
    BY <1>1, <1>7 DEF CheckInv, AnsweredOK
  <2>2. ASSUME NEW d \in pings' PROVE d[2] \in Written(d[1])'
    <3>1. CASE d = <<p, nextSeq[p]>>
      BY <1>7, <3>1
    <3>2. CASE d \in pings
      <4>1. d[2] \in Written(d[1]) /\ d[1] \in Players
        BY <3>2, CheckTypes DEF CheckInv, AnsweredOK
      <4>2. QED
        BY <1>7, <4>1
    <3>3. QED
      BY <1>1, <3>1, <3>2
  <2>3. QED
    BY <1>1, <2>1, <2>2 DEF CheckInv, AnsweredOK
<1>9. QED
  BY <1>4, <1>5, <1>6, <1>8 DEF CheckInv

\* The record adds the number that was written.
LEMMA RecordKeeps ==
  ASSUME CheckAssumption, CheckInv, NEW p \in Players, RecordPing(p)
  PROVE  CheckInv'
<1>1. /\ sender[p] = "record"
      /\ sent' = [sent EXCEPT ![p] = @ \cup {nextSeq[p]}]
      /\ sentSeq' = [sentSeq EXCEPT ![p] = Observe(@, nextSeq[p])]
      /\ nextSeq' = [nextSeq EXCEPT ![p] = @ + 1] /\ sender' = [sender EXCEPT ![p] = "write"]
      /\ UNCHANGED <<ackSeq, rtts, reader, pings, acks, peers, server, failedSends>>
  BY DEF RecordPing, netVars, serverVars
<1>2. PICK n \in 1 .. MaxSends : n = nextSeq[p]
  BY <1>1, CheckTypes DEF CheckInv, SendingOK, CheckAssumption
<1>3. PICK new : new = Observe(sentSeq[p], n)
  OBVIOUS
<1>4. StatsOK(new) /\ new.seen = sent[p] \cup {n} /\ new.reordered = 0 /\ new.duplicate = 0
  <2>1. StatsOK(sentSeq[p]) /\ sentSeq[p].seen = sent[p] /\ sentSeq[p].reordered = 0 /\ sentSeq[p].duplicate = 0
    BY DEF CheckInv, CountsOK, SendingOK
  <2>2. \A k \in sent[p] : k < n
    BY <1>2 DEF CheckInv, SendingOK
  <2>3. QED
    BY <1>3, <2>1, <2>2, ObserveKeeps, ObserveNext
<1>5. /\ sent' \in [Players -> SUBSET (1 .. MaxSends)] /\ sent'[p] = sent[p] \cup {n}
      /\ sentSeq' \in [Players -> Stats] /\ sentSeq'[p] = new
      /\ nextSeq' \in [Players -> 1 .. MaxSends + 1] /\ nextSeq'[p] = n + 1
      /\ sender' \in [Players -> {"write", "record", "grace", "awaiting", "returned", "failed"}] /\ sender'[p] = "write"
      /\ \A q \in Players \ {p} : /\ sent'[q] = sent[q] /\ sentSeq'[q] = sentSeq[q]
                                  /\ nextSeq'[q] = nextSeq[q] /\ sender'[q] = sender[q]
  <2>1. new \in Stats
    BY <1>4 DEF StatsOK
  <2>2. n + 1 \in 1 .. MaxSends + 1
    BY <1>2 DEF CheckAssumption
  <2>3. QED
    BY <1>1, <1>2, <1>3, <2>1, <2>2, CheckTypes
<1>6. CheckTypeOK' /\ FunctionsOK'
  BY <1>1, <1>5, CheckTypes, CheckTypesNext
<1>7. CountsOK'
  BY <1>1, <1>4, <1>5 DEF CheckInv, CountsOK
<1>8. SendingOK'
  <2>1. /\ sent[p] = (1 .. n - 1) \ failedSends[p] /\ failedSends[p] \subseteq 1 .. n - 1
    BY <1>2 DEF CheckInv, SendingOK
  <2>2. sent'[p] = (1 .. nextSeq'[p] - 1) \ failedSends'[p] /\ failedSends'[p] \subseteq 1 .. nextSeq'[p] - 1
    <3>1. 1 .. (n + 1) - 1 = (1 .. n - 1) \cup {n} /\ n \notin 1 .. n - 1
      OBVIOUS
    <3>2. QED
      BY <1>1, <1>5, <2>1, <3>1
  <2>3. QED
    BY <1>1, <1>4, <1>5, <2>2, ZenonT(30) DEF CheckInv, SendingOK
<1>9. \A q \in Players : Written(q)' = Written(q)
  BY <1>1, <1>2, <1>5 DEF Written
<1>10. AnsweredOK'
  <2>1. \A d \in pings : d[1] \in Players
    BY CheckTypes
  <2>2. QED
    BY <1>1, <1>9, <2>1 DEF CheckInv, AnsweredOK
<1>11. QED
  BY <1>6, <1>7, <1>8, <1>10 DEF CheckInv

\* A number whose write failed is not used again.
LEMMA WriteFailsKeeps ==
  ASSUME CheckAssumption, CheckInv, NEW p \in Players, WriteFails(p)
  PROVE  CheckInv'
<1>1. CASE nextSeq[p] = 1
  <2>1. /\ sender[p] = "write" /\ sender' = [sender EXCEPT ![p] = "failed"]
        /\ UNCHANGED <<nextSeq, failedSends, sent, sentSeq, ackSeq, rtts, reader, pings, acks, server, peers>>
    BY <1>1 DEF WriteFails, serverVars
  <2>2. sender' \in [Players -> {"write", "record", "grace", "awaiting", "returned", "failed"}]
    BY <2>1, CheckTypes
  <2>3. \A q \in Players : sender'[q] = "record" <=> sender[q] = "record"
    BY <2>1, CheckTypes
  <2>4. \A q \in Players : reader[q].at = "count" => reader[q].ack \in peers[q].tx.seen
    BY DEF CheckInv, AnsweredOK
  <2>5. QED
    BY <2>1, <2>2, <2>3, <2>4, CheckTypes, QuietKeeps
<1>2. CASE nextSeq[p] # 1
  <2>1. /\ sender[p] = "write" /\ nextSeq[p] <= MaxSends
        /\ nextSeq' = [nextSeq EXCEPT ![p] = @ + 1]
        /\ failedSends' = [failedSends EXCEPT ![p] = @ \cup {nextSeq[p]}]
        /\ UNCHANGED <<sender, sent, sentSeq, ackSeq, rtts, reader, pings, acks, server, peers>>
    BY <1>2 DEF WriteFails, serverVars
  <2>2. PICK n \in 1 .. MaxSends : n = nextSeq[p]
    BY <2>1, CheckTypes DEF CheckAssumption
  <2>3. /\ nextSeq' \in [Players -> 1 .. MaxSends + 1] /\ nextSeq'[p] = n + 1
        /\ failedSends' \in [Players -> SUBSET (1 .. MaxSends)] /\ failedSends'[p] = failedSends[p] \cup {n}
        /\ \A q \in Players \ {p} : nextSeq'[q] = nextSeq[q] /\ failedSends'[q] = failedSends[q]
    <3>1. n + 1 \in 1 .. MaxSends + 1
      BY <2>2 DEF CheckAssumption
    <3>2. QED
      BY <2>1, <2>2, <3>1, CheckTypes
  <2>4. CheckTypeOK' /\ FunctionsOK'
    BY <2>1, <2>3, CheckTypes, CheckTypesNext
  <2>5. CountsOK'
    BY <2>1 DEF CheckInv, CountsOK, StatsOK, Spans, Unique
  <2>6. SendingOK'
    <3>1. /\ sent[p] = (1 .. n - 1) \ failedSends[p] /\ failedSends[p] \subseteq 1 .. n - 1
      BY <2>2 DEF CheckInv, SendingOK
    <3>2. sent'[p] = (1 .. nextSeq'[p] - 1) \ failedSends'[p] /\ failedSends'[p] \subseteq 1 .. nextSeq'[p] - 1
      <4>1. 1 .. (n + 1) - 1 = (1 .. n - 1) \cup {n} /\ n \notin 1 .. n - 1
        OBVIOUS
      <4>2. QED
        BY <2>1, <2>3, <3>1, <4>1
    <3>3. QED
      BY <2>1, <2>3, <3>2 DEF CheckInv, SendingOK
  <2>7. \A q \in Players : Written(q)' = Written(q)
    BY <2>1, <2>3 DEF Written
  <2>8. AnsweredOK'
    <3>1. \A d \in pings : d[1] \in Players
      BY CheckTypes
    <3>2. QED
      BY <2>1, <2>7, <3>1 DEF CheckInv, AnsweredOK
  <2>9. QED
    BY <2>4, <2>5, <2>6, <2>8 DEF CheckInv
<1>3. QED
  BY <1>1, <1>2

\* An ack is counted; what it acknowledges was acknowledged by the server.
LEMMA CountAckKeeps ==
  ASSUME CheckAssumption, CheckInv, NEW p \in Players, CountAck(p)
  PROVE  CheckInv'
<1>1. PICK seq : seq = reader[p].ack
  OBVIOUS
<1>2. /\ reader[p].at = "count" /\ reader' = [reader EXCEPT ![p] = Reading]
      /\ rtts' = [rtts EXCEPT ![p] = IF seq \in sent[p] THEN @ \cup {seq} ELSE @]
      /\ ackSeq' = [ackSeq EXCEPT ![p] = Observe(@, seq)]
      /\ UNCHANGED <<sender, nextSeq, sent, sentSeq, pings, acks, server, peers, failedSends>>
  BY <1>1 DEF CountAck, netVars, serverVars
<1>3. seq \in 1 .. MaxSends /\ seq \in peers[p].tx.seen
  BY <1>1, <1>2, CheckTypes DEF CheckInv, AnsweredOK, Readers, Reading, Done
<1>4. PICK new : new = Observe(ackSeq[p], seq)
  OBVIOUS
<1>5. StatsOK(new) /\ new.seen = ackSeq[p].seen \cup {seq}
  BY <1>3, <1>4, ObserveKeeps DEF CheckInv, CountsOK
<1>6. /\ ackSeq' \in [Players -> Stats] /\ ackSeq'[p] = new
      /\ rtts' \in [Players -> SUBSET (1 .. MaxSends)] /\ rtts'[p] \subseteq rtts[p] \cup {seq}
      /\ reader' \in [Players -> Readers] /\ reader'[p] = Reading
      /\ \A q \in Players \ {p} : ackSeq'[q] = ackSeq[q] /\ rtts'[q] = rtts[q] /\ reader'[q] = reader[q]
  <2>1. new \in Stats /\ Reading \in Readers
    BY <1>5 DEF StatsOK, Readers
  <2>2. QED
    BY <1>2, <1>3, <1>4, <2>1, CheckTypes
<1>7. CheckTypeOK' /\ FunctionsOK'
  BY <1>2, <1>6, CheckTypes, CheckTypesNext
<1>8. CountsOK'
  BY <1>2, <1>5, <1>6 DEF CheckInv, CountsOK
<1>9. SendingOK'
  BY <1>2 DEF CheckInv, SendingOK
<1>10. AnsweredOK'
  <2>1. \A q \in Players : Written(q)' = Written(q)
    BY <1>2 DEF Written
  <2>2. ASSUME NEW q \in Players
        PROVE  /\ rtts'[q] \subseteq ackSeq'[q].seen /\ ackSeq'[q].seen \subseteq peers[q].tx.seen
               /\ reader'[q].at = "count" => reader'[q].ack \in peers[q].tx.seen
    <3>1. CASE q = p
      BY <1>3, <1>5, <1>6, <3>1 DEF CheckInv, AnsweredOK, Reading
    <3>2. CASE q # p
      BY <1>6, <3>2 DEF CheckInv, AnsweredOK
    <3>3. QED
      BY <3>1, <3>2
  <2>3. \A d \in pings : d[1] \in Players
    BY CheckTypes
  <2>4. QED
    BY <1>2, <2>1, <2>2, <2>3 DEF CheckInv, AnsweredOK
<1>11. QED
  BY <1>7, <1>8, <1>9, <1>10 DEF CheckInv

\* The server counts a ping it received, and the ack when it could be written.
LEMMA ServeKeeps ==
  ASSUME CheckAssumption, CheckInv, ServePing
  PROVE  CheckInv'
<1>1. PICK d \in pings : /\ pings' = pings \ {d}
           /\ \/ /\ peers' = [peers EXCEPT ![d[1]].rx = Observe(@, d[2]), ![d[1]].tx = Observe(@, d[2])]
                 /\ acks' = acks \cup {d}
              \/ /\ peers' = [peers EXCEPT ![d[1]].rx = Observe(@, d[2])]
                 /\ UNCHANGED acks
  BY DEF ServePing
<1>2. UNCHANGED <<sender, nextSeq, sent, sentSeq, ackSeq, rtts, reader, server, failedSends>>
  BY DEF ServePing, counters
<1>3. PICK p \in Players, seq \in 1 .. MaxSends : d = <<p, seq>> /\ d[1] = p /\ d[2] = seq
  BY CheckTypes
<1>4. PICK rx, tx : rx = Observe(peers[p].rx, seq) /\ tx = Observe(peers[p].tx, seq)
  OBVIOUS
<1>5. /\ StatsOK(rx) /\ rx.seen = peers[p].rx.seen \cup {seq} /\ rx \in Stats
      /\ StatsOK(tx) /\ tx.seen = peers[p].tx.seen \cup {seq} /\ tx \in Stats
  <2>1. StatsOK(peers[p].rx) /\ StatsOK(peers[p].tx)
    BY DEF CheckInv, CountsOK
  <2>2. QED
    BY <1>3, <1>4, <2>1, ObserveKeeps DEF StatsOK
<1>6. PICK sentBack \in BOOLEAN :
        /\ sentBack => peers' = [peers EXCEPT ![p].rx = rx, ![p].tx = tx] /\ acks' = acks \cup {d}
        /\ ~ sentBack => peers' = [peers EXCEPT ![p].rx = rx] /\ UNCHANGED acks
  <2>1. CASE peers' = [peers EXCEPT ![d[1]].rx = Observe(@, d[2]), ![d[1]].tx = Observe(@, d[2])] /\ acks' = acks \cup {d}
    <3>1. peers' = [peers EXCEPT ![p].rx = rx, ![p].tx = tx]
      BY <1>3, <1>4, <2>1, CheckTypes
    <3>2. QED
      BY <2>1, <3>1
  <2>2. CASE peers' = [peers EXCEPT ![d[1]].rx = Observe(@, d[2])] /\ UNCHANGED acks
    <3>1. peers' = [peers EXCEPT ![p].rx = rx]
      BY <1>3, <1>4, <2>2, CheckTypes
    <3>2. QED
      BY <2>2, <3>1
  <2>3. QED
    BY <1>1, <2>1, <2>2
<1>7. /\ peers' \in [Players -> [rx : Stats, tx : Stats]]
      /\ peers'[p].rx = rx /\ peers'[p].tx = IF sentBack THEN tx ELSE peers[p].tx
      /\ \A q \in Players \ {p} : peers'[q] = peers[q]
  BY <1>5, <1>6, CheckTypes, SMTT(30)
<1>8. acks' \subseteq acks \cup {d} /\ (d \in acks' \ acks => sentBack) /\ pings' \subseteq pings
  BY <1>1, <1>6
<1>9. CheckTypeOK' /\ FunctionsOK'
  <2>1. pings' \subseteq Players \X (1 .. MaxSends) /\ acks' \subseteq Players \X (1 .. MaxSends)
    BY <1>8, CheckTypes
  <2>2. QED
    BY <1>2, <1>7, <2>1, CheckTypes, CheckTypesNext
<1>10. CountsOK'
  BY <1>2, <1>5, <1>7 DEF CheckInv, CountsOK
<1>11. SendingOK'
  BY <1>2 DEF CheckInv, SendingOK
<1>12. AnsweredOK'
  <2>1. \A q \in Players : Written(q)' = Written(q)
    BY <1>2 DEF Written
  <2>2. seq \in Written(p)
    BY <1>3 DEF CheckInv, AnsweredOK
  <2>3. \A q \in Players : peers[q].tx.seen \subseteq peers'[q].tx.seen
    BY <1>5, <1>7
  <2>4. ASSUME NEW q \in Players
        PROVE  peers'[q].tx.seen \subseteq peers'[q].rx.seen /\ peers'[q].rx.seen \subseteq Written(q)
    <3>1. CASE q = p
      BY <1>5, <1>7, <2>2, <3>1 DEF CheckInv, AnsweredOK
    <3>2. CASE q # p
      BY <1>7, <3>2 DEF CheckInv, AnsweredOK
    <3>3. QED
      BY <3>1, <3>2
  <2>5. ASSUME NEW a \in acks' PROVE a[2] \in peers'[a[1]].tx.seen
    <3>1. CASE a \in acks
      <4>1. a[1] \in Players /\ a[2] \in peers[a[1]].tx.seen
        BY <3>1, CheckTypes DEF CheckInv, AnsweredOK
      <4>2. QED
        BY <2>3, <4>1
    <3>2. CASE a \notin acks
      <4>1. a = d /\ sentBack
        BY <1>8, <3>2
      <4>2. QED
        BY <1>3, <1>5, <1>7, <4>1
    <3>3. QED
      BY <3>1, <3>2
  <2>6. ASSUME NEW e \in pings' PROVE e[2] \in Written(e[1])'
    <3>1. e \in pings /\ e[1] \in Players
      BY <1>8, CheckTypes
    <3>2. QED
      BY <2>1, <3>1 DEF CheckInv, AnsweredOK
  <2>7. ASSUME NEW q \in Players
        PROVE  /\ rtts'[q] \subseteq ackSeq'[q].seen /\ ackSeq'[q].seen \subseteq peers'[q].tx.seen
               /\ reader'[q].at = "count" => reader'[q].ack \in peers'[q].tx.seen
    BY <1>2, <2>3 DEF CheckInv, AnsweredOK
  <2>8. QED
    BY <2>1, <2>4, <2>5, <2>6, <2>7 DEF AnsweredOK
<1>13. QED
  BY <1>9, <1>10, <1>11, <1>12 DEF CheckInv

\* The network repeats what was written, and what was acknowledged.
LEMMA RepeatKeeps ==
  ASSUME CheckAssumption, CheckInv, Repeat
  PROVE  CheckInv'
<1>1. PICK p \in Players, seq \in 1 .. MaxSends :
        \/ /\ seq < nextSeq[p] /\ pings' = pings \cup {<<p, seq>>} /\ UNCHANGED acks
           /\ seq \notin failedSends[p]
        \/ seq \in peers[p].tx.seen /\ acks' = acks \cup {<<p, seq>>} /\ UNCHANGED pings
  BY DEF Repeat
<1>2. UNCHANGED <<sender, nextSeq, sent, sentSeq, ackSeq, rtts, reader, server, peers, failedSends>>
  BY DEF Repeat, counters, serverVars
<1>3. CheckTypeOK' /\ FunctionsOK'
  <2>1. pings' \subseteq Players \X (1 .. MaxSends) /\ acks' \subseteq Players \X (1 .. MaxSends)
    BY <1>1, CheckTypes
  <2>2. QED
    BY <1>2, <2>1, CheckTypes, CheckTypesNext
<1>4. CountsOK'
  BY <1>2 DEF CheckInv, CountsOK, StatsOK, Spans, Unique
<1>5. SendingOK'
  BY <1>2 DEF CheckInv, SendingOK
<1>6. \A q \in Players : Written(q)' = Written(q)
  BY <1>2 DEF Written
<1>7. ASSUME NEW d \in pings' PROVE d[2] \in Written(d[1])
  <2>1. CASE d \in pings
    BY <2>1 DEF CheckInv, AnsweredOK
  <2>2. CASE d \notin pings
    <3>1. d = <<p, seq>> /\ seq < nextSeq[p] /\ seq \notin failedSends[p]
      BY <1>1, <2>2
    <3>2. seq \in sent[p]
      <4>1. sent[p] = (1 .. nextSeq[p] - 1) \ failedSends[p] /\ nextSeq[p] \in Int
        BY CheckTypes DEF CheckInv, SendingOK, CheckAssumption
      <4>2. QED
        BY <3>1, <4>1
    <3>3. QED
      BY <3>1, <3>2 DEF Written
  <2>3. QED
    BY <2>1, <2>2
<1>8. ASSUME NEW d \in acks' PROVE d[2] \in peers[d[1]].tx.seen
  BY <1>1 DEF CheckInv, AnsweredOK
<1>9. \A d \in pings' : d[1] \in Players
  BY <1>1, CheckTypes
<1>10. AnsweredOK'
  BY <1>2, <1>6, <1>7, <1>8, <1>9 DEF CheckInv, AnsweredOK
<1>11. QED
  BY <1>3, <1>4, <1>5, <1>10 DEF CheckInv

\* At the start nothing is written.
LEMMA CheckInvInit ==
  ASSUME CheckAssumption, CheckInit
  PROVE  CheckInv
<1> USE DEF CheckInit
<1>1. ZeroStats \in Stats /\ StatsOK(ZeroStats)
  BY DEF ZeroStats, Stats, StatsOK, Spans, CheckAssumption
<1>2. CheckTypeOK /\ FunctionsOK
  BY <1>1 DEF CheckTypeOK, FunctionsOK, CheckAssumption
<1>3. CountsOK
  BY <1>1 DEF CountsOK
<1>4. SendingOK
  BY DEF SendingOK, ZeroStats
<1>5. AnsweredOK
  BY DEF AnsweredOK, ZeroStats, Reading, Written
<1>6. QED
  BY <1>2, <1>3, <1>4, <1>5 DEF CheckInv

\* Every step keeps the invariant.
LEMMA CheckInvStep ==
  ASSUME CheckAssumption, CheckInv, [CheckNext]_checkVars
  PROVE  CheckInv'
<1>1. CASE ServerStep
  BY <1>1, ServeKeeps, QuietSteps DEF ServerStep
<1>2. CASE Tell \/ Lose \/ OtherSender
  BY <1>2, QuietSteps
<1>3. CASE Repeat
  BY <1>3, RepeatKeeps
<1>4. ASSUME NEW p \in Players, SenderStep(p) PROVE CheckInv'
  BY <1>4, WriteKeeps, RecordKeeps, QuietSteps DEF SenderStep
<1>5. ASSUME NEW p \in Players, AckStep(p) PROVE CheckInv'
  BY <1>5, CountAckKeeps, QuietSteps DEF AckStep
<1>6. ASSUME NEW p \in Players, WriteFails(p) \/ ReadFails(p) PROVE CheckInv'
  BY <1>6, WriteFailsKeeps, QuietSteps
<1>7. CASE UNCHANGED checkVars
  <2>1. CheckTypeOK' /\ FunctionsOK'
    BY <1>7 DEF checkVars, CheckInv, CheckTypeOK, FunctionsOK
  <2>2. CountsOK'
    BY <1>7 DEF checkVars, CheckInv, CountsOK, StatsOK, Spans, Unique
  <2>3. SendingOK' /\ AnsweredOK'
    BY <1>7 DEF checkVars, CheckInv, SendingOK, AnsweredOK, Written
  <2>4. QED
    BY <2>1, <2>2, <2>3 DEF CheckInv
<1>8. QED
  BY <1>1, <1>2, <1>3, <1>4, <1>5, <1>6, <1>7 DEF CheckNext

\* The invariant at the end of a player's sending: what it shows as missing are
\* the recorded pings no counted ack answered.
LEMMA MissingCorrect ==
  ASSUME CheckAssumption, CheckInv
  PROVE  MissingIsUnanswered
<1> SUFFICES ASSUME NEW p \in Players, sender[p] = "returned"
             PROVE  /\ MissingOf(p) = Cardinality(sent[p] \ ackSeq[p].seen)
                    /\ rtts[p] \subseteq ackSeq[p].seen
  BY DEF MissingIsUnanswered
<1>1. PICK S, A : S = sent[p] /\ A = ackSeq[p].seen
  OBVIOUS
<1>2. /\ sentSeq[p].seen = S /\ A \subseteq S /\ S \subseteq 1 .. MaxSends
  BY <1>1, CheckTypes DEF CheckInv, SendingOK, AnsweredOK, Written
<1>3. IsFiniteSet(S) /\ IsFiniteSet(A)
  <2>1. IsFiniteSet(1 .. MaxSends)
    BY FS_Interval DEF CheckAssumption
  <2>2. QED
    BY <1>2, <2>1, FS_Subset
<1>4. PICK s, a \in Nat : s = Cardinality(S) /\ a = Cardinality(A) /\ a <= s
  BY <1>2, <1>3, FS_CardinalityType, FS_Subset
<1>5. Cardinality(S \ A) = s - a
  <2>1. S \cap A = A
    BY <1>2
  <2>2. Cardinality(S \ A) = Cardinality(S) - Cardinality(S \cap A)
    BY <1>3, FS_Difference
  <2>3. QED
    BY <1>4, <2>1, <2>2
<1>6. Min({s, a}) = a
  BY <1>4 DEF Min
<1>7. MissingOf(p) = s - Min({s, a})
  BY <1>1, <1>2, <1>4 DEF MissingOf, Unique
<1>8. QED
  BY <1>1, <1>5, <1>6, <1>7 DEF CheckInv, AnsweredOK

\* What each side counted spans the numbers it saw, and a player's own loss is
\* what it could not write.
LEMMA SpansCorrect ==
  ASSUME CheckAssumption, CheckInv
  PROVE  SequencesSpan
<1> SUFFICES ASSUME NEW p \in Players
             PROVE  /\ Spans(sentSeq[p]) /\ Spans(ackSeq[p]) /\ Spans(peers[p].rx) /\ Spans(peers[p].tx)
                    /\ sentSeq[p].reordered + sentSeq[p].duplicate = 0
                    /\ sender[p] = "returned" => sentSeq[p].loss <= Cardinality(failedSends[p])
                    /\ ackSeq[p].seen \subseteq peers[p].tx.seen /\ peers[p].tx.seen \subseteq peers[p].rx.seen
  BY DEF SequencesSpan
<1>1. Spans(sentSeq[p]) /\ Spans(ackSeq[p]) /\ Spans(peers[p].rx) /\ Spans(peers[p].tx)
  BY DEF CheckInv, CountsOK, StatsOK
<1>2. sentSeq[p].reordered = 0 /\ sentSeq[p].duplicate = 0
  BY DEF CheckInv, SendingOK
<1>3. sentSeq[p].loss <= Cardinality(failedSends[p])
  <2>1. PICK st, F, n : st = sentSeq[p] /\ F = failedSends[p] /\ n = nextSeq[p]
    OBVIOUS
  <2>2. /\ st.seen = (1 .. n - 1) \ F /\ F \subseteq 1 .. n - 1 /\ n \in 1 .. MaxSends + 1
        /\ st.reordered = 0 /\ StatsOK(st)
    BY <2>1, CheckTypes DEF CheckInv, SendingOK, CountsOK
  <2>3. n - 1 \in Nat
    BY <2>2 DEF CheckAssumption
  <2>4. IsFiniteSet(1 .. n - 1) /\ Cardinality(1 .. n - 1) = n - 1
    BY <2>3, FS_Interval
  <2>5. IsFiniteSet(F) /\ Cardinality(F) \in Nat
    BY <2>2, <2>4, FS_Subset, FS_CardinalityType
  <2>6. Cardinality(st.seen) = (n - 1) - Cardinality(F)
    <3>1. (1 .. n - 1) \cap F = F
      BY <2>2
    <3>2. Cardinality((1 .. n - 1) \ F) = Cardinality(1 .. n - 1) - Cardinality((1 .. n - 1) \cap F)
      BY <2>4, FS_Difference
    <3>3. QED
      BY <2>2, <2>4, <3>1, <3>2
  <2>7. st.highest \in Int /\ st.first \in Int /\ st.loss \in Nat /\ n \in Int
    BY <2>2 DEF StatsOK, Stats, CheckAssumption
  <2>8. CASE st.initialized
    <3>1. st.highest <= n - 1 /\ st.first >= 1
      <4>1. st.highest \in 1 .. n - 1 /\ st.first \in 1 .. n - 1
        BY <2>2, <2>8 DEF StatsOK
      <4>2. QED
        BY <4>1, <2>7
    <3>2. st.highest - st.first + 1 = Cardinality(st.seen) - st.reordered + st.loss
      BY <2>2, <2>8 DEF StatsOK, Spans, Unique
    <3>3. PICK c : c = Cardinality(F) /\ c \in Nat
      BY <2>5
    <3>4. st.highest - st.first + 1 = (n - 1) - c - 0 + st.loss
      BY <2>2, <2>6, <3>2, <3>3
    <3>5. QED
      BY <2>1, <2>7, <3>1, <3>3, <3>4
  <2>9. CASE ~ st.initialized
    BY <2>1, <2>2, <2>5, <2>9 DEF StatsOK, ZeroStats
  <2>10. QED
    BY <2>8, <2>9
<1>4. QED
  BY <1>1, <1>2, <1>3 DEF CheckInv, AnsweredOK

\* What the summaries of udp-check show is what happened: a player's missing
\* packets are exactly the recorded pings no counted ack answered, and every
\* side's counts add up, however pings, acks and records interleave and the
\* network loses, repeats and reorders.
THEOREM CheckResultsTrue == CheckSpec => []ResultsTrue
<1>1. CheckInit => CheckInv
  BY CheckAssumption, CheckInvInit
<1>2. CheckInv /\ [CheckNext]_checkVars => CheckInv'
  BY CheckAssumption, CheckInvStep
<1>3. CheckInv => ResultsTrue
  BY CheckAssumption, MissingCorrect, SpansCorrect DEF ResultsTrue
<1>4. QED
  BY <1>1, <1>2, <1>3, PTL DEF CheckSpec

=============================================================================

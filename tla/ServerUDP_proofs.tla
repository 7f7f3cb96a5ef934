-------------------------- MODULE ServerUDP_proofs --------------------------
(***************************************************************************)
(* Proofs about what MCServerUDP runs.                                     *)
(*                                                                         *)
(* UDPPeerRelay: the hub's entries are those of the sessions that listen,  *)
(* and a broadcast reaches every peer exactly once.                        *)
(*                                                                         *)
(* UDPStats and FlowMetrics: the loss a flow counts brackets what never    *)
(* arrived, around the modulus of the sequence numbers; the three places a *)
(* datagram is counted in agree, and so does a snapshot of them.           *)
(***************************************************************************)
EXTENDS UDPPeerRelay, UDPStats, FiniteSums, TLAPS


\* A connection that has not failed a write: a stalled client may catch up.
Live(p) == wire[p] \in {"up", "stalled"}

\* A goroutine that has ended, as a number.
Ended(s, g) == IF gor[s][g] = "done" THEN 1 ELSE 0

\* A goroutine reports once, when it ends.
ErrorsOK == \A s \in Sessions : errors[s] <= Ended(s, "rx") + Ended(s, "tx") + Ended(s, "ping")

\* A session has a plugin from its start on, and nothing was sent, delivered or
\* counted for it before.
StartOK == \A s \in Sessions :
  /\ pc[s] = "idle" <=> plugin[s] = NoPlugin
  /\ wire[s] # "lost" => pc[s] = "pump"
  /\ pc[s] = "idle" =>
       /\ \A g \in Goroutines : gor[s][g] = "none"
       /\ sent[s] = 0
       /\ \A o \in Sessions : got[o][s] = 0 /\ got[s][o] = 0 /\ before[o][s] = 0

\* The peers a broadcast still has to write to: fellows under the same plugin,
\* each once, and none when no broadcast is under way.
BroadcastOK == \A s \in Sessions :
  /\ gor[s]["rx"] \in {"list", "lock", "write"} => Hears(s)
  /\ gor[s]["rx"] = "list" => sent[s] > 0
  /\ gor[s]["rx"] \in {"lock", "write"} <=> peer[s] # NoSession
  /\ peer[s] = NoSession => todo[s] = {}
  /\ peer[s] \notin todo[s]
  /\ \A p \in Sessions : p \in todo[s] \/ p = peer[s] => p # s /\ plugin[p] = plugin[s]

Due(s, p) == IF Underway(s, p) THEN 1 ELSE 0

\* What BroadcastExact says of a peer whose connection is up, of every peer that
\* may still be up again.
ExactOK == \A s, p \in Sessions :
  /\ s = p \/ ~ Hears(s) \/ plugin[s] # plugin[p] => got[p][s] = 0
  /\ s # p /\ Live(p) /\ Hears(p) /\ plugin[s] = plugin[p] =>
       got[p][s] + before[p][s] + Due(s, p) = sent[s]

RelayInv == TypeOK /\ ErrorsOK /\ StartOK /\ HubIsWhoListens /\ BroadcastOK /\ ExactOK

-----------------------------------------------------------------------------
(* The operators the steps are made of. *)

\* A goroutine's step is its own.
LEMMA OneStep ==
  ASSUME TypeOK, NEW s \in Sessions, NEW g \in Goroutines,
         NEW label \in {"none", "read", "list", "lock", "write", "done"}, Step(s, g, label)
  PROVE  /\ gor' \in [Sessions -> [Goroutines -> {"none", "read", "list", "lock", "write", "done"}]]
         /\ gor'[s][g] = label
         /\ \A o \in Sessions, h \in Goroutines : o # s \/ h # g => gor'[o][h] = gor[o][h]
BY DEF TypeOK, Step

\* A broadcast goes on with the peers that are left, one of which it writes to
\* next, and ends when there are none.
LEMMA GoOnLeft ==
  ASSUME TypeOK, RelayAssumption, NEW s \in Sessions, NEW left \in SUBSET Sessions, NEW ok \in Nat,
         GoOn(s, left, ok)
  PROVE  /\ gor' \in [Sessions -> [Goroutines -> {"none", "read", "list", "lock", "write", "done"}]]
         /\ todo' \in [Sessions -> SUBSET Sessions]
         /\ peer' \in [Sessions -> Sessions \cup {NoSession}]
         /\ sends' \in [Sessions -> Nat] /\ counted' \in Nat
         /\ \A o \in Sessions \ {s} : todo'[o] = todo[o] /\ peer'[o] = peer[o]
         /\ \A o \in Sessions, h \in Goroutines : o # s \/ h # "rx" => gor'[o][h] = gor[o][h]
         /\ gor'[s]["rx"] \in {"read", "lock"}
         /\ gor'[s]["rx"] = "lock" <=> peer'[s] # NoSession
         /\ peer'[s] = NoSession => todo'[s] = {}
         /\ peer'[s] \notin todo'[s]
         /\ \A p \in Sessions : p \in todo'[s] \/ p = peer'[s] <=> p \in left
<1>0. "rx" \in Goroutines
  BY DEF Goroutines
<1>1. CASE /\ left = {}
           /\ todo' = [todo EXCEPT ![s] = {}]
           /\ peer' = [peer EXCEPT ![s] = NoSession]
           /\ sends' = [sends EXCEPT ![s] = 0]
           /\ CountSends(s, ok)
           /\ Step(s, "rx", "read")
  <2>1. /\ todo'[s] = {} /\ peer'[s] = NoSession
        /\ todo' \in [Sessions -> SUBSET Sessions]
        /\ peer' \in [Sessions -> Sessions \cup {NoSession}]
        /\ sends' \in [Sessions -> Nat] /\ counted' \in Nat
        /\ \A o \in Sessions \ {s} : todo'[o] = todo[o] /\ peer'[o] = peer[o]
    BY <1>1 DEF TypeOK, CountSends
  <2>2. QED
    BY <1>0, <1>1, <2>1, OneStep DEF RelayAssumption
<1>2. ASSUME NEW p \in left,
             todo' = [todo EXCEPT ![s] = left \ {p}],
             peer' = [peer EXCEPT ![s] = p],
             sends' = [sends EXCEPT ![s] = ok],
             Step(s, "rx", "lock"),
             UNCHANGED counted
      PROVE  /\ gor' \in [Sessions -> [Goroutines -> {"none", "read", "list", "lock", "write", "done"}]]
             /\ todo' \in [Sessions -> SUBSET Sessions]
             /\ peer' \in [Sessions -> Sessions \cup {NoSession}]
             /\ sends' \in [Sessions -> Nat] /\ counted' \in Nat
             /\ \A o \in Sessions \ {s} : todo'[o] = todo[o] /\ peer'[o] = peer[o]
             /\ \A o \in Sessions, h \in Goroutines : o # s \/ h # "rx" => gor'[o][h] = gor[o][h]
             /\ gor'[s]["rx"] = "lock" /\ peer'[s] = p /\ todo'[s] = left \ {p}
  <2>1. /\ todo'[s] = left \ {p} /\ peer'[s] = p
        /\ todo' \in [Sessions -> SUBSET Sessions]
        /\ peer' \in [Sessions -> Sessions \cup {NoSession}]
        /\ sends' \in [Sessions -> Nat] /\ counted' \in Nat
        /\ \A o \in Sessions \ {s} : todo'[o] = todo[o] /\ peer'[o] = peer[o]
    BY <1>2 DEF TypeOK
  <2>2. QED
    BY <1>0, <1>2, <2>1, OneStep
<1>3. QED
  BY <1>1, <1>2 DEF GoOn, RelayAssumption

\* What no broadcast and no packet is part of leaves the counts as they are: a
\* connection that has failed does not come back.
LEMMA NoPacketMoves ==
  ASSUME RelayInv, UNCHANGED <<plugin, todo, peer, sent, got, before>>,
         \A o \in Sessions : gor'[o]["rx"] = "list" <=> gor[o]["rx"] = "list",
         \A o \in Sessions : gor'[o]["rx"] \in {"lock", "write"} <=> gor[o]["rx"] \in {"lock", "write"},
         \A o \in Sessions : Live(o)' => Live(o)
  PROVE  BroadcastOK' /\ ExactOK'
<1>1. \A o \in Sessions : Hears(o)' = Hears(o)
  BY DEF Hears
<1>2. BroadcastOK'
  BY <1>1 DEF RelayInv, BroadcastOK
<1>3. \A o, p \in Sessions : Due(o, p)' = Due(o, p)
  BY DEF Due, Underway, At
<1>4. ExactOK'
  BY <1>1, <1>3 DEF RelayInv, ExactOK
<1>5. QED
  BY <1>2, <1>4

\* The hub's entries change only where sessions register and unregister.
LEMMA HubStays ==
  ASSUME RelayInv, UNCHANGED <<hub, pc, plugin>>
  PROVE  HubIsWhoListens'
BY DEF RelayInv, HubIsWhoListens, Listens, Hears

-----------------------------------------------------------------------------
(* The handler's steps. *)

\* A session that registers is told from then on: the packets that were listed
\* before it came are those its fellows have sent, but for the ones they have
\* still to list the peers for.
LEMMA StartStep ==
  ASSUME RelayInv, RelayAssumption, NEW s \in Sessions, NEW p \in Plugins, Start(s, p)
  PROVE  RelayInv'
<1> USE DEF Goroutines
<1>1. /\ pc[s] = "idle" /\ plugin[s] = NoPlugin /\ p # NoPlugin
      /\ sent[s] = 0 /\ gor[s]["rx"] = "none"
      /\ \A o \in Sessions : got[o][s] = 0 /\ got[s][o] = 0 /\ before[o][s] = 0
  BY DEF RelayInv, StartOK, Start, RelayAssumption
<1>2. /\ pc'[s] = "pump" /\ plugin'[s] = p /\ wire'[s] = "up"
      /\ gor'[s]["rx"] = "read" /\ gor'[s]["tx"] = "read" /\ gor'[s]["ping"] \in {"read", "none"}
      /\ \A o \in Sessions \ {s} : /\ pc'[o] = pc[o] /\ plugin'[o] = plugin[o] /\ wire'[o] = wire[o]
                                   /\ gor'[o] = gor[o] /\ before'[o] = before[o]
  BY DEF RelayInv, TypeOK, Start, Goto
<1>3. \A o \in Sessions : before'[s][o] = IF gor[o]["rx"] = "list" THEN sent[o] - 1 ELSE sent[o]
  BY DEF RelayInv, TypeOK, Start, At
<1>4. UNCHANGED <<todo, peer, sends, writer, errors, sent, replies, counted, got, answered>>
  BY DEF Start, inVars
<1>5. \A o \in Sessions : /\ p # plugin[s]
                          /\ s \notin todo[o] /\ s # peer[o]
  BY <1>1 DEF RelayInv, BroadcastOK, TypeOK, Hears, RelayAssumption
<1>6. TypeOK'
  <2>1. pc' \in [Sessions -> {"idle", "pump", "drain", "unregister", "over"}]
    BY DEF RelayInv, TypeOK, Start, Goto
  <2>2. plugin' \in [Sessions -> Plugins \cup {NoPlugin}]
    BY DEF RelayInv, TypeOK, Start
  <2>3. gor' \in [Sessions -> [Goroutines -> {"none", "read", "list", "lock", "write", "done"}]]
    BY DEF RelayInv, TypeOK, Start
  <2>4. wire' \in [Sessions -> {"up", "stalled", "broken", "lost"}]
    BY DEF RelayInv, TypeOK, Start
  <2>5. before' \in [Sessions -> Pairs]
    <3>1. [o \in Sessions |-> IF At(o, "rx", "list") THEN sent[o] - 1 ELSE sent[o]] \in Pairs
      BY DEF RelayInv, TypeOK, BroadcastOK, At, Pairs
    <3>2. QED
      BY <3>1 DEF RelayInv, TypeOK, Start
  <2>6. DOMAIN hub' \subseteq Plugins /\ \A q \in DOMAIN hub' : hub'[q] \subseteq Sessions
    BY DEF RelayInv, TypeOK, Start, Registered
  <2>7. QED
    BY <1>4, <2>1, <2>2, <2>3, <2>4, <2>5, <2>6 DEF RelayInv, TypeOK
<1>7. ErrorsOK'
  <2>1. errors[s] <= 0
    BY <1>1 DEF RelayInv, ErrorsOK, StartOK, Ended
  <2>2. errors'[s] <= (Ended(s, "rx") + Ended(s, "tx") + Ended(s, "ping"))'
    BY <1>2, <1>4, <2>1 DEF Ended
  <2>3. \A o \in Sessions \ {s} : \A g \in Goroutines : Ended(o, g)' = Ended(o, g)
    BY <1>2 DEF Ended
  <2>4. QED
    BY <1>4, <2>2, <2>3 DEF RelayInv, ErrorsOK
<1>8. StartOK'
  <2>1. \A o, q \in Sessions : o # s /\ pc[o] = "idle" => before'[q][o] = 0
    BY <1>2, <1>3 DEF RelayInv, StartOK
  <2>2. ASSUME NEW o \in Sessions, o # s, pc[o] = "idle"
        PROVE  /\ \A g \in Goroutines : gor'[o][g] = "none"
               /\ sent'[o] = 0
               /\ \A q \in Sessions : got'[q][o] = 0 /\ got'[o][q] = 0 /\ before'[q][o] = 0
    BY <1>2, <1>4, <2>1, <2>2 DEF RelayInv, StartOK
  <2>3. \A o \in Sessions : (pc'[o] = "idle" <=> plugin'[o] = NoPlugin) /\ (wire'[o] # "lost" => pc'[o] = "pump")
    BY <1>1, <1>2 DEF RelayInv, StartOK
  <2>4. QED
    BY <1>2, <2>2, <2>3 DEF StartOK
<1>9. HubIsWhoListens'
  <2>1. \A o \in Sessions \ {s} : Listens(o)' = Listens(o)
    BY <1>2 DEF Listens, Hears
  <2>2. ~ Listens(s) /\ (Listens(s)' <=> p \in PeerBroadcast)
    BY <1>1, <1>2 DEF Listens, Hears
  <2>3. CASE p \notin PeerBroadcast
    BY <1>2, <2>1, <2>2, <2>3 DEF RelayInv, HubIsWhoListens, Start
  <2>4. CASE p \in PeerBroadcast
    <3>1. hub' = [q \in DOMAIN hub \cup {p} |-> Registered(q) \cup (IF q = p THEN {s} ELSE {})]
      BY <2>4 DEF Start
    <3>2. \A q \in DOMAIN hub \cup {p} : Registered(q) = {o \in Sessions : Listens(o) /\ plugin[o] = q}
      BY DEF RelayInv, HubIsWhoListens, Registered
    <3>3. \A q \in DOMAIN hub' : hub'[q] = {o \in Sessions : Listens(o)' /\ plugin'[o] = q}
      BY <1>2, <2>1, <2>2, <2>4, <3>1, <3>2
    <3>4. \A q \in DOMAIN hub' : hub'[q] # {}
      BY <3>1 DEF RelayInv, HubIsWhoListens, Registered
    <3>5. \A o \in Sessions : Listens(o)' => plugin'[o] \in DOMAIN hub'
      BY <1>2, <2>1, <3>1 DEF RelayInv, HubIsWhoListens
    <3>6. QED
      BY <3>3, <3>4, <3>5 DEF HubIsWhoListens
  <2>5. QED
    BY <2>3, <2>4
<1>10. \A o \in Sessions \ {s} : Hears(o)' = Hears(o)
  BY <1>2 DEF Hears
<1>11. BroadcastOK'
  BY <1>1, <1>2, <1>4, <1>5, <1>10 DEF RelayInv, BroadcastOK
<1>12. ExactOK'
  <2>1. ASSUME NEW o \in Sessions, NEW q \in Sessions
        PROVE  Due(o, q)' = IF o = s THEN 0 ELSE Due(o, q)
    BY <1>1, <1>2, <1>4 DEF Due, Underway, At, RelayInv, BroadcastOK, TypeOK
  <2>2. ASSUME NEW o \in Sessions, NEW q \in Sessions, o = q \/ ~ Hears(o)' \/ plugin'[o] # plugin'[q]
        PROVE  got'[q][o] = 0
    BY <1>1, <1>2, <1>4, <1>10, <2>2 DEF RelayInv, ExactOK
  <2>3. ASSUME NEW o \in Sessions, NEW q \in Sessions,
               o # q, Live(q)', Hears(q)', plugin'[o] = plugin'[q]
        PROVE  got'[q][o] + before'[q][o] + Due(o, q)' = sent'[o]
    <3>1. CASE q = s
      BY <1>1, <1>3, <1>4, <1>5, <2>1, <2>3, <3>1 DEF Due, Underway, At, RelayInv, TypeOK, Pairs
    <3>2. CASE o = s
      BY <1>1, <1>2, <1>4, <2>1, <2>3, <3>2
    <3>3. CASE q # s /\ o # s
      BY <1>2, <1>4, <1>10, <2>1, <2>3, <3>3 DEF RelayInv, ExactOK, Live
    <3>4. QED
      BY <3>1, <3>2, <3>3
  <2>4. QED
    BY <2>2, <2>3 DEF ExactOK
<1>13. QED
  BY <1>6, <1>7, <1>8, <1>9, <1>11, <1>12 DEF RelayInv

\* What a step of a started session does not touch.
LEMMA StartStays ==
  ASSUME RelayInv, NEW s \in Sessions, pc[s] # "idle", UNCHANGED <<plugin, before>>,
         \A o \in Sessions : pc'[o] = "idle" <=> pc[o] = "idle",
         \A o \in Sessions : wire'[o] # "lost" => wire[o] # "lost" /\ pc'[o] = pc[o],
         \A o \in Sessions \ {s} : sent'[o] = sent[o] /\ \A g \in Goroutines : gor'[o][g] = gor[o][g],
         \A o, q \in Sessions : pc[o] = "idle" \/ pc[q] = "idle" => got'[q][o] = got[q][o]
  PROVE  StartOK'
<1>1. ASSUME NEW o \in Sessions, pc[o] = "idle"
      PROVE  /\ \A g \in Goroutines : gor'[o][g] = "none"
             /\ sent'[o] = 0
             /\ \A q \in Sessions : got'[q][o] = 0 /\ got'[o][q] = 0 /\ before'[q][o] = 0
  BY <1>1 DEF RelayInv, StartOK
<1>2. \A o \in Sessions : (pc'[o] = "idle" <=> plugin'[o] = NoPlugin) /\ (wire'[o] # "lost" => pc'[o] = "pump")
  BY DEF RelayInv, StartOK
<1>3. QED
  BY <1>1, <1>2 DEF StartOK

\* A goroutine that reports ends, and its session's errors stay within the
\* number of those that have.
LEMMA ReportOnce ==
  ASSUME RelayInv, NEW s \in Sessions, NEW g \in Goroutines, gor[s][g] # "done", Report(s, g)
  PROVE  /\ errors' \in [Sessions -> 0 .. 3]
         /\ ErrorsOK'
         /\ gor' \in [Sessions -> [Goroutines -> {"none", "read", "list", "lock", "write", "done"}]]
         /\ gor'[s][g] = "done"
         /\ \A o \in Sessions, h \in Goroutines : o # s \/ h # g => gor'[o][h] = gor[o][h]
<1>1. /\ gor' \in [Sessions -> [Goroutines -> {"none", "read", "list", "lock", "write", "done"}]]
      /\ gor'[s][g] = "done"
      /\ \A o \in Sessions, h \in Goroutines : o # s \/ h # g => gor'[o][h] = gor[o][h]
  BY OneStep DEF RelayInv, Report
<1>2. /\ errors'[s] = errors[s] + 1 /\ \A o \in Sessions \ {s} : errors'[o] = errors[o]
      /\ errors' = [errors EXCEPT ![s] = @ + 1] /\ errors \in [Sessions -> 0 .. 3]
  BY DEF RelayInv, TypeOK, Report
<1>3. /\ \A h \in Goroutines : Ended(s, h)' = IF h = g THEN 1 ELSE Ended(s, h)
      /\ Ended(s, g) = 0
      /\ \A o \in Sessions \ {s} : \A h \in Goroutines : Ended(o, h)' = Ended(o, h)
      /\ \A o \in Sessions : \A h \in Goroutines : Ended(o, h) \in {0, 1}
  BY <1>1 DEF Ended
<1>4. /\ errors[s] <= Ended(s, "rx") + Ended(s, "tx") + Ended(s, "ping")
      /\ g \in {"rx", "tx", "ping"} /\ {"rx", "tx", "ping"} \subseteq Goroutines
  BY DEF RelayInv, ErrorsOK, Goroutines
<1> DEFINE E(h) == Ended(s, h)  F(h) == Ended(s, h)'
<1>a. /\ errors[s] <= E("rx") + E("tx") + E("ping") /\ errors[s] \in 0 .. 3
      /\ \A h \in {"rx", "tx", "ping"} : E(h) \in {0, 1} /\ F(h) = IF h = g THEN 1 ELSE E(h)
      /\ E(g) = 0
  BY <1>2, <1>3, <1>4
<1>b. errors[s] < 3 /\ errors[s] + 1 <= F("rx") + F("tx") + F("ping")
  <2> HIDE DEF E, F
  <2>1. CASE g = "rx"
    BY <1>a, <2>1
  <2>2. CASE g = "tx"
    BY <1>a, <2>2
  <2>3. CASE g = "ping"
    BY <1>a, <2>3
  <2>4. QED
    BY <1>4, <2>1, <2>2, <2>3
<1>5. errors'[s] <= Ended(s, "rx")' + Ended(s, "tx")' + Ended(s, "ping")'
  BY <1>2, <1>b
<1>6. \A o \in Sessions \ {s} : errors'[o] <= Ended(o, "rx")' + Ended(o, "tx")' + Ended(o, "ping")'
  BY <1>2, <1>3, <1>4 DEF RelayInv, ErrorsOK
<1>7. errors' \in [Sessions -> 0 .. 3]
  BY <1>2, <1>b
<1>9. QED
  BY <1>1, <1>5, <1>6, <1>7 DEF ErrorsOK

\* No report, no change of the errors: nothing that has ended runs again.
LEMMA ErrorsStay ==
  ASSUME RelayInv, \A o \in Sessions : errors'[o] <= errors[o] /\ errors'[o] \in 0 .. 3,
         \A o \in Sessions, g \in Goroutines : gor[o][g] = "done" => gor'[o][g] = "done"
  PROVE  ErrorsOK'
<1>1. {"rx", "tx", "ping"} \subseteq Goroutines
  BY DEF Goroutines
<1>2. \A o \in Sessions, g \in Goroutines : Ended(o, g) \in {0, 1} /\ Ended(o, g)' \in {0, 1} /\ Ended(o, g) <= Ended(o, g)'
  BY DEF Ended
<1>3. ASSUME NEW o \in Sessions
      PROVE  errors'[o] <= Ended(o, "rx")' + Ended(o, "tx")' + Ended(o, "ping")'
  <2>1. errors[o] \in 0 .. 3 /\ errors'[o] \in 0 .. 3 /\ errors'[o] <= errors[o]
        /\ errors[o] <= Ended(o, "rx") + Ended(o, "tx") + Ended(o, "ping")
    BY DEF RelayInv, TypeOK, ErrorsOK
  <2> DEFINE E(g) == Ended(o, g)  F(g) == Ended(o, g)'
  <2>2. \A g \in {"rx", "tx", "ping"} : E(g) \in {0, 1} /\ F(g) \in {0, 1} /\ E(g) <= F(g)
    BY <1>1, <1>2
  <2>3. errors[o] <= E("rx") + E("tx") + E("ping")
    BY <2>1
  <2> HIDE DEF E, F
  <2>4. errors'[o] <= F("rx") + F("tx") + F("ping")
    BY <2>1, <2>2, <2>3
  <2>5. QED
    BY <2>4 DEF F
<1>4. QED
  BY <1>3 DEF ErrorsOK

\* The handler takes errors, closes the connection and leaves the hub.
LEMMA HandlerKeeps ==
  ASSUME RelayInv, RelayAssumption, NEW s \in Sessions, HandlerStep(s)
  PROVE  RelayInv'
<1>1. CASE FirstError(s) \/ SecondError(s)
  <2>1. /\ errors' = [errors EXCEPT ![s] = @ - 1] /\ errors[s] > 0
        /\ pc[s] \in {"pump", "drain"} /\ pc' = [pc EXCEPT ![s] = IF pc[s] = "pump" THEN "drain" ELSE "unregister"]
        /\ wire' \in {wire, [wire EXCEPT ![s] = "lost"]} /\ (pc[s] = "pump" => wire' = [wire EXCEPT ![s] = "lost"])
        /\ UNCHANGED <<hub, plugin, gor, todo, peer, sends, writer, sent, replies, counted, got, answered, before>>
    BY <1>1 DEF FirstError, SecondError, Goto, goVars, inVars, histVars
  <2>2. /\ errors' \in [Sessions -> 0 .. 3] /\ \A o \in Sessions : errors'[o] <= errors[o]
        /\ wire' \in [Sessions -> {"up", "stalled", "broken", "lost"}]
        /\ pc' \in [Sessions -> {"idle", "pump", "drain", "unregister", "over"}]
        /\ \A o \in Sessions \ {s} : pc'[o] = pc[o] /\ wire'[o] = wire[o]
        /\ pc'[s] \in {"drain", "unregister"} /\ wire'[s] \in {wire[s], "lost"}
        /\ pc[s] = "pump" => wire'[s] = "lost"
    <3>1. /\ errors \in [Sessions -> 0 .. 3] /\ wire \in [Sessions -> {"up", "stalled", "broken", "lost"}]
          /\ pc \in [Sessions -> {"idle", "pump", "drain", "unregister", "over"}]
      BY DEF RelayInv, TypeOK
    <3>2. errors' \in [Sessions -> 0 .. 3] /\ \A o \in Sessions : errors'[o] <= errors[o]
      BY <2>1, <3>1
    <3>3. /\ wire' \in [Sessions -> {"up", "stalled", "broken", "lost"}]
          /\ \A o \in Sessions \ {s} : wire'[o] = wire[o]
          /\ wire'[s] \in {wire[s], "lost"} /\ (pc[s] = "pump" => wire'[s] = "lost")
      BY <2>1, <3>1
    <3>4. /\ pc' \in [Sessions -> {"idle", "pump", "drain", "unregister", "over"}]
          /\ \A o \in Sessions \ {s} : pc'[o] = pc[o]
          /\ pc'[s] \in {"drain", "unregister"}
      BY <2>1, <3>1
    <3>5. QED
      BY <3>2, <3>3, <3>4
  <2>3. TypeOK'
    BY <2>1, <2>2 DEF RelayInv, TypeOK
  <2>4. ErrorsOK'
    BY <2>1, <2>2, ErrorsStay
  <2>5. StartOK'
    <3>1. wire[s] # "lost" => pc[s] = "pump"
      BY DEF RelayInv, StartOK
    <3>2. \A o \in Sessions : wire'[o] # "lost" => wire[o] # "lost" /\ pc'[o] = pc[o]
      BY <2>1, <2>2, <3>1
    <3>3. \A o \in Sessions : pc'[o] = "idle" <=> pc[o] = "idle"
      BY <2>1, <2>2
    <3>4. QED
      BY <2>1, <3>2, <3>3, StartStays
  <2>6. HubIsWhoListens'
    <3>1. \A o \in Sessions : Listens(o)' = Listens(o)
      BY <2>1, <2>2 DEF Listens, Hears
    <3>2. QED
      BY <2>1, <3>1 DEF RelayInv, HubIsWhoListens
  <2>7. BroadcastOK' /\ ExactOK'
    BY <2>1, <2>2, NoPacketMoves DEF Live
  <2>8. QED
    BY <2>3, <2>4, <2>5, <2>6, <2>7 DEF RelayInv
<1>2. CASE Unregister(s)
  <2>1. /\ pc[s] = "unregister" /\ pc' = [pc EXCEPT ![s] = "over"]
        /\ hub' = [p \in {p \in DOMAIN hub : hub[p] # {s}} |-> hub[p] \ {s}]
        /\ UNCHANGED <<plugin, gor, todo, peer, sends, writer, wire, errors, sent, replies, counted, got, answered, before>>
    BY <1>2 DEF Unregister, Goto, goVars, inVars, histVars
  <2>2. /\ pc' \in [Sessions -> {"idle", "pump", "drain", "unregister", "over"}]
        /\ pc'[s] = "over" /\ \A o \in Sessions \ {s} : pc'[o] = pc[o]
    BY <2>1 DEF RelayInv, TypeOK
  <2>3. DOMAIN hub' \subseteq DOMAIN hub /\ \A p \in DOMAIN hub' : hub'[p] = hub[p] \ {s}
    BY <2>1
  <2>4. TypeOK'
    BY <2>1, <2>2, <2>3 DEF RelayInv, TypeOK
  <2>5. ErrorsOK'
    BY <2>1 DEF RelayInv, ErrorsOK, Ended
  <2>6. StartOK'
    <3>1. wire[s] = "lost"
      BY <2>1 DEF RelayInv, StartOK
    <3>2. QED
      BY <2>1, <2>2, <3>1, StartStays
  <2>7. HubIsWhoListens'
    <3>1. ~ Listens(s)' /\ \A o \in Sessions \ {s} : Listens(o)' = Listens(o)
      BY <2>1, <2>2 DEF Listens, Hears
    <3>2. \A p \in DOMAIN hub' : hub'[p] # {} /\ hub'[p] = {o \in Sessions : Listens(o)' /\ plugin'[o] = p}
      BY <2>1, <3>1 DEF RelayInv, HubIsWhoListens
    <3>3. ASSUME NEW o \in Sessions, Listens(o)' PROVE plugin'[o] \in DOMAIN hub'
      BY <2>1, <3>1, <3>3 DEF RelayInv, HubIsWhoListens
    <3>4. QED
      BY <3>2, <3>3 DEF HubIsWhoListens
  <2>8. BroadcastOK' /\ ExactOK'
    BY <2>1, NoPacketMoves DEF Live
  <2>9. QED
    BY <2>4, <2>5, <2>6, <2>7, <2>8 DEF RelayInv
<1>3. QED
  BY <1>1, <1>2 DEF HandlerStep

-----------------------------------------------------------------------------
(* The goroutines' steps. *)

Keeps == UNCHANGED <<hub, pc, plugin, sent, got, before>>

\* A write that fails breaks a stalled connection for good.
LEMMA FailedWrite ==
  ASSUME TypeOK, NEW p \in Sessions, WriteFails(p)
  PROVE  /\ wire' \in [Sessions -> {"up", "stalled", "broken", "lost"}]
         /\ \A o \in Sessions : Live(o)' => Live(o)
         /\ \A o \in Sessions : wire'[o] # "lost" => wire[o] # "lost"
         /\ ~ Live(p)'
<1>1. wire \in [Sessions -> {"up", "stalled", "broken", "lost"}]
  BY DEF TypeOK
<1>2. /\ wire[p] \in {"broken", "lost", "stalled"}
      /\ wire' = [wire EXCEPT ![p] = IF wire[p] = "stalled" THEN "broken" ELSE wire[p]]
  BY DEF WriteFails
<1>3. QED
  BY <1>1, <1>2 DEF Live

\* A step of the tx goroutine or of the pinger that reports no error, and the
\* rx goroutine's taking of the lock.
LEMMA PlainStep ==
  ASSUME RelayInv, NEW s \in Sessions, NEW g \in Goroutines, Keeps, UNCHANGED <<todo, peer, sends, wire, errors>>,
         NEW label \in {"read", "lock", "write", "done"}, Step(s, g, label),
         gor[s][g] \in {"read", "lock", "write"},
         g = "rx" => gor[s]["rx"] = "lock" /\ label = "write",
         writer' \in [Sessions -> (Sessions \X {"rx", "tx"}) \cup {NoWriter}],
         replies' \in Nat, counted' \in Nat, answered' \in Nat
  PROVE  RelayInv'
<1>1. /\ gor' \in [Sessions -> [Goroutines -> {"none", "read", "list", "lock", "write", "done"}]]
      /\ gor'[s][g] = label
      /\ \A o \in Sessions, h \in Goroutines : o # s \/ h # g => gor'[o][h] = gor[o][h]
  BY OneStep DEF RelayInv
<1>2. "rx" \in Goroutines
  BY DEF Goroutines
<1>3. TypeOK'
  BY <1>1 DEF RelayInv, TypeOK, Keeps
<1>4. ErrorsOK'
  <2>1. \A o \in Sessions : errors'[o] <= errors[o] /\ errors'[o] \in 0 .. 3
    BY DEF RelayInv, TypeOK
  <2>2. \A o \in Sessions, h \in Goroutines : gor[o][h] = "done" => gor'[o][h] = "done"
    BY <1>1
  <2>3. QED
    BY <2>1, <2>2, ErrorsStay
<1>5. StartOK'
  <2>1. pc[s] # "idle"
    BY DEF RelayInv, StartOK
  <2>2. QED
    BY <1>1, <2>1, StartStays DEF Keeps
<1>6. HubIsWhoListens'
  BY HubStays DEF Keeps
<1>7. BroadcastOK' /\ ExactOK'
  <2>1. \A o \in Sessions : gor'[o]["rx"] = gor[o]["rx"]
                            \/ (gor[o]["rx"] = "lock" /\ gor'[o]["rx"] = "write")
    BY <1>1, <1>2
  <2>2. QED
    BY <2>1, NoPacketMoves DEF Keeps, Live
<1>8. QED
  BY <1>3, <1>4, <1>5, <1>6, <1>7 DEF RelayInv

\* A goroutine ends with an error: no packet is on its way in it.
LEMMA ReportStep ==
  ASSUME RelayInv, NEW s \in Sessions, NEW g \in Goroutines, Keeps, Report(s, g),
         UNCHANGED <<todo, peer, sends, replies, counted, answered>>,
         gor[s][g] \in {"read", "write"}, g = "rx" => gor[s]["rx"] = "read",
         writer' \in [Sessions -> (Sessions \X {"rx", "tx"}) \cup {NoWriter}],
         wire' \in [Sessions -> {"up", "stalled", "broken", "lost"}],
         \A o \in Sessions : Live(o)' => Live(o),
         \A o \in Sessions : wire'[o] # "lost" => wire[o] # "lost"
  PROVE  RelayInv'
<1>1. /\ errors' \in [Sessions -> 0 .. 3]
      /\ ErrorsOK'
      /\ gor' \in [Sessions -> [Goroutines -> {"none", "read", "list", "lock", "write", "done"}]]
      /\ gor'[s][g] = "done"
      /\ \A o \in Sessions, h \in Goroutines : o # s \/ h # g => gor'[o][h] = gor[o][h]
  BY ReportOnce
<1>2. "rx" \in Goroutines
  BY DEF Goroutines
<1>3. TypeOK'
  BY <1>1 DEF RelayInv, TypeOK, Keeps
<1>4. StartOK'
  <2>1. pc[s] # "idle"
    BY DEF RelayInv, StartOK
  <2>2. QED
    BY <1>1, <2>1, StartStays DEF Keeps
<1>5. HubIsWhoListens'
  BY HubStays DEF Keeps
<1>6. BroadcastOK' /\ ExactOK'
  <2>1. \A o \in Sessions : gor'[o]["rx"] = gor[o]["rx"]
                            \/ (gor[o]["rx"] = "read" /\ gor'[o]["rx"] = "done")
    BY <1>1, <1>2
  <2>2. QED
    BY <2>1, NoPacketMoves DEF Keeps
<1>7. QED
  BY <1>1, <1>3, <1>4, <1>5, <1>6 DEF RelayInv

\* The replies, the pings and the failures.
LEMMA OtherSteps ==
  ASSUME RelayInv, NEW s \in Sessions,
         \/ LockPeer(s) \/ ReadReply(s) \/ TxStep(s) \/ PingStep(s) \/ Degrade(s)
         \/ \E g \in Goroutines : ReadFails(s, g)
  PROVE  RelayInv'
<1> USE DEF Goroutines
<1>1. /\ writer \in [Sessions -> (Sessions \X {"rx", "tx"}) \cup {NoWriter}]
      /\ wire \in [Sessions -> {"up", "stalled", "broken", "lost"}]
      /\ peer \in [Sessions -> Sessions \cup {NoSession}]
      /\ replies \in Nat /\ counted \in Nat /\ answered \in Nat
      /\ TypeOK
  BY DEF RelayInv, TypeOK
<1>2. CASE LockPeer(s)
  <2>1. writer' \in [Sessions -> (Sessions \X {"rx", "tx"}) \cup {NoWriter}]
    BY <1>1, <1>2 DEF LockPeer, At
  <2>2. QED
    BY <1>1, <1>2, <2>1, PlainStep DEF LockPeer, At, Keeps, inVars, histVars
<1>3. CASE ReadReply(s)
  BY <1>1, <1>3, PlainStep DEF ReadReply, At, Keeps, histVars
<1>4. CASE LockOwn(s)
  <2>1. writer' \in [Sessions -> (Sessions \X {"rx", "tx"}) \cup {NoWriter}]
    BY <1>1, <1>4 DEF LockOwn
  <2>2. QED
    BY <1>1, <1>4, <2>1, PlainStep DEF LockOwn, At, Keeps, inVars, histVars
<1>5. CASE WriteReply(s)
  <2>1. writer' \in [Sessions -> (Sessions \X {"rx", "tx"}) \cup {NoWriter}]
    BY <1>1, <1>5 DEF WriteReply
  <2>2. QED
    BY <1>1, <1>5, <2>1, PlainStep DEF WriteReply, At, Keeps, inVars
<1>6. CASE ReplyFails(s)
  <2>1. writer' \in [Sessions -> (Sessions \X {"rx", "tx"}) \cup {NoWriter}]
    BY <1>1, <1>6 DEF ReplyFails
  <2>2. /\ wire' \in [Sessions -> {"up", "stalled", "broken", "lost"}]
        /\ \A o \in Sessions : Live(o)' => Live(o)
        /\ \A o \in Sessions : wire'[o] # "lost" => wire[o] # "lost"
    BY <1>1, <1>6, FailedWrite DEF ReplyFails
  <2>3. QED
    BY <1>6, <2>1, <2>2, ReportStep DEF ReplyFails, At, Keeps, inVars, histVars
<1>7. CASE PingFails(s)
  <2>1. /\ wire' \in [Sessions -> {"up", "stalled", "broken", "lost"}]
        /\ \A o \in Sessions : Live(o)' => Live(o)
        /\ \A o \in Sessions : wire'[o] # "lost" => wire[o] # "lost"
    BY <1>1, <1>7 DEF PingFails, Live
  <2>2. QED
    BY <1>1, <1>7, <2>1, ReportStep DEF PingFails, At, Keeps, inVars, histVars
<1>8. CASE PingStops(s)
  BY <1>1, <1>8, PlainStep DEF PingStops, At, Keeps, inVars, histVars
<1>9. CASE Degrade(s)
  <2>1. /\ wire' \in [Sessions -> {"up", "stalled", "broken", "lost"}]
        /\ \A o \in Sessions : Live(o)' => Live(o)
        /\ \A o \in Sessions : wire'[o] # "lost" => wire[o] # "lost"
        /\ \A o \in Sessions : o # s => wire'[o] = wire[o]
    BY <1>1, <1>9 DEF Degrade, Live
  <2>2. UNCHANGED <<hub, pc, plugin, goVars, writer, errors, inVars, histVars>>
    BY <1>9 DEF Degrade
  <2>3. TypeOK'
    BY <2>1, <2>2 DEF RelayInv, TypeOK, goVars, inVars, histVars
  <2>4. ErrorsOK'
    BY <2>2 DEF RelayInv, ErrorsOK, Ended, goVars
  <2>5. StartOK'
    BY <2>1, <2>2 DEF RelayInv, StartOK, goVars, inVars, histVars
  <2>6. HubIsWhoListens'
    BY <2>2, HubStays
  <2>7. BroadcastOK' /\ ExactOK'
    BY <2>1, <2>2, NoPacketMoves DEF goVars, inVars, histVars
  <2>8. QED
    BY <2>3, <2>4, <2>5, <2>6, <2>7 DEF RelayInv
<1>10. ASSUME NEW g \in Goroutines, ReadFails(s, g) PROVE RelayInv'
  BY <1>1, <1>10, ReportStep DEF ReadFails, At, Keeps, inVars, histVars, Live
<1>11. QED
  BY <1>2, <1>3, <1>4, <1>5, <1>6, <1>7, <1>8, <1>9, <1>10 DEF TxStep, PingStep

-----------------------------------------------------------------------------
(* A packet's way to the peers. *)

\* A packet is due to everyone until its peers have been listed.
LEMMA ReadPacketKeeps ==
  ASSUME RelayInv, RelayAssumption, NEW s \in Sessions, ReadPacket(s)
  PROVE  RelayInv'
<1>1. /\ gor[s]["rx"] = "read" /\ "rx" \in Goroutines
      /\ Step(s, "rx", IF Hears(s) THEN "list" ELSE "read")
      /\ sent' = [sent EXCEPT ![s] = @ + 1]
      /\ UNCHANGED <<hub, pc, plugin, todo, peer, sends, writer, wire, errors, replies, counted, got, answered, before>>
  BY DEF ReadPacket, At, histVars, Goroutines
<1>2. /\ gor' \in [Sessions -> [Goroutines -> {"none", "read", "list", "lock", "write", "done"}]]
      /\ gor'[s]["rx"] = IF Hears(s) THEN "list" ELSE "read"
      /\ \A o \in Sessions, h \in Goroutines : o # s \/ h # "rx" => gor'[o][h] = gor[o][h]
  BY <1>1, OneStep DEF RelayInv
<1>3. /\ sent' \in Pairs /\ sent'[s] = sent[s] + 1 /\ sent[s] \in Nat
      /\ \A o \in Sessions \ {s} : sent'[o] = sent[o]
  BY <1>1 DEF RelayInv, TypeOK, Pairs
<1>4. TypeOK'
  BY <1>1, <1>2, <1>3 DEF RelayInv, TypeOK
<1>5. ErrorsOK'
  <2>1. \A o \in Sessions : errors'[o] <= errors[o] /\ errors'[o] \in 0 .. 3
    BY <1>1 DEF RelayInv, TypeOK
  <2>2. \A o \in Sessions, h \in Goroutines : gor[o][h] = "done" => gor'[o][h] = "done"
    BY <1>1, <1>2
  <2>3. QED
    BY <2>1, <2>2, ErrorsStay
<1>6. StartOK'
  <2>1. pc[s] # "idle"
    BY <1>1 DEF RelayInv, StartOK
  <2>2. QED
    BY <1>1, <1>2, <1>3, <2>1, StartStays
<1>7. HubIsWhoListens'
  BY <1>1, HubStays
<1>8. \A o \in Sessions : Hears(o)' = Hears(o)
  BY <1>1 DEF Hears
<1>9. BroadcastOK'
  BY <1>1, <1>2, <1>3, <1>8 DEF RelayInv, BroadcastOK
<1>10. ExactOK'
  <2>1. peer[s] = NoSession /\ todo[s] = {}
    BY <1>1 DEF RelayInv, BroadcastOK
  <2>2. ASSUME NEW o \in Sessions, NEW q \in Sessions
        PROVE  Due(o, q)' = IF o = s /\ Hears(s) THEN 1 ELSE Due(o, q)
    BY <1>1, <1>2, <2>1 DEF Due, Underway, At
  <2>3. \A q \in Sessions : Due(s, q) = 0
    BY <1>1, <2>1 DEF Due, Underway, At, RelayAssumption
  <2>4. ASSUME NEW o \in Sessions, NEW q \in Sessions, o # q, Live(q)', Hears(q)', plugin'[o] = plugin'[q]
        PROVE  got'[q][o] + before'[q][o] + Due(o, q)' = sent'[o]
    <3>1. got[q][o] + before[q][o] + Due(o, q) = sent[o]
      BY <1>1, <1>8, <2>4 DEF RelayInv, ExactOK, Live
    <3>2. got[q][o] \in Nat /\ before[q][o] \in Nat
      BY DEF RelayInv, TypeOK, Pairs
    <3>3. o = s => Hears(s)
      BY <1>1, <2>4 DEF Hears
    <3>4. QED
      BY <1>1, <1>3, <2>2, <2>3, <3>1, <3>2, <3>3
  <2>5. QED
    BY <1>1, <1>8, <2>4 DEF RelayInv, ExactOK
<1>11. QED
  BY <1>4, <1>5, <1>6, <1>7, <1>9, <1>10 DEF RelayInv

\* What a broadcast that goes on leaves as it was.
LEMMA GoOnKeeps ==
  ASSUME RelayInv, RelayAssumption, NEW s \in Sessions, NEW left \in SUBSET Sessions, NEW ok \in Nat,
         GoOn(s, left, ok), gor[s]["rx"] \in {"list", "lock", "write"},
         \A p \in left : p # s /\ plugin[p] = plugin[s],
         UNCHANGED <<hub, pc, plugin, errors, sent, replies, answered, before>>,
         writer' \in [Sessions -> (Sessions \X {"rx", "tx"}) \cup {NoWriter}],
         wire' \in [Sessions -> {"up", "stalled", "broken", "lost"}],
         \A o \in Sessions : wire'[o] # "lost" => wire[o] # "lost",
         got' \in [Sessions -> Pairs],
         \A o, q \in Sessions : pc[o] = "idle" \/ pc[q] = "idle" => got'[q][o] = got[q][o]
  PROVE  TypeOK' /\ ErrorsOK' /\ StartOK' /\ HubIsWhoListens' /\ BroadcastOK'
<1>1. TypeOK
  BY DEF RelayInv
<1>2. /\ gor' \in [Sessions -> [Goroutines -> {"none", "read", "list", "lock", "write", "done"}]]
      /\ todo' \in [Sessions -> SUBSET Sessions]
      /\ peer' \in [Sessions -> Sessions \cup {NoSession}]
      /\ sends' \in [Sessions -> Nat] /\ counted' \in Nat
      /\ \A o \in Sessions \ {s} : todo'[o] = todo[o] /\ peer'[o] = peer[o]
      /\ \A o \in Sessions, h \in Goroutines : o # s \/ h # "rx" => gor'[o][h] = gor[o][h]
      /\ gor'[s]["rx"] \in {"read", "lock"}
      /\ gor'[s]["rx"] = "lock" <=> peer'[s] # NoSession
      /\ peer'[s] = NoSession => todo'[s] = {}
      /\ peer'[s] \notin todo'[s]
      /\ \A p \in Sessions : p \in todo'[s] \/ p = peer'[s] <=> p \in left
  BY <1>1, GoOnLeft
<1>3. "rx" \in Goroutines
  BY DEF Goroutines
<1>4. TypeOK'
  BY <1>1, <1>2 DEF TypeOK
<1>5. ErrorsOK'
  <2>1. \A o \in Sessions : errors'[o] <= errors[o] /\ errors'[o] \in 0 .. 3
    BY <1>1 DEF TypeOK
  <2>2. \A o \in Sessions, h \in Goroutines : gor[o][h] = "done" => gor'[o][h] = "done"
    BY <1>2
  <2>3. QED
    BY <2>1, <2>2, ErrorsStay
<1>6. StartOK'
  <2>1. pc[s] # "idle"
    BY <1>3 DEF RelayInv, StartOK
  <2>2. QED
    BY <1>2, <2>1, StartStays
<1>7. HubIsWhoListens'
  BY HubStays
<1>8. BroadcastOK'
  <2>1. \A o \in Sessions : Hears(o)' = Hears(o)
    BY DEF Hears
  <2>2. Hears(s)
    BY DEF RelayInv, BroadcastOK
  <2>3. ASSUME NEW o \in Sessions, o # s
        PROVE  /\ gor'[o]["rx"] = gor[o]["rx"]
               /\ gor[o]["rx"] \in {"list", "lock", "write"} => Hears(o)
               /\ gor[o]["rx"] = "list" => sent[o] > 0
               /\ gor[o]["rx"] \in {"lock", "write"} <=> peer[o] # NoSession
               /\ peer[o] = NoSession => todo[o] = {}
               /\ peer[o] \notin todo[o]
               /\ \A p \in Sessions : p \in todo[o] \/ p = peer[o] => p # o /\ plugin[p] = plugin[o]
    <3>1. gor'[o]["rx"] = gor[o]["rx"]
      BY <1>2, <1>3, <2>3
    <3>2. QED
      BY <3>1 DEF RelayInv, BroadcastOK
  <2>4. ASSUME NEW o \in Sessions, o # s
        PROVE  /\ gor'[o]["rx"] \in {"list", "lock", "write"} => Hears(o)'
               /\ gor'[o]["rx"] = "list" => sent'[o] > 0
               /\ gor'[o]["rx"] \in {"lock", "write"} <=> peer'[o] # NoSession
               /\ peer'[o] = NoSession => todo'[o] = {}
               /\ peer'[o] \notin todo'[o]
               /\ \A p \in Sessions : p \in todo'[o] \/ p = peer'[o] => p # o /\ plugin'[p] = plugin'[o]
    <3>1. todo'[o] = todo[o] /\ peer'[o] = peer[o] /\ plugin' = plugin /\ sent' = sent
      BY <1>2, <2>4
    <3>2. QED
      BY <2>1, <2>3, <2>4, <3>1
  <2>5. /\ gor'[s]["rx"] \in {"list", "lock", "write"} => Hears(s)'
        /\ gor'[s]["rx"] # "list"
        /\ gor'[s]["rx"] \in {"lock", "write"} <=> peer'[s] # NoSession
        /\ peer'[s] = NoSession => todo'[s] = {}
        /\ peer'[s] \notin todo'[s]
        /\ \A p \in Sessions : p \in todo'[s] \/ p = peer'[s] => p # s /\ plugin'[p] = plugin'[s]
    BY <1>2, <2>1, <2>2
  <2>6. QED
    BY <2>4, <2>5 DEF BroadcastOK
<1>9. QED
  BY <1>4, <1>5, <1>6, <1>7, <1>8

\* The peers are those that listen at the moment they are listed, and a peer
\* that may be up again is one of them.
LEMMA ListPeersKeeps ==
  ASSUME RelayInv, RelayAssumption, NEW s \in Sessions, ListPeers(s)
  PROVE  RelayInv'
<1> DEFINE left == Registered(plugin[s]) \ {s}
<1>1. /\ gor[s]["rx"] = "list" /\ GoOn(s, left, 0)
      /\ UNCHANGED <<hub, pc, plugin, writer, wire, errors, sent, replies, got, answered, before>>
  BY DEF ListPeers, At, inVars
<1>2. left \subseteq Sessions /\ \A p \in left : p # s /\ plugin[p] = plugin[s]
  BY DEF RelayInv, TypeOK, HubIsWhoListens, Registered
<1>3. TypeOK /\ 0 \in Nat /\ "rx" \in Goroutines
  BY DEF RelayInv, Goroutines
<1>4. TypeOK' /\ ErrorsOK' /\ StartOK' /\ HubIsWhoListens' /\ BroadcastOK'
  <2>1. /\ writer' \in [Sessions -> (Sessions \X {"rx", "tx"}) \cup {NoWriter}]
        /\ wire' \in [Sessions -> {"up", "stalled", "broken", "lost"}]
        /\ got' \in [Sessions -> Pairs]
    BY <1>1 DEF RelayInv, TypeOK
  <2> HIDE DEF left
  <2>2. QED
    BY <1>1, <1>2, <1>3, <2>1, GoOnKeeps
<1>5. \A p \in Sessions : p # s /\ Live(p) /\ Hears(p) /\ plugin[p] = plugin[s] => p \in left
  BY DEF RelayInv, StartOK, HubIsWhoListens, Registered, Listens, Live
<1>6. /\ gor'[s]["rx"] \in {"read", "lock"}
      /\ \A o \in Sessions \ {s} : todo'[o] = todo[o] /\ peer'[o] = peer[o] /\ gor'[o]["rx"] = gor[o]["rx"]
      /\ \A p \in Sessions : p \in todo'[s] \/ p = peer'[s] <=> p \in left
  <2> HIDE DEF left
  <2>1. /\ gor'[s]["rx"] \in {"read", "lock"}
        /\ \A o \in Sessions \ {s} : todo'[o] = todo[o] /\ peer'[o] = peer[o]
        /\ \A o \in Sessions, h \in Goroutines : o # s \/ h # "rx" => gor'[o][h] = gor[o][h]
        /\ \A q \in Sessions : q \in todo'[s] \/ q = peer'[s] <=> q \in left
    BY <1>1, <1>2, <1>3, GoOnLeft
  <2>2. QED
    BY <1>3, <2>1
<1>7. ExactOK'
  <2>1. \A o \in Sessions : Hears(o)' = Hears(o) /\ Live(o)' = Live(o)
    BY <1>1 DEF Hears, Live
  <2>2. ASSUME NEW o \in Sessions, NEW p \in Sessions, o # p, Live(p), Hears(p), plugin[o] = plugin[p]
        PROVE  Due(o, p)' = Due(o, p)
    BY <1>1, <1>5, <1>6, <2>2 DEF Due, Underway, At
  <2>3. QED
    BY <1>1, <2>1, <2>2 DEF RelayInv, ExactOK
<1>8. QED
  BY <1>4, <1>7 DEF RelayInv

\* A peer has got the packet, or its connection has failed for good: either way
\* the packet is no longer due to it, and to the others as before.
LEMMA WriteKeeps ==
  ASSUME RelayInv, RelayAssumption, NEW s \in Sessions, WriteToPeer(s) \/ PeerFails(s)
  PROVE  RelayInv'
<1>0. PICK p \in Sessions : p = peer[s]
  <2>1. peer[s] # NoSession
    BY DEF RelayInv, BroadcastOK, WriteToPeer, PeerFails, At
  <2>2. QED
    BY <2>1 DEF RelayInv, TypeOK
<1>1. /\ gor[s]["rx"] = "write" /\ "rx" \in Goroutines
      /\ UNCHANGED <<hub, pc, plugin, errors, sent, replies, answered, before>>
      /\ writer' = [writer EXCEPT ![p] = NoWriter]
  BY <1>0 DEF WriteToPeer, PeerFails, At, inVars, Goroutines
<1>2. /\ p \in Sessions /\ p # s /\ p \notin todo[s] /\ plugin[p] = plugin[s] /\ Hears(s)
      /\ todo[s] \subseteq Sessions
      /\ \A q \in todo[s] : q # s /\ plugin[q] = plugin[s]
  <2>1. /\ peer \in [Sessions -> Sessions \cup {NoSession}]
        /\ todo \in [Sessions -> SUBSET Sessions]
    BY DEF RelayInv, TypeOK
  <2>2. peer[s] # NoSession /\ Hears(s) /\ peer[s] \notin todo[s]
    BY <1>1 DEF RelayInv, BroadcastOK
  <2>3. \A q \in Sessions : q \in todo[s] \/ q = peer[s] => q # s /\ plugin[q] = plugin[s]
    BY DEF RelayInv, BroadcastOK
  <2>4. QED
    BY <1>0, <2>1, <2>2, <2>3
<1>3. PICK ok \in Nat : GoOn(s, todo[s], ok)
  <2>1. sends[s] \in Nat
    BY DEF RelayInv, TypeOK
  <2>2. sends[s] + 1 \in Nat
    BY <2>1
  <2>3. QED
    BY <2>1, <2>2 DEF WriteToPeer, PeerFails
<1>4. TypeOK
  BY DEF RelayInv
<1>5. pc[s] # "idle" /\ pc[p] # "idle"
  <2>1. plugin[s] # NoPlugin
    BY <1>2 DEF Hears, RelayAssumption
  <2>2. QED
    BY <1>2, <2>1 DEF RelayInv, StartOK
<1>6. /\ wire' \in [Sessions -> {"up", "stalled", "broken", "lost"}]
      /\ \A o \in Sessions : wire'[o] # "lost" => wire[o] # "lost"
      /\ \A o \in Sessions : Live(o)' => Live(o)
  <2>1. CASE WriteToPeer(s)
    BY <1>4, <2>1 DEF WriteToPeer, TypeOK, Live
  <2>2. CASE PeerFails(s)
    BY <1>0, <1>4, <2>2, FailedWrite DEF PeerFails
  <2>3. QED
    BY <2>1, <2>2
<1>7. /\ got' \in [Sessions -> Pairs]
      /\ \A o, q \in Sessions : o # s \/ q # p => got'[q][o] = got[q][o]
      /\ Live(p)' => got'[p][s] = got[p][s] + 1
  <2>1. got \in [Sessions -> [Sessions -> Nat]]
    BY <1>4 DEF TypeOK, Pairs
  <2>2. CASE WriteToPeer(s)
    <3>1. got' = [got EXCEPT ![p][s] = @ + 1]
      BY <1>0, <2>2 DEF WriteToPeer
    <3>2. QED
      BY <1>2, <2>1, <3>1 DEF Pairs
  <2>3. CASE PeerFails(s)
    <3>1. got' = got /\ WriteFails(p)
      BY <1>0, <2>3 DEF PeerFails
    <3>2. ~ Live(p)'
      BY <1>2, <1>4, <3>1, FailedWrite
    <3>3. QED
      BY <2>1, <3>1, <3>2 DEF Pairs
  <2>4. QED
    BY <2>2, <2>3
<1>8. writer' \in [Sessions -> (Sessions \X {"rx", "tx"}) \cup {NoWriter}]
  BY <1>1, <1>4 DEF TypeOK
<1>9. TypeOK' /\ ErrorsOK' /\ StartOK' /\ HubIsWhoListens' /\ BroadcastOK'
  <2>1. \A o, q \in Sessions : pc[o] = "idle" \/ pc[q] = "idle" => got'[q][o] = got[q][o]
    BY <1>5, <1>7
  <2>2. QED
    BY <1>1, <1>2, <1>3, <1>6, <1>7, <1>8, <2>1, GoOnKeeps
<1>10. /\ gor'[s]["rx"] \in {"read", "lock"}
       /\ \A o \in Sessions \ {s} : todo'[o] = todo[o] /\ peer'[o] = peer[o] /\ gor'[o]["rx"] = gor[o]["rx"]
       /\ \A q \in Sessions : q \in todo'[s] \/ q = peer'[s] <=> q \in todo[s]
  <2>1. todo[s] \in SUBSET Sessions
    BY <1>2
  <2>2. /\ gor'[s]["rx"] \in {"read", "lock"}
        /\ \A o \in Sessions \ {s} : todo'[o] = todo[o] /\ peer'[o] = peer[o]
        /\ \A o \in Sessions, h \in Goroutines : o # s \/ h # "rx" => gor'[o][h] = gor[o][h]
        /\ \A q \in Sessions : q \in todo'[s] \/ q = peer'[s] <=> q \in todo[s]
    BY <1>3, <1>4, <2>1, GoOnLeft, ZenonT(30)
  <2>3. QED
    BY <1>1, <2>2
<1>11. ExactOK'
  <2>1. \A o \in Sessions : Hears(o)' = Hears(o)
    BY <1>1 DEF Hears
  <2>2. /\ \A o, q \in Sessions : o # s \/ q # p => Due(o, q)' = Due(o, q)
        /\ Due(s, p) = 1 /\ Due(s, p)' = 0
    <3>1. \A o, q \in Sessions : o # s => Due(o, q)' = Due(o, q)
      BY <1>10 DEF Due, Underway, At
    <3>2. \A q \in Sessions : Underway(s, q)' <=> q \in todo[s]
      BY <1>10 DEF Underway, At
    <3>3. \A q \in Sessions : Underway(s, q) <=> q \in todo[s] \/ q = p
      BY <1>0, <1>1 DEF Underway, At
    <3>4. \A q \in Sessions : q # p => Due(s, q)' = Due(s, q)
      BY <3>2, <3>3 DEF Due
    <3>5. Due(s, p) = 1 /\ Due(s, p)' = 0
      BY <1>2, <3>2, <3>3 DEF Due
    <3>6. QED
      BY <3>1, <3>4, <3>5
  <2>3. ASSUME NEW o \in Sessions, NEW q \in Sessions, o = q \/ ~ Hears(o)' \/ plugin'[o] # plugin'[q]
        PROVE  got'[q][o] = 0
    BY <1>1, <1>2, <1>7, <2>1, <2>3 DEF RelayInv, ExactOK
  <2>4. ASSUME NEW o \in Sessions, NEW q \in Sessions, o # q, Live(q)', Hears(q)', plugin'[o] = plugin'[q]
        PROVE  got'[q][o] + before'[q][o] + Due(o, q)' = sent'[o]
    <3>1. got[q][o] + before[q][o] + Due(o, q) = sent[o]
      BY <1>1, <1>6, <2>1, <2>4 DEF RelayInv, ExactOK
    <3>2. got[q][o] \in Nat /\ before[q][o] \in Nat
      BY DEF RelayInv, TypeOK, Pairs
    <3>3. before' = before /\ sent' = sent
      BY <1>1
    <3>4. CASE o = s /\ q = p
      BY <1>7, <2>2, <2>4, <3>1, <3>2, <3>3, <3>4
    <3>5. CASE o # s \/ q # p
      BY <1>7, <2>2, <3>1, <3>3, <3>5
    <3>6. QED
      BY <3>4, <3>5
  <2>5. QED
    BY <2>3, <2>4 DEF ExactOK
<1>12. QED
  BY <1>9, <1>11 DEF RelayInv

-----------------------------------------------------------------------------
(* The theorems. *)

\* Every step keeps the invariant.
LEMMA RelayInvStep ==
  ASSUME RelayInv, RelayAssumption, [Next]_vars
  PROVE  RelayInv'
<1>1. ASSUME NEW s \in Sessions, NEW p \in Plugins, Start(s, p) PROVE RelayInv'
  BY <1>1, StartStep
<1>2. ASSUME NEW s \in Sessions, HandlerStep(s) PROVE RelayInv'
  BY <1>2, HandlerKeeps
<1>3. ASSUME NEW s \in Sessions, RxStep(s) PROVE RelayInv'
  BY <1>3, ListPeersKeeps, WriteKeeps, OtherSteps DEF RxStep
<1>4. ASSUME NEW s \in Sessions, TxStep(s) \/ PingStep(s) \/ ReadReply(s) \/ Degrade(s) PROVE RelayInv'
  BY <1>4, OtherSteps
<1>5. ASSUME NEW s \in Sessions, ReadPacket(s) PROVE RelayInv'
  BY <1>5, ReadPacketKeeps
<1>6. ASSUME NEW s \in Sessions, NEW g \in Goroutines, ReadFails(s, g) PROVE RelayInv'
  BY <1>6, OtherSteps
<1>7. CASE UNCHANGED vars
  <2>1. \A o \in Sessions : Live(o)' = Live(o) /\ Hears(o)' = Hears(o) /\ Listens(o)' = Listens(o)
    BY <1>7 DEF vars, Live, Hears, Listens
  <2>2. TypeOK' /\ ErrorsOK' /\ StartOK' /\ HubIsWhoListens'
    BY <1>7, <2>1 DEF vars, goVars, inVars, histVars, RelayInv, TypeOK, ErrorsOK, Ended, StartOK, HubIsWhoListens
  <2>3. BroadcastOK' /\ ExactOK'
    BY <1>7, <2>1, NoPacketMoves DEF vars, goVars, inVars, histVars
  <2>4. QED
    BY <2>2, <2>3 DEF RelayInv
<1>8. QED
  BY <1>1, <1>2, <1>3, <1>4, <1>5, <1>6, <1>7 DEF Next

\* It holds before any session has started.
LEMMA RelayInvInit ==
  ASSUME RelayAssumption, Init
  PROVE  RelayInv
<1>1. TypeOK
  BY DEF Init, TypeOK, Pairs, NoWriter
<1>2. ErrorsOK /\ StartOK /\ HubIsWhoListens
  <2>1. DOMAIN hub = {}
    BY DEF Init
  <2>2. \A s \in Sessions : ~ Listens(s)
    BY DEF Init, Listens
  <2>3. HubIsWhoListens
    BY <2>1, <2>2 DEF HubIsWhoListens
  <2>4. ErrorsOK
    BY DEF Init, ErrorsOK, Ended, Goroutines
  <2>5. StartOK
    BY DEF Init, StartOK
  <2>6. QED
    BY <2>3, <2>4, <2>5
<1>3. \A s \in Sessions : ~ Hears(s) /\ gor[s]["rx"] = "none" /\ peer[s] = NoSession /\ todo[s] = {}
  BY DEF Init, Hears, RelayAssumption, Goroutines
<1>4. BroadcastOK
  BY <1>3 DEF BroadcastOK, RelayAssumption
<1>5. ExactOK
  BY <1>3 DEF Init, ExactOK
<1>6. QED
  BY <1>1, <1>2, <1>4, <1>5 DEF RelayInv

\* The invariant holds in every state.
LEMMA RelayInvHolds == Spec => []RelayInv
BY RelayInvInit, RelayInvStep, RelayAssumption, PTL DEF Spec

\* The hub lists the sessions that are between their registration and the end of
\* their handler, and keeps no entry for a plugin without one (udp_peer_hub.go).
THEOREM HubListsListeners == Spec => []HubIsWhoListens
<1>1. RelayInv => HubIsWhoListens
  BY DEF RelayInv
<1>2. QED
  BY <1>1, RelayInvHolds, PTL

\* A broadcast reaches every peer whose connection is up exactly once, and nobody
\* else, however the sessions start, stall, fail and end meanwhile (BroadcastFrom).
THEOREM BroadcastReachesAll == Spec => []BroadcastExact
<1>1. RelayInv => BroadcastExact
  BY DEF RelayInv, ExactOK, BroadcastExact, Live, Listens, Due
<1>2. QED
  BY <1>1, RelayInvHolds, PTL

-----------------------------------------------------------------------------
(* Sequence numbers. *)

\* The modulus is a positive number of two equal halves.
LEMMA ModulusHalves ==
  /\ Modulo \in Nat /\ Modulo >= 4 /\ Modulo \div 2 \in Nat
  /\ Modulo = 2 * (Modulo \div 2)
BY ModuloAssumption

\* A number that is a multiple of the modulus away from a sequence number is that
\* number modulo the modulus.
LEMMA ModuloUnique ==
  ASSUME NEW k \in Int, NEW r \in Seqs
  PROVE  (Modulo * k + r) % Modulo = r
<1>1. Modulo \in Nat /\ Modulo >= 4 /\ r \in Int /\ 0 <= r /\ r < Modulo
  BY ModulusHalves DEF Seqs
<1>2. QED
  BY <1>1

\* Division by the modulus, as an equation.
LEMMA ModuloDivides ==
  ASSUME NEW a \in Int
  PROVE  /\ (a % Modulo) \in Seqs /\ (a \div Modulo) \in Int
         /\ a = Modulo * (a \div Modulo) + (a % Modulo)
<1>1. (a % Modulo) \in Int /\ 0 <= (a % Modulo) /\ (a % Modulo) < Modulo
  BY ModulusHalves
<1>2. QED
  BY <1>1, ModulusHalves DEF Seqs

\* A position that lies d positions on, less than a modulus, is d sequence numbers
\* on, around the modulus.
LEMMA ModuloAdds ==
  ASSUME NEW a \in Int, NEW d \in Seqs
  PROVE  (a + d) % Modulo = IF (a % Modulo) + d < Modulo THEN (a % Modulo) + d
                                                       ELSE (a % Modulo) + d - Modulo
<1> DEFINE q == a \div Modulo
           r == a % Modulo
<1>1. q \in Int /\ r \in Seqs /\ a = Modulo * q + r
  BY ModuloDivides
<1>2. Modulo \in Nat
  BY ModulusHalves
<1> HIDE DEF q, r
<1>3. r \in Nat /\ d \in Nat /\ r < Modulo /\ d < Modulo /\ Seqs \subseteq Int
  BY <1>1, <1>2 DEF Seqs
<1>4. CASE r + d < Modulo
  <2>1. r + d \in Seqs
    BY <1>2, <1>3, <1>4 DEF Seqs
  <2>2. a + d = Modulo * q + (r + d)
    BY <1>1, <1>2, <1>3
  <2>3. QED
    BY <1>1, <1>4, <2>1, <2>2, ModuloUnique DEF r
<1>5. CASE ~ (r + d < Modulo)
  <2>1. r + d - Modulo \in Seqs
    BY <1>2, <1>3, <1>5 DEF Seqs
  <2>2. a + d = Modulo * (q + 1) + (r + d - Modulo)
    BY <1>1, <1>2, <1>3
  <2>3. q + 1 \in Int
    BY <1>1
  <2>4. QED
    BY <1>5, <2>1, <2>2, <2>3, ModuloUnique DEF r
<1>6. QED
  BY <1>4, <1>5 DEF r

\* The distance the code computes is the distance in the stream, when that is
\* less than a modulus.
LEMMA DistanceIsForward ==
  ASSUME NEW a \in Int, NEW d \in Seqs
  PROVE  SeqForwardDistance(a % Modulo, (a + d) % Modulo) = d
<1>1. (a % Modulo) \in Seqs
  BY ModuloDivides
<1>2. PICK r \in Seqs : r = a % Modulo
  BY <1>1
<1>3. (a + d) % Modulo = IF r + d < Modulo THEN r + d ELSE r + d - Modulo
  BY <1>2, ModuloAdds
<1>4. Modulo \in Nat /\ r \in Nat /\ d \in Nat /\ r < Modulo /\ d < Modulo
  BY ModulusHalves DEF Seqs
<1>5. QED
  BY <1>2, <1>3, <1>4 DEF SeqForwardDistance

\* A position behind is as far ahead as the modulus has left.
LEMMA DistanceWraps ==
  ASSUME NEW a \in Int, NEW d \in Seqs
  PROVE  (a - Modulo + d) % Modulo = (a + d) % Modulo
<1>1. (a % Modulo) \in Seqs /\ (a \div Modulo) \in Int
      /\ a = Modulo * (a \div Modulo) + (a % Modulo)
  BY ModuloDivides
<1>2. PICK r \in Seqs, q \in Int : r = a % Modulo /\ a = Modulo * q + r
  BY <1>1
<1>3. Modulo \in Nat /\ r \in Int /\ Seqs \subseteq Int
  BY ModulusHalves DEF Seqs
<1>4. a - Modulo = Modulo * (q - 1) + r /\ q - 1 \in Int /\ a - Modulo \in Int
  BY <1>2, <1>3
<1>5. (a - Modulo) % Modulo = r
  BY <1>4, ModuloUnique
<1>6. (a + d) % Modulo = IF r + d < Modulo THEN r + d ELSE r + d - Modulo
  BY <1>2, ModuloAdds
<1>7. (a - Modulo + d) % Modulo = IF r + d < Modulo THEN r + d ELSE r + d - Modulo
  <2>1. PICK b \in Int : b = a - Modulo
    BY <1>4
  <2>2. (b + d) % Modulo = IF (b % Modulo) + d < Modulo THEN (b % Modulo) + d
                                                        ELSE (b % Modulo) + d - Modulo
    BY ModuloAdds
  <2>3. b % Modulo = r
    BY <1>5, <2>1
  <2>4. QED
    BY <2>1, <2>2, <2>3
<1>8. QED
  BY <1>6, <1>7

-----------------------------------------------------------------------------
(* What a datagram does to a flow. *)

\* Its size is counted, and its sequence not touched.
LEMMA SizedCounts ==
  ASSUME NEW f \in Flow, NEW n \in Nat
  PROVE  /\ Sized(f, n) \in Flow
         /\ Sized(f, n).packets = f.packets + 1
         /\ Sized(f, n).seqInitialized = f.seqInitialized
         /\ Sized(f, n).nextExpected = f.nextExpected
         /\ Sized(f, n).seqPackets = f.seqPackets
         /\ Sized(f, n).loss = f.loss
         /\ Sized(f, n).reordered = f.reordered
         /\ Sized(f, n).duplicate = f.duplicate
<1> DEFINE a == f.over1200 + One(AboveConservativeMTU(n))
           b == f.over1400 + One(AboveTunnelHOLRisk(n))
           c == f.over1472 + One(AboveIPv4UDPFragmentRisk(n))
           m == IF n > f.maxPayload THEN n ELSE f.maxPayload
<1>1. Sized(f, n) = [f EXCEPT !.packets = f.packets + 1, !.maxPayload = m, !.over1200 = a,
                              !.over1400 = b, !.over1472 = c]
  BY DEF Sized
<1>2. a \in Nat /\ b \in Nat /\ c \in Nat /\ m \in Nat /\ f.packets + 1 \in Nat
  BY DEF Flow, One
<1> HIDE DEF a, b, c, m
<1>3. Sized(f, n) = [packets |-> f.packets + 1, over1200 |-> a, over1400 |-> b, over1472 |-> c,
         maxPayload |-> m, seqPackets |-> f.seqPackets, loss |-> f.loss,
         reordered |-> f.reordered, duplicate |-> f.duplicate,
         seqInitialized |-> f.seqInitialized, nextExpected |-> f.nextExpected]
  BY <1>1 DEF Flow
<1>4. f.seqPackets \in Nat /\ f.loss \in Nat /\ f.reordered \in Nat /\ f.duplicate \in Nat
      /\ f.seqInitialized \in BOOLEAN /\ f.nextExpected \in Seqs
  BY DEF Flow
<1>5. Sized(f, n) \in Flow
  BY <1>2, <1>3, <1>4 DEF Flow
<1>6. QED
  BY <1>3, <1>5

\* The sequence that follows a sequence is one.
LEMMA FollowsType ==
  ASSUME NEW seq \in Seqs
  PROVE  Follows(seq) \in Seqs
<1>1. seq + 1 \in Int
  BY ModulusHalves DEF Seqs
<1>2. QED
  BY <1>1, ModuloDivides DEF Follows

\* A distance is a number of sequences, less than a modulus.
LEMMA DistanceType ==
  ASSUME NEW expected \in Seqs, NEW received \in Seqs
  PROVE  SeqForwardDistance(expected, received) \in Seqs
BY ModulusHalves DEF Seqs, SeqForwardDistance

\* A flow with one sequenced datagram more.
Moved(f, next, lost, late, repeated) ==
  [packets |-> f.packets, over1200 |-> f.over1200, over1400 |-> f.over1400,
   over1472 |-> f.over1472, maxPayload |-> f.maxPayload, seqPackets |-> f.seqPackets + 1,
   loss |-> f.loss + lost, reordered |-> f.reordered + late,
   duplicate |-> f.duplicate + repeated, seqInitialized |-> TRUE, nextExpected |-> next]

\* It is a flow.
LEMMA MovedType ==
  ASSUME NEW f \in Flow, NEW next \in Seqs, NEW lost \in Nat, NEW late \in Nat, NEW repeated \in Nat
  PROVE  Moved(f, next, lost, late, repeated) \in Flow
<1>1. f.packets \in Nat /\ f.over1200 \in Nat /\ f.over1400 \in Nat /\ f.over1472 \in Nat
      /\ f.maxPayload \in Nat
  BY DEF Flow
<1>2. f.seqPackets + 1 \in Nat /\ f.loss + lost \in Nat /\ f.reordered + late \in Nat
      /\ f.duplicate + repeated \in Nat
  BY DEF Flow
<1>3. QED
  BY <1>1, <1>2 DEF Moved, Flow

\* The four ways a sequenced datagram is counted: the first, a new one, the last
\* one again, a late one.
LEMMA SequencedMoves ==
  ASSUME NEW f \in Flow, NEW seq \in Seqs,
         NEW d \in Seqs, d = SeqForwardDistance(f.nextExpected, seq)
  PROVE  /\ ~ f.seqInitialized => Sequenced(f, seq) = Moved(f, Follows(seq), 0, 0, 0)
         /\ f.seqInitialized /\ d < Modulo \div 2 =>
              Sequenced(f, seq) = Moved(f, Follows(seq), d, 0, 0)
         /\ f.seqInitialized /\ d >= Modulo \div 2 /\ Follows(seq) = f.nextExpected =>
              Sequenced(f, seq) = Moved(f, f.nextExpected, 0, 0, 1)
         /\ f.seqInitialized /\ d >= Modulo \div 2 /\ Follows(seq) # f.nextExpected =>
              Sequenced(f, seq) = Moved(f, f.nextExpected, 0, 1, 0)
<1> DEFINE next == Follows(seq)
<1> HIDE DEF next
<1>1. d \in Nat /\ Modulo \div 2 \in Nat
  BY ModulusHalves DEF Seqs
<1>2. d >= Modulo \div 2 <=> ~ (d < Modulo \div 2)
  BY <1>1
<1>3. /\ f.loss \in Nat /\ f.reordered \in Nat /\ f.duplicate \in Nat
      /\ f.loss + 0 = f.loss /\ f.reordered + 0 = f.reordered /\ f.duplicate + 0 = f.duplicate
  BY DEF Flow
<1>4. CASE ~ f.seqInitialized
  <2>1. Sequenced(f, seq) = [f EXCEPT !.seqPackets = f.seqPackets + 1, !.seqInitialized = TRUE,
                                      !.nextExpected = next]
    BY <1>4 DEF Sequenced, next, Flow
  <2>2. Sequenced(f, seq) = Moved(f, next, 0, 0, 0)
    BY <1>3, <2>1 DEF Moved, Flow
  <2>3. QED
    BY <1>4, <2>2 DEF next
<1>5. CASE f.seqInitialized /\ d < Modulo \div 2
  <2>1. Sequenced(f, seq) = [f EXCEPT !.seqPackets = f.seqPackets + 1, !.loss = f.loss + d,
                                      !.nextExpected = next]
    BY <1>2, <1>5 DEF Sequenced, next, Flow
  <2>2. Sequenced(f, seq) = Moved(f, next, d, 0, 0)
    BY <1>3, <1>5, <2>1 DEF Moved, Flow
  <2>3. QED
    BY <1>2, <1>5, <2>2 DEF next
<1>6. CASE f.seqInitialized /\ d >= Modulo \div 2 /\ next = f.nextExpected
  <2>1. Sequenced(f, seq) = [f EXCEPT !.seqPackets = f.seqPackets + 1,
                                      !.duplicate = f.duplicate + 1]
    BY <1>2, <1>6 DEF Sequenced, next, Flow
  <2>2. Sequenced(f, seq) = Moved(f, f.nextExpected, 0, 0, 1)
    BY <1>3, <1>6, <2>1 DEF Moved, Flow
  <2>3. QED
    BY <1>2, <1>6, <2>2 DEF next
<1>7. CASE f.seqInitialized /\ d >= Modulo \div 2 /\ next # f.nextExpected
  <2>1. Sequenced(f, seq) = [f EXCEPT !.seqPackets = f.seqPackets + 1,
                                      !.reordered = f.reordered + 1]
    BY <1>2, <1>7 DEF Sequenced, next, Flow
  <2>2. Sequenced(f, seq) = Moved(f, f.nextExpected, 0, 1, 0)
    BY <1>3, <1>7, <2>1 DEF Moved, Flow
  <2>3. QED
    BY <1>2, <1>7, <2>2 DEF next
<1>8. QED
  BY <1>2, <1>4, <1>5, <1>6, <1>7 DEF next

\* A sequenced datagram keeps the flow a flow, and its packets as counted.
LEMMA SequencedCounts ==
  ASSUME NEW f \in Flow, NEW seq \in Seqs
  PROVE  Sequenced(f, seq) \in Flow /\ Sequenced(f, seq).packets = f.packets
<1>1. Follows(seq) \in Seqs /\ f.nextExpected \in Seqs
  BY FollowsType DEF Flow
<1>2. PICK d \in Seqs : d = SeqForwardDistance(f.nextExpected, seq)
  BY <1>1, DistanceType
<1>3. d \in Nat /\ Modulo \div 2 \in Nat /\ f.seqInitialized \in BOOLEAN
  BY ModulusHalves DEF Seqs, Flow
<1>4. d < Modulo \div 2 \/ d >= Modulo \div 2
  BY <1>3
<1>5. \E next \in Seqs, lost, late, repeated \in Nat :
        Sequenced(f, seq) = Moved(f, next, lost, late, repeated)
  <2>1. CASE ~ f.seqInitialized
    BY <1>1, <1>2, <2>1, SequencedMoves
  <2>2. CASE f.seqInitialized /\ d < Modulo \div 2
    <3>1. Sequenced(f, seq) = Moved(f, Follows(seq), d, 0, 0)
      BY <1>2, <2>2, SequencedMoves
    <3>2. QED
      BY <1>1, <1>3, <3>1
  <2>3. CASE f.seqInitialized /\ d >= Modulo \div 2
    BY <1>1, <1>2, <2>3, SequencedMoves
  <2>4. QED
    BY <1>4, <2>1, <2>2, <2>3
<1>6. PICK next \in Seqs, lost \in Nat, late \in Nat, repeated \in Nat :
        Sequenced(f, seq) = Moved(f, next, lost, late, repeated)
  BY <1>5
<1>7. QED
  BY <1>6, MovedType DEF Moved

\* Every datagram is counted once.
LEMMA PacketCounts ==
  ASSUME NEW f \in Flow, NEW packet \in Packet
  PROVE  ObservePacket(f, packet) \in Flow /\ ObservePacket(f, packet).packets = f.packets + 1
<1>1. packet.size \in Nat /\ packet.seq \in Seqs \cup {NoSeq}
  BY DEF Packet
<1>2. Sized(f, packet.size) \in Flow /\ Sized(f, packet.size).packets = f.packets + 1
  BY <1>1, SizedCounts
<1>3. CASE packet.seq = NoSeq
  BY <1>2, <1>3 DEF ObservePacket
<1>4. CASE packet.seq # NoSeq
  <2>1. packet.seq \in Seqs
    BY <1>1, <1>4
  <2>2. QED
    BY <1>2, <1>4, <2>1, SequencedCounts DEF ObservePacket
<1>5. QED
  BY <1>3, <1>4

-----------------------------------------------------------------------------
(* What a flow says of the positions that arrived. *)

\* The positions from the first to a newest that are not among those that arrived.
Gaps(positions, newest) == (0 .. newest) \ positions

\* A newest position.
IsNewest(positions, newest) == newest \in positions /\ \A y \in positions : y <= newest

\* The flow expects what follows the newest position, and its counters bracket
\* the gaps before it.
Follow(f, positions, newest, first) ==
  /\ newest \in Nat /\ IsNewest(positions, newest) /\ IsFiniteSet(positions)
  /\ f.seqInitialized /\ f.nextExpected = (first + newest + 1) % Modulo
  /\ Cardinality(Gaps(positions, newest)) <= f.loss
  /\ f.loss - f.reordered <= Cardinality(Gaps(positions, newest))
  /\ f.seqPackets - f.duplicate >= Cardinality(positions)

\* The flow of a stream, before and after its first datagram.
Tracks(f, positions, first) ==
  IF positions = {}
  THEN /\ ~ f.seqInitialized /\ f.seqPackets = 0 /\ f.loss = 0 /\ f.reordered = 0
       /\ f.duplicate = 0
  ELSE \E newest \in Nat : Follow(f, positions, newest, first)

\* There is one newest position.
LEMMA NewestIsMax ==
  ASSUME NEW positions \in SUBSET Int, NEW newest \in Int, IsNewest(positions, newest)
  PROVE  Max(positions) = newest
<1>1. \A x \in positions : (\A y \in positions : x >= y) => x = newest
  BY DEF IsNewest
<1>2. newest \in positions /\ \A y \in positions : newest >= y
  BY DEF IsNewest
<1>3. QED
  BY <1>1, <1>2 DEF Max

\* The gaps are finitely many.
LEMMA GapsFinite ==
  ASSUME NEW positions, NEW newest \in Nat
  PROVE  /\ IsFiniteSet(Gaps(positions, newest))
         /\ Cardinality(Gaps(positions, newest)) \in Nat
<1>1. IsFiniteSet(0 .. newest)
  BY FS_Interval
<1>2. IsFiniteSet(Gaps(positions, newest))
  BY <1>1, FS_Difference DEF Gaps
<1>3. QED
  BY <1>2, FS_CardinalityType

\* A position after the newest opens a gap of those it skips.
LEMMA GapsOpen ==
  ASSUME NEW positions \in SUBSET Int, NEW newest \in Nat, IsNewest(positions, newest),
         NEW q \in Nat, newest < q
  PROVE  /\ IsNewest(positions \cup {q}, q)
         /\ Cardinality(Gaps(positions \cup {q}, q)) =
              Cardinality(Gaps(positions, newest)) + (q - newest - 1)
<1> DEFINE skipped == newest + 1 .. q - 1
<1>1. IsFiniteSet(skipped) /\ Cardinality(skipped) = q - newest - 1
  <2>1. newest + 1 \in Int /\ q - 1 \in Int
    OBVIOUS
  <2>2. /\ IsFiniteSet(newest + 1 .. q - 1)
        /\ Cardinality(newest + 1 .. q - 1) =
             IF newest + 1 > q - 1 THEN 0 ELSE q - 1 - (newest + 1) + 1
    BY <2>1, FS_Interval
  <2>3. QED
    BY <2>2
<1>2. IsFiniteSet(Gaps(positions, newest)) /\ Cardinality(Gaps(positions, newest)) \in Nat
  BY GapsFinite
<1>3. Gaps(positions \cup {q}, q) = Gaps(positions, newest) \cup skipped
  <2>1. \A y \in positions : y \in Int /\ y <= newest
    BY DEF IsNewest
  <2>2. QED
    BY <2>1 DEF Gaps
<1>4. Gaps(positions, newest) \cap skipped = {}
  BY DEF Gaps
<1>5. Cardinality(Gaps(positions, newest) \cup skipped) =
        Cardinality(Gaps(positions, newest)) + Cardinality(skipped) - Cardinality({})
  <2> HIDE DEF skipped
  <2>1. QED
    BY <1>1, <1>2, <1>4, FS_Union
<1>6. Cardinality({}) = 0
  BY FS_EmptySet
<1>7. IsNewest(positions \cup {q}, q)
  BY DEF IsNewest
<1>8. PICK c \in Nat : c = Cardinality(Gaps(positions, newest))
  BY <1>2
<1>9. Cardinality(Gaps(positions \cup {q}, q)) = c + Cardinality(skipped) - 0
  <2> HIDE DEF skipped
  <2>1. QED
    BY <1>3, <1>5, <1>6, <1>8
<1>10. Cardinality(Gaps(positions \cup {q}, q)) = c + (q - newest - 1)
  <2> HIDE DEF skipped
  <2>1. QED
    BY <1>1, <1>9
<1>11. QED
  BY <1>7, <1>8, <1>10

\* A position before the newest closes at most its own gap.
LEMMA GapsClose ==
  ASSUME NEW positions \in SUBSET Int, NEW newest \in Nat, IsNewest(positions, newest),
         NEW q \in Int, q <= newest
  PROVE  /\ IsNewest(positions \cup {q}, newest)
         /\ Cardinality(Gaps(positions \cup {q}, newest)) <= Cardinality(Gaps(positions, newest))
         /\ Cardinality(Gaps(positions, newest)) - 1 <= Cardinality(Gaps(positions \cup {q}, newest))
<1>1. IsFiniteSet(Gaps(positions, newest)) /\ Cardinality(Gaps(positions, newest)) \in Nat
  BY GapsFinite
<1>2. Gaps(positions \cup {q}, newest) = Gaps(positions, newest) \ {q}
  BY DEF Gaps
<1>3. Cardinality(Gaps(positions, newest) \ {q}) =
        IF q \in Gaps(positions, newest) THEN Cardinality(Gaps(positions, newest)) - 1
                                         ELSE Cardinality(Gaps(positions, newest))
  BY <1>1, FS_RemoveElement
<1>4. IsNewest(positions \cup {q}, newest)
  BY DEF IsNewest
<1>5. PICK c \in Nat : c = Cardinality(Gaps(positions, newest))
  BY <1>1
<1>6. Cardinality(Gaps(positions \cup {q}, newest)) = c - 1
      \/ Cardinality(Gaps(positions \cup {q}, newest)) = c
  BY <1>2, <1>3, <1>5
<1>7. c - 1 <= c /\ c <= c
  OBVIOUS
<1>8. QED
  BY <1>4, <1>5, <1>6, <1>7

\* The sequence after that of a position is that of the position after it.
LEMMA FollowsPosition ==
  ASSUME NEW a \in Int
  PROVE  Follows(a % Modulo) = (a + 1) % Modulo
<1>1. PICK r \in Seqs : r = a % Modulo
  BY ModuloDivides
<1>2. Modulo \in Nat /\ Modulo >= 4 /\ r \in Nat /\ r < Modulo /\ 1 \in Seqs /\ r \in Int
  BY ModulusHalves DEF Seqs
<1>3. r % Modulo = r
  <2>1. (Modulo * 0 + r) % Modulo = r
    BY ModuloUnique
  <2>2. Modulo * 0 + r = r
    BY <1>2
  <2>3. QED
    BY <2>1, <2>2
<1>4. (a + 1) % Modulo = IF r + 1 < Modulo THEN r + 1 ELSE r + 1 - Modulo
  BY <1>1, <1>2, ModuloAdds
<1>5. (r + 1) % Modulo = IF r + 1 < Modulo THEN r + 1 ELSE r + 1 - Modulo
  BY <1>2, <1>3, ModuloAdds
<1>6. QED
  BY <1>1, <1>4, <1>5 DEF Follows

\* The sequence of a position behind the expected one, by less than a modulus, is
\* as far ahead of it as the modulus has left.
LEMMA DistanceBehind ==
  ASSUME NEW a \in Int, NEW e \in Seqs, e # 0
  PROVE  /\ Modulo - e \in Seqs
         /\ SeqForwardDistance(a % Modulo, (a - e) % Modulo) = Modulo - e
         /\ (a - e) % Modulo # a % Modulo
<1>1. Modulo \in Nat /\ Modulo >= 4 /\ e \in Nat /\ 0 < e /\ e < Modulo
  BY ModulusHalves DEF Seqs
<1>2. PICK d \in Seqs : d = Modulo - e
  BY <1>1 DEF Seqs
<1>3. d \in Nat /\ 0 < d /\ d < Modulo /\ a - e = a - Modulo + d
  BY <1>1, <1>2
<1>4. (a - e) % Modulo = (a + d) % Modulo
  BY <1>3, DistanceWraps
<1>5. SeqForwardDistance(a % Modulo, (a + d) % Modulo) = d
  BY DistanceIsForward
<1>6. (a - e) % Modulo # a % Modulo
  <2>1. PICK r \in Seqs : r = a % Modulo
    BY ModuloDivides
  <2>2. (a + d) % Modulo = IF r + d < Modulo THEN r + d ELSE r + d - Modulo
    BY <2>1, ModuloAdds
  <2>3. r \in Nat /\ r < Modulo
    BY <1>1 DEF Seqs
  <2>4. QED
    BY <1>1, <1>3, <1>4, <2>1, <2>2, <2>3
<1>7. QED
  BY <1>2, <1>4, <1>5, <1>6

\* What the size counters say does not matter to the stream.
LEMMA SizedTracks ==
  ASSUME NEW f \in Flow, NEW n \in Nat, NEW positions, NEW first, Tracks(f, positions, first)
  PROVE  Tracks(Sized(f, n), positions, first)
<1> DEFINE g == Sized(f, n)
<1>1. /\ g.seqInitialized = f.seqInitialized /\ g.nextExpected = f.nextExpected
      /\ g.seqPackets = f.seqPackets /\ g.loss = f.loss
      /\ g.reordered = f.reordered /\ g.duplicate = f.duplicate
  BY SizedCounts
<1> HIDE DEF g
<1>2. CASE positions = {}
  <2>1. Tracks(g, positions, first)
    BY <1>1, <1>2 DEF Tracks
  <2>2. QED
    BY <2>1 DEF g
<1>3. CASE positions # {}
  <2>1. PICK newest \in Nat : Follow(f, positions, newest, first)
    BY <1>3 DEF Tracks
  <2>2. Follow(g, positions, newest, first)
    BY <1>1, <2>1 DEF Follow
  <2>3. Tracks(g, positions, first)
    BY <1>3, <2>2 DEF Tracks
  <2>4. QED
    BY <2>3 DEF g
<1>4. QED
  BY <1>2, <1>3

\* The first datagram of a stream.
LEMMA FirstTracks ==
  ASSUME NEW f \in Flow, NEW first \in Seqs, Tracks(f, {}, first)
  PROVE  Tracks(Sequenced(f, (first + 0) % Modulo), {0}, first)
<1> DEFINE seq == (first + 0) % Modulo
<1>1. first \in Int /\ first + 0 \in Int
  BY ModulusHalves DEF Seqs
<1>2. seq \in Seqs /\ Follows(seq) = (first + 0 + 1) % Modulo
  BY <1>1, ModuloDivides, FollowsPosition
<1> HIDE DEF seq
<1>3. PICK d \in Seqs : d = SeqForwardDistance(f.nextExpected, seq)
  BY <1>2, DistanceType DEF Flow
<1>4. Sequenced(f, seq) = Moved(f, Follows(seq), 0, 0, 0)
  BY <1>2, <1>3, SequencedMoves DEF Tracks
<1>5. f.loss = 0 /\ f.reordered = 0 /\ f.seqPackets = 0 /\ f.duplicate = 0
  BY DEF Tracks
<1>6. Gaps({0}, 0) = {} /\ IsNewest({0}, 0)
  BY DEF Gaps, IsNewest
<1>7. IsFiniteSet({0}) /\ Cardinality({0}) = 1 /\ Cardinality({}) = 0
  BY FS_Singleton, FS_EmptySet
<1>8. Follow(Moved(f, Follows(seq), 0, 0, 0), {0}, 0, first)
  <2> DEFINE g == Moved(f, Follows(seq), 0, 0, 0)
  <2>1. /\ g.seqInitialized /\ g.nextExpected = Follows(seq)
        /\ g.seqPackets = 1 /\ g.loss = 0 /\ g.reordered = 0 /\ g.duplicate = 0
    BY <1>5 DEF Moved
  <2> HIDE DEF g
  <2>2. Follow(g, {0}, 0, first)
    BY <1>2, <1>6, <1>7, <2>1 DEF Follow
  <2>3. QED
    BY <2>2 DEF g
<1>9. QED
  BY <1>4, <1>8 DEF Tracks, seq

\* A datagram after the newest.
LEMMA NewerTracks ==
  ASSUME NEW f \in Flow, NEW first \in Seqs, NEW positions \in SUBSET Int, NEW newest \in Nat,
         Follow(f, positions, newest, first),
         NEW q \in Int, newest < q, q <= newest + Ahead
  PROVE  Follow(Sequenced(f, (first + q) % Modulo), positions \cup {q}, q, first)
<1> DEFINE seq == (first + q) % Modulo
           a == first + newest + 1
           d == q - newest - 1
<1>1. first \in Int /\ Modulo \in Nat /\ Modulo \div 2 \in Nat /\ Modulo = 2 * (Modulo \div 2)
      /\ Modulo >= 4 /\ Ahead \in Nat /\ Ahead <= Modulo \div 2
  BY ModulusHalves, DisplacementAssumption DEF Seqs
<1>2. a \in Int /\ d \in Nat /\ d < Modulo \div 2 /\ d < Modulo /\ a + d = first + q
      /\ first + q \in Int /\ q \in Nat
  BY <1>1
<1>3. d \in Seqs
  BY <1>1, <1>2 DEF Seqs
<1> HIDE DEF a, d
<1>4. SeqForwardDistance(a % Modulo, seq) = d
  BY <1>2, <1>3, DistanceIsForward
<1>5. seq \in Seqs /\ Follows(seq) = (first + q + 1) % Modulo
  BY <1>2, ModuloDivides, FollowsPosition
<1> HIDE DEF seq
<1>6. f.nextExpected = a % Modulo /\ f.seqInitialized
  BY DEF Follow, a
<1>7. Sequenced(f, seq) = Moved(f, Follows(seq), d, 0, 0)
  BY <1>2, <1>3, <1>4, <1>5, <1>6, SequencedMoves
<1>8. IsNewest(positions, newest) /\ IsFiniteSet(positions)
      /\ Cardinality(Gaps(positions, newest)) <= f.loss
      /\ f.loss - f.reordered <= Cardinality(Gaps(positions, newest))
      /\ f.seqPackets - f.duplicate >= Cardinality(positions)
  BY DEF Follow
<1>9. /\ IsNewest(positions \cup {q}, q)
      /\ Cardinality(Gaps(positions \cup {q}, q)) = Cardinality(Gaps(positions, newest)) + d
  BY <1>2, <1>8, GapsOpen DEF d
<1>10. IsFiniteSet(positions \cup {q})
       /\ Cardinality(positions \cup {q}) <= Cardinality(positions) + 1
       /\ Cardinality(positions) \in Nat
  <2>1. Cardinality(positions) \in Nat
    BY <1>8, FS_CardinalityType
  <2>2. IsFiniteSet(positions \cup {q}) /\ Cardinality(positions \cup {q}) =
          IF q \in positions THEN Cardinality(positions) ELSE Cardinality(positions) + 1
    BY <1>8, FS_AddElement
  <2>3. QED
    BY <2>1, <2>2
<1>11. Cardinality(positions \cup {q}) \in Nat
  BY <1>10, FS_CardinalityType
<1>12. PICK c \in Nat : c = Cardinality(Gaps(positions, newest))
  BY GapsFinite
<1>13. f.loss \in Nat /\ f.reordered \in Nat /\ f.seqPackets \in Nat /\ f.duplicate \in Nat
  BY DEF Flow
<1>14. Follow(Moved(f, Follows(seq), d, 0, 0), positions \cup {q}, q, first)
  <2>1. c + d <= f.loss + d /\ (f.loss + d) - (f.reordered + 0) <= c + d
    BY <1>2, <1>8, <1>12, <1>13
  <2>2. (f.seqPackets + 1) - (f.duplicate + 0) >= Cardinality(positions \cup {q})
    BY <1>8, <1>10, <1>11, <1>13
  <2>3. QED
    BY <1>2, <1>5, <1>9, <1>10, <1>12, <2>1, <2>2 DEF Follow, Moved
<1>15. QED
  BY <1>7, <1>14 DEF seq

\* A datagram at the newest position again, or behind it.
LEMMA OlderTracks ==
  ASSUME NEW f \in Flow, NEW first \in Seqs, NEW positions \in SUBSET Int, NEW newest \in Nat,
         Follow(f, positions, newest, first),
         NEW q \in Int, newest - Behind <= q, q <= newest
  PROVE  Follow(Sequenced(f, (first + q) % Modulo), positions \cup {q}, newest, first)
<1> DEFINE seq == (first + q) % Modulo
           a == first + newest + 1
           e == newest + 1 - q
<1>1. first \in Int /\ Modulo \in Nat /\ Modulo \div 2 \in Nat /\ Modulo = 2 * (Modulo \div 2)
      /\ Modulo >= 4 /\ Behind \in Nat /\ Behind < Modulo \div 2
  BY ModulusHalves, DisplacementAssumption DEF Seqs
<1>2. /\ a \in Int /\ e \in Nat /\ e # 0 /\ e <= Modulo \div 2 /\ e < Modulo
      /\ first + q = a - e /\ first + q \in Int /\ first + q + 1 = a - (e - 1)
      /\ e - 1 \in Nat /\ e - 1 < Modulo /\ (e - 1 = 0 => q = newest)
      /\ Modulo - e >= Modulo \div 2
  BY <1>1
<1>3. e \in Seqs /\ e - 1 \in Seqs
  BY <1>1, <1>2 DEF Seqs
<1>4. seq \in Seqs /\ Follows(seq) = (first + q + 1) % Modulo
  BY <1>2, ModuloDivides, FollowsPosition
<1>5. seq = (a - e) % Modulo /\ Follows(seq) = (a - (e - 1)) % Modulo
  BY <1>2, <1>4
<1> HIDE DEF a, e, seq
<1>6. SeqForwardDistance(a % Modulo, seq) = Modulo - e /\ Modulo - e \in Seqs
  BY <1>2, <1>3, <1>5, DistanceBehind
<1>7. Follows(seq) = a % Modulo => q = newest
  <2>1. CASE e - 1 = 0
    BY <1>2, <2>1
  <2>2. CASE e - 1 # 0
    BY <1>2, <1>3, <1>5, <2>2, DistanceBehind
  <2>3. QED
    BY <2>1, <2>2
<1>8. /\ f.nextExpected = a % Modulo /\ f.seqInitialized
      /\ IsNewest(positions, newest) /\ IsFiniteSet(positions)
      /\ Cardinality(Gaps(positions, newest)) <= f.loss
      /\ f.loss - f.reordered <= Cardinality(Gaps(positions, newest))
      /\ f.seqPackets - f.duplicate >= Cardinality(positions)
  BY DEF Follow, a
<1>9. PICK c \in Nat : c = Cardinality(Gaps(positions, newest))
  BY GapsFinite
<1>10. PICK n \in Nat : n = Cardinality(positions)
  BY <1>8, FS_CardinalityType
<1>11. f.loss \in Nat /\ f.reordered \in Nat /\ f.seqPackets \in Nat /\ f.duplicate \in Nat
  BY DEF Flow
<1>12. c <= f.loss /\ f.loss - f.reordered <= c /\ f.seqPackets - f.duplicate >= n
  BY <1>8, <1>9, <1>10
<1>13. CASE Follows(seq) = f.nextExpected
  <2> DEFINE g == Moved(f, f.nextExpected, 0, 0, 1)
  <2>1. Sequenced(f, seq) = g
    BY <1>2, <1>4, <1>6, <1>8, <1>13, SequencedMoves
  <2>2. positions \cup {q} = positions
    BY <1>7, <1>8, <1>13 DEF IsNewest
  <2>3. /\ g.seqInitialized /\ g.nextExpected = f.nextExpected /\ g.loss = f.loss + 0
        /\ g.reordered = f.reordered + 0 /\ g.seqPackets = f.seqPackets + 1
        /\ g.duplicate = f.duplicate + 1
    BY DEF Moved
  <2> HIDE DEF g
  <2>4. c <= g.loss /\ g.loss - g.reordered <= c /\ g.seqPackets - g.duplicate >= n
    BY <1>11, <1>12, <2>3
  <2>5. Follow(g, positions, newest, first)
    BY <1>8, <1>9, <1>10, <2>3, <2>4 DEF Follow, a
  <2>6. QED
    BY <2>1, <2>2, <2>5 DEF seq
<1>14. CASE Follows(seq) # f.nextExpected
  <2> DEFINE g == Moved(f, f.nextExpected, 0, 1, 0)
  <2>1. Sequenced(f, seq) = g
    BY <1>2, <1>4, <1>6, <1>8, <1>14, SequencedMoves
  <2>2. /\ IsNewest(positions \cup {q}, newest)
        /\ Cardinality(Gaps(positions \cup {q}, newest)) <= Cardinality(Gaps(positions, newest))
        /\ Cardinality(Gaps(positions, newest)) - 1 <= Cardinality(Gaps(positions \cup {q}, newest))
    BY <1>8, GapsClose
  <2>3. PICK h \in Nat : h = Cardinality(Gaps(positions \cup {q}, newest))
    BY GapsFinite
  <2>4. h <= c /\ c - 1 <= h
    BY <1>9, <2>2, <2>3
  <2>5. IsFiniteSet(positions \cup {q}) /\ Cardinality(positions \cup {q}) =
          IF q \in positions THEN n ELSE n + 1
    BY <1>8, <1>10, FS_AddElement
  <2>6. PICK k \in Nat : k = Cardinality(positions \cup {q}) /\ k <= n + 1
    BY <2>5
  <2>7. /\ g.seqInitialized /\ g.nextExpected = f.nextExpected /\ g.loss = f.loss + 0
        /\ g.reordered = f.reordered + 1 /\ g.seqPackets = f.seqPackets + 1
        /\ g.duplicate = f.duplicate + 0
    BY DEF Moved
  <2> HIDE DEF g
  <2>8. h <= g.loss /\ g.loss - g.reordered <= h /\ g.seqPackets - g.duplicate >= k
    BY <1>11, <1>12, <2>4, <2>6, <2>7
  <2>9. Follow(g, positions \cup {q}, newest, first)
    BY <1>8, <2>2, <2>3, <2>5, <2>6, <2>7, <2>8 DEF Follow, a
  <2>10. QED
    BY <2>1, <2>9 DEF seq
<1>15. QED
  BY <1>13, <1>14

\* A datagram within reach of the newest, or the first.
LEMMA SequencedTracks ==
  ASSUME NEW f \in Flow, NEW first \in Seqs, NEW positions \in SUBSET Int,
         Tracks(f, positions, first), NEW q \in Int,
         IF positions = {} THEN q = 0
         ELSE Max(positions) - Behind <= q /\ q <= Max(positions) + Ahead
  PROVE  Tracks(Sequenced(f, (first + q) % Modulo), positions \cup {q}, first)
<1>1. CASE positions = {}
  BY <1>1, FirstTracks
<1>2. CASE positions # {}
  <2>1. PICK newest \in Nat : Follow(f, positions, newest, first)
    BY <1>2 DEF Tracks
  <2>2. Max(positions) = newest
    BY <2>1, NewestIsMax DEF Follow
  <2>3. newest - Behind <= q /\ q <= newest + Ahead
    BY <1>2, <2>2
  <2>4. \E n \in Nat : Follow(Sequenced(f, (first + q) % Modulo), positions \cup {q}, n, first)
    <3>1. CASE newest < q
      <4>1. q \in Nat
        BY <3>1
      <4>2. Follow(Sequenced(f, (first + q) % Modulo), positions \cup {q}, q, first)
        BY <2>1, <2>3, <3>1, NewerTracks
      <4>3. QED
        BY <4>1, <4>2
    <3>2. CASE q <= newest
      BY <2>1, <2>3, <3>2, OlderTracks
    <3>3. newest < q \/ q <= newest
      OBVIOUS
    <3>4. QED
      BY <3>1, <3>2, <3>3
  <2>5. positions \cup {q} # {}
    OBVIOUS
  <2>6. QED
    BY <2>4, <2>5 DEF Tracks
<1>3. QED
  BY <1>1, <1>2

-----------------------------------------------------------------------------
(* The inductive invariant of UDPStats. *)

\* The flow of a session follows its stream.
FlowsFollow == \A s \in CountedSessions : Tracks(sessionFlow[s], arrived[s], FirstSeq[s])

\* What a session's goroutine has counted in its flow and not yet in the plugin's.
Pend(s) == IF counting[s] # Idle /\ counting[s].listed THEN 1 ELSE 0
Pending(p) == [s \in SessionsOf(p) |-> Pend(s)]

\* Only what a session counted goes on to its plugin, and the plugin lacks what is
\* still on its way.
PluginsLag ==
  /\ \A s \in CountedSessions : counting[s].at = "plugin" => counting[s].listed
  /\ \A p \in CountedPlugins :
       pluginFlow[p].packets + SumFunction(Pending(p)) = SumFunction(SessionPackets(p))

\* The datagrams counted globally and not by the plugin, and those of ended
\* sessions that no flow has counted.
AtPlugin == {s \in CountedSessions : counting[s].at = "plugin"}
Stray == {s \in CountedSessions : counting[s].at = "global" /\ ~ counting[s].listed}

\* The global flow is ahead of the plugins by those counted there and not here, and
\* by those of ended sessions.
GlobalLeads ==
  global.packets + Cardinality(Stray) =
    SumFunction(PluginPackets) + unlisted + Cardinality(AtPlugin)

\* What a snapshot has read is at most what there is, and its plugins are behind its
\* global flow by no more than one datagram of each session.
SnapshotBehind ==
  /\ snapshot.at = "plugins" => snapshot.global <= global.packets
  /\ snapshot.at = "sessions" =>
       /\ \A p \in CountedPlugins : snapshot.plugins[p] <= pluginFlow[p].packets
       /\ snapshot.global <= SumFunction(snapshot.plugins) + unlisted + Cardinality(CountedSessions)

StatsInv == StatsTypeOK /\ FlowsFollow /\ PluginsLag /\ GlobalLeads /\ SnapshotBehind

-----------------------------------------------------------------------------
(* The steps. *)

\* What a session's goroutine has in hand.
InHand == [at : {"global", "plugin"}, packet : Packet, listed : BOOLEAN]

\* Which datagrams are observed.
LEMMA ObservedPacket ==
  ASSUME NEW s \in CountedSessions
  PROVE  /\ \A position \in Int :
              [seq |-> (FirstSeq[s] + position) % Modulo, size |-> PayloadSize[s]] \in Packet
         /\ [seq |-> NoSeq, size |-> PayloadSize[s]] \in Packet
<1>1. FirstSeq[s] \in Seqs /\ PayloadSize[s] \in Nat
  BY StatsAssumption
<1>2. ASSUME NEW position \in Int PROVE (FirstSeq[s] + position) % Modulo \in Seqs
  <2>1. FirstSeq[s] + position \in Int
    BY <1>1, ModulusHalves DEF Seqs
  <2>2. QED
    BY <2>1, ModuloDivides
<1>3. QED
  BY <1>1, <1>2 DEF Packet

\* A datagram is counted in the flow of its session, or of none.
LEMMA ObserveStep ==
  ASSUME StatsTypeOK, NEW s \in CountedSessions, NEW packet \in Packet, Observe(s, packet)
  PROVE  /\ counting[s] = Idle
         /\ counting'[s] = [at |-> "global", packet |-> packet, listed |-> s \in sessions]
         /\ counting' \in [CountedSessions -> {Idle} \cup InHand]
         /\ sessionFlow' \in [CountedSessions -> Flow]
         /\ \A o \in CountedSessions \ {s} :
              counting'[o] = counting[o] /\ sessionFlow'[o] = sessionFlow[o]
         /\ s \in sessions => sessionFlow'[s] = ObservePacket(sessionFlow[s], packet)
                              /\ unlisted' = unlisted
         /\ s \notin sessions => sessionFlow' = sessionFlow /\ unlisted' = unlisted + 1
         /\ unlisted' \in Nat
         /\ UNCHANGED <<sessions, ended, global, pluginFlow, snapshot>>
<1> DEFINE new == [at |-> "global", packet |-> packet, listed |-> s \in sessions]
<1>1. new \in InHand
  BY DEF InHand
<1> HIDE DEF new
<1>2. counting' = [counting EXCEPT ![s] = new] /\ counting[s] = Idle
  BY DEF Observe, new
<1>3. counting \in [CountedSessions -> {Idle} \cup InHand]
  BY DEF StatsTypeOK, InHand
<1>4. /\ counting'[s] = new /\ counting' \in [CountedSessions -> {Idle} \cup InHand]
      /\ \A o \in CountedSessions \ {s} : counting'[o] = counting[o]
  BY <1>1, <1>2, <1>3
<1>5. sessionFlow \in [CountedSessions -> Flow] /\ unlisted \in Nat
  BY DEF StatsTypeOK
<1>6. CASE s \in sessions
  <2>1. sessionFlow' = [sessionFlow EXCEPT ![s] = ObservePacket(sessionFlow[s], packet)]
        /\ unlisted' = unlisted
    BY <1>6 DEF Observe
  <2>2. ObservePacket(sessionFlow[s], packet) \in Flow
    BY <1>5, PacketCounts
  <2>3. /\ sessionFlow' \in [CountedSessions -> Flow]
        /\ sessionFlow'[s] = ObservePacket(sessionFlow[s], packet)
        /\ \A o \in CountedSessions \ {s} : sessionFlow'[o] = sessionFlow[o]
    BY <1>5, <2>1, <2>2
  <2>4. QED
    BY <1>2, <1>4, <1>5, <1>6, <2>1, <2>3 DEF Observe, new
<1>7. CASE s \notin sessions
  <2>1. sessionFlow' = sessionFlow /\ unlisted' = unlisted + 1
    BY <1>7 DEF Observe
  <2>2. QED
    BY <1>2, <1>4, <1>5, <1>7, <2>1 DEF Observe, new
<1>8. QED
  BY <1>6, <1>7

\* A datagram is counted globally, and goes on to its plugin when its session
\* counted it.
LEMMA GlobalStep ==
  ASSUME StatsTypeOK, NEW s \in CountedSessions, ObserveGlobal(s)
  PROVE  /\ counting[s] \in InHand /\ counting[s].at = "global"
         /\ counting[s].listed =>
              counting'[s] = [at |-> "plugin", packet |-> counting[s].packet, listed |-> TRUE]
         /\ ~ counting[s].listed => counting'[s] = Idle
         /\ counting' \in [CountedSessions -> {Idle} \cup InHand]
         /\ \A o \in CountedSessions \ {s} : counting'[o] = counting[o]
         /\ global' \in Flow /\ global'.packets = global.packets + 1
         /\ UNCHANGED <<sessions, ended, sessionFlow, pluginFlow, arrived, unlisted, snapshot>>
<1>1. counting \in [CountedSessions -> {Idle} \cup InHand] /\ global \in Flow
  BY DEF StatsTypeOK, InHand
<1>2. counting[s].at = "global"
  BY DEF ObserveGlobal
<1>3. counting[s] # Idle
  BY <1>2 DEF Idle
<1>4. counting[s] \in InHand /\ counting[s].packet \in Packet /\ counting[s].listed \in BOOLEAN
  BY <1>1, <1>3 DEF InHand
<1>5. PICK new \in {Idle} \cup InHand :
        /\ counting' = [counting EXCEPT ![s] = new]
        /\ counting[s].listed => new = [at |-> "plugin", packet |-> counting[s].packet, listed |-> TRUE]
        /\ ~ counting[s].listed => new = Idle
  <2>1. CASE counting[s].listed
    <3>1. [counting[s] EXCEPT !.at = "plugin"] =
            [at |-> "plugin", packet |-> counting[s].packet, listed |-> TRUE]
      <4>1. PICK h \in InHand : h = counting[s]
        BY <1>4
      <4>2. h.listed = TRUE
        BY <1>4, <2>1, <4>1
      <4>3. [h EXCEPT !.at = "plugin"] = [at |-> "plugin", packet |-> h.packet, listed |-> h.listed]
        BY DEF InHand
      <4>4. QED
        BY <4>1, <4>2, <4>3
    <3>2. [at |-> "plugin", packet |-> counting[s].packet, listed |-> TRUE] \in InHand
      BY <1>4 DEF InHand
    <3>3. counting' = [counting EXCEPT ![s] = [counting[s] EXCEPT !.at = "plugin"]]
      BY <2>1 DEF ObserveGlobal
    <3>4. QED
      BY <2>1, <3>1, <3>2, <3>3
  <2>2. CASE ~ counting[s].listed
    <3>1. counting' = [counting EXCEPT ![s] = Idle]
      BY <2>2 DEF ObserveGlobal
    <3>2. QED
      BY <2>2, <3>1
  <2>3. QED
    BY <1>4, <2>1, <2>2
<1>6. /\ counting'[s] = new /\ counting' \in [CountedSessions -> {Idle} \cup InHand]
      /\ \A o \in CountedSessions \ {s} : counting'[o] = counting[o]
  BY <1>1, <1>5
<1>7. global' = ObservePacket(global, counting[s].packet)
  BY DEF ObserveGlobal
<1>8. global' \in Flow /\ global'.packets = global.packets + 1
  BY <1>1, <1>4, <1>7, PacketCounts
<1>9. UNCHANGED <<sessions, ended, sessionFlow, pluginFlow, arrived, unlisted, snapshot>>
  BY DEF ObserveGlobal
<1>10. QED
  BY <1>2, <1>4, <1>5, <1>6, <1>8, <1>9

\* A datagram is counted by the plugin of its session.
LEMMA PluginStep ==
  ASSUME StatsTypeOK, NEW s \in CountedSessions, ObservePlugin(s)
  PROVE  /\ counting[s] \in InHand /\ counting[s].at = "plugin"
         /\ counting'[s] = Idle
         /\ counting' \in [CountedSessions -> {Idle} \cup InHand]
         /\ \A o \in CountedSessions \ {s} : counting'[o] = counting[o]
         /\ PluginOf[s] \in CountedPlugins
         /\ pluginFlow' \in [CountedPlugins -> Flow]
         /\ pluginFlow'[PluginOf[s]].packets = pluginFlow[PluginOf[s]].packets + 1
         /\ \A p \in CountedPlugins \ {PluginOf[s]} : pluginFlow'[p] = pluginFlow[p]
         /\ UNCHANGED <<sessions, ended, sessionFlow, global, arrived, unlisted, snapshot>>
<1>1. counting \in [CountedSessions -> {Idle} \cup InHand]
      /\ pluginFlow \in [CountedPlugins -> Flow]
  BY DEF StatsTypeOK, InHand
<1>2. counting[s].at = "plugin"
  BY DEF ObservePlugin
<1>3. counting[s] # Idle
  BY <1>2 DEF Idle
<1>4. counting[s] \in InHand /\ counting[s].packet \in Packet
  BY <1>1, <1>3 DEF InHand
<1>5. /\ counting'[s] = Idle /\ counting' \in [CountedSessions -> {Idle} \cup InHand]
      /\ \A o \in CountedSessions \ {s} : counting'[o] = counting[o]
  BY <1>1 DEF ObservePlugin
<1>6. PluginOf[s] \in CountedPlugins
  BY StatsAssumption
<1>7. PICK new : new = ObservePacket(pluginFlow[PluginOf[s]], counting[s].packet)
  OBVIOUS
<1>8. new \in Flow /\ new.packets = pluginFlow[PluginOf[s]].packets + 1
  BY <1>1, <1>4, <1>6, <1>7, PacketCounts
<1>9. pluginFlow' = [pluginFlow EXCEPT ![PluginOf[s]] = new]
  BY <1>7 DEF ObservePlugin
<1>10. /\ pluginFlow' \in [CountedPlugins -> Flow] /\ pluginFlow'[PluginOf[s]] = new
       /\ \A p \in CountedPlugins \ {PluginOf[s]} : pluginFlow'[p] = pluginFlow[p]
  BY <1>1, <1>6, <1>8, <1>9
<1>11. UNCHANGED <<sessions, ended, sessionFlow, global, arrived, unlisted, snapshot>>
  BY DEF ObservePlugin
<1>12. QED
  BY <1>2, <1>4, <1>5, <1>6, <1>8, <1>10, <1>11

\* Which position arrived, if any.
Arrival(s, packet) ==
  \/ packet.seq = NoSeq /\ arrived' = arrived
  \/ \E position \in Int :
       /\ IF arrived[s] = {} THEN position = 0
          ELSE Newest(s) - Behind <= position /\ position <= Newest(s) + Ahead
       /\ packet.seq = (FirstSeq[s] + position) % Modulo
       /\ arrived' = IF s \in sessions THEN [arrived EXCEPT ![s] = @ \cup {position}] ELSE arrived

\* The steps there are.
LEMMA StatsSteps ==
  ASSUME [StatsNext]_statsVars
  PROVE  \/ \E s \in CountedSessions : StartSession(s) \/ EndSession(s)
         \/ \E s \in CountedSessions : \E packet \in Packet : Observe(s, packet) /\ Arrival(s, packet)
         \/ \E s \in CountedSessions : ObserveGlobal(s)
         \/ \E s \in CountedSessions : ObservePlugin(s)
         \/ Snapshot
         \/ UNCHANGED statsVars
<1>1. ASSUME NEW s \in CountedSessions,
             NEW position \in - Behind .. MaxCounted[s] * (Ahead + 1), ObserveSequenced(s, position)
      PROVE  \E packet \in Packet : Observe(s, packet) /\ Arrival(s, packet)
  <2> DEFINE packet == [seq |-> (FirstSeq[s] + position) % Modulo, size |-> PayloadSize[s]]
  <2>1. position \in Int
    BY DisplacementAssumption, StatsAssumption
  <2>2. packet \in Packet
    BY <2>1, ObservedPacket
  <2>3. packet.seq = (FirstSeq[s] + position) % Modulo
    OBVIOUS
  <2>4. Observe(s, packet)
    BY <1>1 DEF ObserveSequenced
  <2> HIDE DEF packet
  <2>5. Arrival(s, packet)
    BY <1>1, <2>1, <2>3 DEF ObserveSequenced, Arrival
  <2>6. QED
    BY <2>2, <2>4, <2>5
<1>2. ASSUME NEW s \in CountedSessions, ObserveOther(s)
      PROVE  \E packet \in Packet : Observe(s, packet) /\ Arrival(s, packet)
  <2> DEFINE packet == [seq |-> NoSeq, size |-> PayloadSize[s]]
  <2>1. packet \in Packet
    BY ObservedPacket
  <2>2. Observe(s, packet)
    BY <1>2 DEF ObserveOther
  <2>3. Arrival(s, packet)
    BY <1>2 DEF ObserveOther, Arrival
  <2>4. QED
    BY <2>1, <2>2, <2>3
<1>3. CASE StatsNext
  BY <1>1, <1>2, <1>3 DEF StatsNext
<1>4. CASE UNCHANGED statsVars
  BY <1>4
<1>5. QED
  BY <1>3, <1>4

\* A session starts or ends, and nothing is counted.
LEMMA SessionStep ==
  ASSUME StatsTypeOK, NEW s \in CountedSessions, StartSession(s) \/ EndSession(s)
  PROVE  /\ sessions' \subseteq CountedSessions /\ ended' \subseteq CountedSessions \ sessions'
         /\ UNCHANGED <<sessionFlow, global, pluginFlow, counting, arrived, unlisted, snapshot>>
BY DEF StatsTypeOK, StartSession, EndSession

\* A snapshot reads, and nothing is counted.
LEMMA SnapshotStep ==
  ASSUME StatsTypeOK, Snapshot
  PROVE  /\ \/ snapshot = NoSnapshot /\ snapshot' = [at |-> "plugins", global |-> global.packets]
            \/ /\ snapshot.at = "plugins" /\ snapshot.global \in Nat
               /\ snapshot' = [at |-> "sessions", global |-> snapshot.global,
                               plugins |-> PluginPackets]
            \/ snapshot' = NoSnapshot
         /\ UNCHANGED <<sessions, ended, sessionFlow, global, pluginFlow, counting, arrived, unlisted>>
<1>1. snapshot.at = "plugins" => snapshot.global \in Nat
  BY DEF StatsTypeOK, NoSnapshot
<1>2. QED
  BY <1>1 DEF Snapshot, SnapshotGlobal, SnapshotPlugins, SnapshotSessions

\* What the plugins have counted are numbers.
LEMMA PluginPacketsType ==
  ASSUME StatsTypeOK
  PROVE  PluginPackets \in [CountedPlugins -> Nat] /\ global.packets \in Nat
<1>1. pluginFlow \in [CountedPlugins -> Flow] /\ global \in Flow
  BY DEF StatsTypeOK
<1>2. \A f \in Flow : f.packets \in Nat
  BY DEF Flow
<1>3. QED
  BY <1>1, <1>2 DEF PluginPackets

\* The types hold at the start.
LEMMA StatsTypeInit ==
  ASSUME StatsInit
  PROVE  StatsTypeOK
<1>1. ZeroFlow \in Flow
  BY ModulusHalves DEF ZeroFlow, Flow, Seqs
<1>2. QED
  BY <1>1 DEF StatsInit, StatsTypeOK

\* Every step keeps the types.
LEMMA StatsTypeStep ==
  ASSUME StatsTypeOK, [StatsNext]_statsVars
  PROVE  StatsTypeOK'
<1>1. ASSUME NEW s \in CountedSessions, StartSession(s) \/ EndSession(s) PROVE StatsTypeOK'
  BY <1>1, SessionStep DEF StatsTypeOK
<1>2. ASSUME NEW s \in CountedSessions, NEW packet \in Packet,
             Observe(s, packet), Arrival(s, packet)
      PROVE  StatsTypeOK'
  <2>1. /\ counting' \in [CountedSessions -> {Idle} \cup InHand]
        /\ sessionFlow' \in [CountedSessions -> Flow] /\ unlisted' \in Nat
        /\ UNCHANGED <<sessions, ended, global, pluginFlow, snapshot>>
    BY <1>2, ObserveStep
  <2>2. arrived' \in [CountedSessions -> SUBSET Int]
    BY <1>2 DEF Arrival, StatsTypeOK
  <2>3. QED
    BY <2>1, <2>2 DEF StatsTypeOK, InHand
<1>3. ASSUME NEW s \in CountedSessions, ObserveGlobal(s) PROVE StatsTypeOK'
  <2>1. /\ counting' \in [CountedSessions -> {Idle} \cup InHand] /\ global' \in Flow
        /\ UNCHANGED <<sessions, ended, sessionFlow, pluginFlow, arrived, unlisted, snapshot>>
    BY <1>3, GlobalStep
  <2>2. QED
    BY <2>1 DEF StatsTypeOK, InHand
<1>4. ASSUME NEW s \in CountedSessions, ObservePlugin(s) PROVE StatsTypeOK'
  <2>1. /\ counting' \in [CountedSessions -> {Idle} \cup InHand]
        /\ pluginFlow' \in [CountedPlugins -> Flow]
        /\ UNCHANGED <<sessions, ended, sessionFlow, global, arrived, unlisted, snapshot>>
    BY <1>4, PluginStep
  <2>2. QED
    BY <2>1 DEF StatsTypeOK, InHand
<1>5. CASE Snapshot
  <2>1. snapshot' \in {NoSnapshot} \cup [at : {"plugins"}, global : Nat]
          \cup [at : {"sessions"}, global : Nat, plugins : [CountedPlugins -> Nat]]
    BY <1>5, SnapshotStep, PluginPacketsType
  <2>2. UNCHANGED <<sessions, ended, sessionFlow, global, pluginFlow, counting, arrived, unlisted>>
    BY <1>5, SnapshotStep
  <2>3. QED
    BY <2>1, <2>2 DEF StatsTypeOK
<1>6. CASE UNCHANGED statsVars
  BY <1>6 DEF StatsTypeOK, statsVars
<1>7. QED
  BY <1>1, <1>2, <1>3, <1>4, <1>5, <1>6, StatsSteps

-----------------------------------------------------------------------------
(* Every conjunct, kept by every step. *)

\* A datagram that is observed keeps the flow of its session on its stream.
LEMMA ArrivalFollows ==
  ASSUME StatsTypeOK, FlowsFollow, NEW s \in CountedSessions, NEW packet \in Packet,
         Observe(s, packet), Arrival(s, packet)
  PROVE  Tracks(sessionFlow'[s], arrived'[s], FirstSeq[s])
<1> DEFINE f == sessionFlow[s]
           g == Sized(f, packet.size)
           first == FirstSeq[s]
<1>1. f \in Flow /\ arrived[s] \in SUBSET Int /\ first \in Seqs /\ packet.size \in Nat
      /\ arrived \in [CountedSessions -> SUBSET Int]
  BY StatsAssumption DEF StatsTypeOK, Packet
<1>2. Tracks(f, arrived[s], first)
  BY DEF FlowsFollow
<1>3. CASE s \notin sessions
  <2>1. sessionFlow'[s] = f /\ arrived' = arrived
    BY <1>3, ObserveStep DEF Arrival
  <2>2. QED
    BY <1>2, <2>1
<1>4. CASE s \in sessions
  <2> HIDE DEF f, first
  <2>1. g \in Flow /\ Tracks(g, arrived[s], first)
    BY <1>1, <1>2, SizedCounts, SizedTracks
  <2>2. sessionFlow'[s] = ObservePacket(f, packet)
    BY <1>4, ObserveStep DEF f
  <2>3. CASE packet.seq = NoSeq /\ arrived' = arrived
    BY <2>1, <2>2, <2>3 DEF ObservePacket, first
  <2>4. ASSUME NEW position \in Int,
               IF arrived[s] = {} THEN position = 0
               ELSE Newest(s) - Behind <= position /\ position <= Newest(s) + Ahead,
               packet.seq = (first + position) % Modulo,
               arrived' = IF s \in sessions THEN [arrived EXCEPT ![s] = @ \cup {position}] ELSE arrived
        PROVE  Tracks(sessionFlow'[s], arrived'[s], first)
    <3>1. arrived'[s] = arrived[s] \cup {position}
      BY <1>1, <1>4, <2>4
    <3>2. IF arrived[s] = {} THEN position = 0
          ELSE Max(arrived[s]) - Behind <= position /\ position <= Max(arrived[s]) + Ahead
      BY <2>4 DEF Newest
    <3>3. packet.seq # NoSeq
      <4>1. first + position \in Int
        BY <1>1, <2>4, ModulusHalves DEF Seqs
      <4>2. packet.seq \in Seqs
        BY <2>4, <4>1, ModuloDivides
      <4>3. QED
        BY <4>2, NoSeqAssumption DEF Seqs
    <3> HIDE DEF g
    <3>4. Tracks(Sequenced(g, (first + position) % Modulo), arrived[s] \cup {position}, first)
      BY <1>1, <2>1, <3>2, SequencedTracks
    <3>5. sessionFlow'[s] = Sequenced(g, (first + position) % Modulo)
      BY <2>2, <2>4, <3>3 DEF ObservePacket, g
    <3>6. QED
      BY <3>1, <3>4, <3>5
  <2>5. QED
    BY <2>3, <2>4 DEF Arrival, first
<1>5. QED
  BY <1>3, <1>4

\* The flows go on following their streams.
LEMMA FlowsFollowStep ==
  ASSUME StatsTypeOK, FlowsFollow, [StatsNext]_statsVars
  PROVE  FlowsFollow'
<1>1. ASSUME UNCHANGED <<sessionFlow, arrived>> PROVE FlowsFollow'
  BY <1>1 DEF FlowsFollow
<1>2. ASSUME NEW s \in CountedSessions, NEW packet \in Packet,
             Observe(s, packet), Arrival(s, packet)
      PROVE  FlowsFollow'
  <2>1. ASSUME NEW o \in CountedSessions PROVE Tracks(sessionFlow'[o], arrived'[o], FirstSeq[o])
    <3>1. CASE o = s
      BY <1>2, <3>1, ArrivalFollows
    <3>2. CASE o # s
      <4>1. sessionFlow'[o] = sessionFlow[o]
        BY <1>2, <3>2, ObserveStep
      <4>2. arrived'[o] = arrived[o]
        BY <1>2, <3>2 DEF Arrival, StatsTypeOK
      <4>3. QED
        BY <4>1, <4>2 DEF FlowsFollow
    <3>3. QED
      BY <3>1, <3>2
  <2>2. QED
    BY <2>1 DEF FlowsFollow
<1>3. ASSUME NEW s \in CountedSessions, StartSession(s) \/ EndSession(s) PROVE FlowsFollow'
  BY <1>1, <1>3, SessionStep
<1>4. ASSUME NEW s \in CountedSessions, ObserveGlobal(s) PROVE FlowsFollow'
  BY <1>1, <1>4, GlobalStep
<1>5. ASSUME NEW s \in CountedSessions, ObservePlugin(s) PROVE FlowsFollow'
  BY <1>1, <1>5, PluginStep
<1>6. CASE Snapshot
  BY <1>1, <1>6, SnapshotStep
<1>7. CASE UNCHANGED statsVars
  BY <1>1, <1>7 DEF statsVars
<1>8. QED
  BY <1>2, <1>3, <1>4, <1>5, <1>6, <1>7, StatsSteps

\* Flows that follow their streams bracket what is missing.
LEMMA FollowsBrackets ==
  ASSUME StatsTypeOK, FlowsFollow
  PROVE  LossBracketsMissing
<1>1. ASSUME NEW s \in CountedSessions, arrived[s] # {}
      PROVE  /\ Missing(s) <= sessionFlow[s].loss
             /\ sessionFlow[s].loss - sessionFlow[s].reordered <= Missing(s)
             /\ sessionFlow[s].seqPackets - sessionFlow[s].duplicate >= Cardinality(arrived[s])
  <2>1. PICK newest \in Nat : Follow(sessionFlow[s], arrived[s], newest, FirstSeq[s])
    BY <1>1 DEF FlowsFollow, Tracks
  <2>2. arrived[s] \in SUBSET Int
    BY DEF StatsTypeOK
  <2>3. Newest(s) = newest
    BY <2>1, <2>2, NewestIsMax DEF Follow, Newest
  <2>4. Missing(s) = Cardinality(Gaps(arrived[s], newest))
    BY <2>3 DEF Missing, Gaps
  <2>5. QED
    BY <2>1, <2>4 DEF Follow
<1>2. QED
  BY <1>1 DEF LossBracketsMissing

\* One summand more by one is a sum more by one.
LEMMA SumOneMore ==
  ASSUME NEW S, IsFiniteSet(S), NEW f \in [S -> Nat], NEW g \in [S -> Nat], NEW x \in S,
         g[x] = f[x] + 1, \A y \in S \ {x} : g[y] = f[y]
  PROVE  SumFunction(g) = SumFunction(f) + 1 /\ SumFunction(f) \in Nat /\ SumFunction(g) \in Nat
<1>1. /\ SumFunction(g) = SumFunction(f) + g[x] - f[x]
      /\ SumFunction(f) \in Nat /\ SumFunction(g) \in Nat
  BY SumChange
<1>2. f[x] \in Nat
  OBVIOUS
<1>3. QED
  BY <1>1, <1>2

\* A sum of naturals is a natural.
LEMMA SumFunctionType ==
  ASSUME NEW S, IsFiniteSet(S), NEW f \in [S -> Nat]
  PROVE  SumFunction(f) \in Nat
<1>1. SumFunction(f) = SumFunctionOnSet(f, S)
  BY DEF SumFunction
<1>2. \A x \in S : f[x] \in Nat
  OBVIOUS
<1>3. QED
  BY <1>1, <1>2, SumType

\* What a plugin's sessions count is counted in numbers.
LEMMA PluginTypes ==
  ASSUME StatsTypeOK
  PROVE  \A p \in CountedPlugins :
           /\ Pending(p) \in [SessionsOf(p) -> Nat]
           /\ SessionPackets(p) \in [SessionsOf(p) -> Nat]
<1>1. \A p \in CountedPlugins : SessionsOf(p) \in SUBSET CountedSessions
  BY DEF SessionsOf
<1>2. \A p \in CountedPlugins : Pending(p) \in [SessionsOf(p) -> Nat]
  BY DEF Pending, Pend
<1>3. \A s \in CountedSessions : sessionFlow[s].packets \in Nat
  BY DEF StatsTypeOK, Flow
<1>4. \A p \in CountedPlugins : SessionPackets(p) \in [SessionsOf(p) -> Nat]
  BY <1>1, <1>3 DEF SessionPackets
<1>5. QED
  BY <1>2, <1>4

\* After a step too.
LEMMA PluginTypesNext ==
  ASSUME StatsTypeOK'
  PROVE  \A p \in CountedPlugins :
           /\ Pending(p)' \in [SessionsOf(p) -> Nat]
           /\ SessionPackets(p)' \in [SessionsOf(p) -> Nat]
<1>1. \A p \in CountedPlugins : SessionsOf(p) \in SUBSET CountedSessions
  BY DEF SessionsOf
<1>2. \A p \in CountedPlugins : Pending(p)' \in [SessionsOf(p) -> Nat]
  BY DEF Pending, Pend, SessionsOf
<1>3. \A s \in CountedSessions : sessionFlow'[s].packets \in Nat
  BY DEF StatsTypeOK, Flow
<1>4. \A p \in CountedPlugins : SessionPackets(p)' \in [SessionsOf(p) -> Nat]
  BY <1>1, <1>3 DEF SessionPackets, SessionsOf
<1>5. QED
  BY <1>2, <1>4

\* The sessions of a plugin, and what they count, are summed.
LEMMA PluginSums ==
  ASSUME StatsTypeOK, NEW p \in CountedPlugins
  PROVE  /\ IsFiniteSet(SessionsOf(p))
         /\ Pending(p) \in [SessionsOf(p) -> Nat] /\ SumFunction(Pending(p)) \in Nat
         /\ SessionPackets(p) \in [SessionsOf(p) -> Nat] /\ SumFunction(SessionPackets(p)) \in Nat
<1>1. SessionsOf(p) \in SUBSET CountedSessions
  BY DEF SessionsOf
<1>2. IsFiniteSet(SessionsOf(p))
  BY <1>1, StatsAssumption, FS_Subset
<1>3. Pending(p) \in [SessionsOf(p) -> Nat] /\ SessionPackets(p) \in [SessionsOf(p) -> Nat]
  BY PluginTypes
<1>4. QED
  BY <1>2, <1>3, SumFunctionType

\* What the session that counts has in hand.
LEMMA ObserveHands ==
  ASSUME StatsTypeOK, NEW s \in CountedSessions, NEW packet \in Packet, Observe(s, packet)
  PROVE  /\ counting'[s] # Idle /\ counting'[s].at = "global"
         /\ counting'[s].listed <=> s \in sessions
<1>1. PICK h : h = [at |-> "global", packet |-> packet, listed |-> s \in sessions]
  OBVIOUS
<1>2. h.at = "global" /\ (h.listed <=> s \in sessions) /\ h # Idle
  BY <1>1 DEF Idle
<1>3. counting'[s] = h
  BY <1>1, ObserveStep
<1>4. QED
  BY <1>2, <1>3

\* The session that counts has nothing pending, and then one datagram if it counts
\* it in its flow; the others are as they were.
LEMMA ObservePends ==
  ASSUME StatsTypeOK, NEW s \in CountedSessions, NEW packet \in Packet, Observe(s, packet),
         NEW p \in CountedPlugins
  PROVE  \/ Pending(p)' = Pending(p) /\ SessionPackets(p)' = SessionPackets(p)
         \/ /\ s \in SessionsOf(p)
            /\ Pending(p)'[s] = Pending(p)[s] + 1
            /\ SessionPackets(p)'[s] = SessionPackets(p)[s] + 1
            /\ \A o \in SessionsOf(p) \ {s} :
                 Pending(p)'[o] = Pending(p)[o] /\ SessionPackets(p)'[o] = SessionPackets(p)[o]
<1>1. /\ Pending(p) = [o \in SessionsOf(p) |-> Pend(o)]
      /\ Pending(p)' = [o \in SessionsOf(p) |-> Pend(o)']
      /\ SessionPackets(p) = [o \in SessionsOf(p) |-> sessionFlow[o].packets]
      /\ SessionPackets(p)' = [o \in SessionsOf(p) |-> sessionFlow'[o].packets]
  BY DEF Pending, SessionPackets, SessionsOf
<1>2. \A o \in SessionsOf(p) : o \in CountedSessions
  BY DEF SessionsOf
<1>3. \A o \in SessionsOf(p) \ {s} :
        Pend(o)' = Pend(o) /\ sessionFlow'[o].packets = sessionFlow[o].packets
  BY <1>2, ObserveStep DEF Pend
<1>4. Pend(s) = 0
  BY ObserveStep DEF Pend
<1>5. counting'[s] # Idle /\ (counting'[s].listed <=> s \in sessions)
  BY ObserveHands
<1>6. CASE s \in sessions
  <2>1. Pend(s)' = 1
    BY <1>5, <1>6 DEF Pend
  <2>2. sessionFlow'[s].packets = sessionFlow[s].packets + 1
    <3>1. sessionFlow[s] \in Flow
      BY DEF StatsTypeOK
    <3>2. ObservePacket(sessionFlow[s], packet).packets = sessionFlow[s].packets + 1
      BY <3>1, PacketCounts
    <3>3. sessionFlow'[s] = ObservePacket(sessionFlow[s], packet)
      BY <1>6, ObserveStep
    <3>4. QED
      BY <3>2, <3>3
  <2>3. CASE s \in SessionsOf(p)
    BY <1>1, <1>3, <1>4, <2>1, <2>2, <2>3
  <2>4. CASE s \notin SessionsOf(p)
    BY <1>1, <1>3, <2>4
  <2>5. QED
    BY <2>3, <2>4
<1>7. CASE s \notin sessions
  <2>1. Pend(s)' = 0 /\ sessionFlow'[s] = sessionFlow[s]
    BY <1>5, <1>7, ObserveStep DEF Pend
  <2>2. \A o \in SessionsOf(p) : Pend(o)' = Pend(o) /\ sessionFlow'[o].packets = sessionFlow[o].packets
    BY <1>3, <1>4, <2>1
  <2>3. QED
    BY <1>1, <2>2
<1>8. QED
  BY <1>6, <1>7

\* What a plugin lacks is what its sessions have pending, whatever is counted.
LEMMA ObserveLags ==
  ASSUME StatsTypeOK, PluginsLag, NEW s \in CountedSessions, NEW packet \in Packet,
         Observe(s, packet), StatsTypeOK'
  PROVE  PluginsLag'
<1>1. ASSUME NEW p \in CountedPlugins
      PROVE  pluginFlow'[p].packets + SumFunction(Pending(p)') = SumFunction(SessionPackets(p)')
  <2>1. /\ IsFiniteSet(SessionsOf(p))
        /\ Pending(p) \in [SessionsOf(p) -> Nat] /\ SumFunction(Pending(p)) \in Nat
        /\ SessionPackets(p) \in [SessionsOf(p) -> Nat] /\ SumFunction(SessionPackets(p)) \in Nat
    BY PluginSums
  <2>2. /\ Pending(p)' \in [SessionsOf(p) -> Nat]
        /\ SessionPackets(p)' \in [SessionsOf(p) -> Nat]
    BY PluginTypesNext
  <2>3. pluginFlow'[p].packets = pluginFlow[p].packets /\ pluginFlow[p].packets \in Nat
    BY ObserveStep DEF StatsTypeOK, Flow
  <2>4. pluginFlow[p].packets + SumFunction(Pending(p)) = SumFunction(SessionPackets(p))
    BY DEF PluginsLag
  <2>5. CASE Pending(p)' = Pending(p) /\ SessionPackets(p)' = SessionPackets(p)
    BY <2>3, <2>4, <2>5
  <2>6. CASE /\ s \in SessionsOf(p)
             /\ Pending(p)'[s] = Pending(p)[s] + 1
             /\ SessionPackets(p)'[s] = SessionPackets(p)[s] + 1
             /\ \A o \in SessionsOf(p) \ {s} :
                  Pending(p)'[o] = Pending(p)[o] /\ SessionPackets(p)'[o] = SessionPackets(p)[o]
    <3>1. SumFunction(Pending(p)') = SumFunction(Pending(p)) + 1
      BY <2>1, <2>2, <2>6, SumOneMore
    <3>2. SumFunction(SessionPackets(p)') = SumFunction(SessionPackets(p)) + 1
      BY <2>1, <2>2, <2>6, SumOneMore
    <3>3. QED
      BY <2>1, <2>3, <2>4, <3>1, <3>2
  <2>7. QED
    BY <2>5, <2>6, ObservePends
<1>2. ASSUME NEW o \in CountedSessions, counting'[o].at = "plugin" PROVE counting'[o].listed
  <2>1. o # s
    BY <1>2, ObserveHands
  <2>2. QED
    BY <1>2, <2>1, ObserveStep DEF PluginsLag
<1>3. QED
  BY <1>1, <1>2 DEF PluginsLag

\* What a session has in hand once its datagram is counted globally.
LEMMA GlobalHands ==
  ASSUME StatsTypeOK, NEW s \in CountedSessions, ObserveGlobal(s)
  PROVE  /\ counting[s] # Idle
         /\ counting[s].listed =>
              counting'[s] # Idle /\ counting'[s].at = "plugin" /\ counting'[s].listed
         /\ ~ counting[s].listed => counting'[s] = Idle /\ counting'[s].at = "idle"
<1>1. counting[s].at = "global"
  BY GlobalStep
<1>2. counting[s] # Idle
  BY <1>1 DEF Idle
<1>3. ASSUME counting[s].listed
      PROVE  counting'[s] # Idle /\ counting'[s].at = "plugin" /\ counting'[s].listed
  <2>1. PICK h : h = [at |-> "plugin", packet |-> counting[s].packet, listed |-> TRUE]
    OBVIOUS
  <2>2. h # Idle /\ h.at = "plugin" /\ h.listed
    BY <2>1 DEF Idle
  <2>3. counting'[s] = h
    BY <1>3, <2>1, GlobalStep
  <2>4. QED
    BY <2>2, <2>3
<1>4. ASSUME ~ counting[s].listed PROVE counting'[s] = Idle /\ counting'[s].at = "idle"
  <2>1. counting'[s] = Idle
    BY <1>4, GlobalStep
  <2>2. QED
    BY <2>1 DEF Idle
<1>5. QED
  BY <1>2, <1>3, <1>4

\* A datagram that is counted globally is pending as before.
LEMMA GlobalLags ==
  ASSUME StatsTypeOK, PluginsLag, NEW s \in CountedSessions, ObserveGlobal(s)
  PROVE  PluginsLag'
<1>1. \A o \in CountedSessions : Pend(o)' = Pend(o)
  <2>1. ASSUME NEW o \in CountedSessions, o # s PROVE Pend(o)' = Pend(o)
    BY <2>1, GlobalStep DEF Pend
  <2>2. Pend(s)' = Pend(s)
    BY GlobalHands DEF Pend
  <2>3. QED
    BY <2>1, <2>2
<1>2. \A p \in CountedPlugins : Pending(p)' = Pending(p)
  BY <1>1 DEF Pending, SessionsOf
<1>3. sessionFlow' = sessionFlow /\ pluginFlow' = pluginFlow
  BY GlobalStep
<1>4. \A p \in CountedPlugins : SessionPackets(p)' = SessionPackets(p)
  BY <1>3 DEF SessionPackets, SessionsOf
<1>5. ASSUME NEW o \in CountedSessions, counting'[o].at = "plugin" PROVE counting'[o].listed
  <2>1. CASE o # s
    BY <1>5, <2>1, GlobalStep DEF PluginsLag
  <2>2. CASE o = s /\ counting[s].listed
    BY <2>2, GlobalHands
  <2>3. CASE o = s /\ ~ counting[s].listed
    BY <1>5, <2>3, GlobalHands
  <2>4. QED
    BY <2>1, <2>2, <2>3
<1>6. QED
  BY <1>2, <1>3, <1>4, <1>5 DEF PluginsLag

\* A plugin that counts a datagram no longer lacks it.
LEMMA PluginLags ==
  ASSUME StatsTypeOK, PluginsLag, NEW s \in CountedSessions, ObservePlugin(s), StatsTypeOK'
  PROVE  PluginsLag'
<1>1. Pend(s) = 1 /\ Pend(s)' = 0
  <2>1. counting[s] # Idle /\ counting[s].listed
    BY PluginStep DEF Idle, PluginsLag
  <2>2. counting'[s] = Idle
    BY PluginStep
  <2>3. QED
    BY <2>1, <2>2 DEF Pend
<1>2. \A o \in CountedSessions \ {s} : Pend(o)' = Pend(o)
  BY PluginStep DEF Pend
<1>3. sessionFlow' = sessionFlow
  BY PluginStep
<1>4. ASSUME NEW p \in CountedPlugins
      PROVE  pluginFlow'[p].packets + SumFunction(Pending(p)') = SumFunction(SessionPackets(p)')
  <2>1. /\ IsFiniteSet(SessionsOf(p))
        /\ Pending(p) \in [SessionsOf(p) -> Nat] /\ SumFunction(Pending(p)) \in Nat
        /\ SessionPackets(p) \in [SessionsOf(p) -> Nat] /\ SumFunction(SessionPackets(p)) \in Nat
    BY PluginSums
  <2>2. Pending(p)' \in [SessionsOf(p) -> Nat]
    BY PluginTypesNext
  <2>3. SessionPackets(p)' = SessionPackets(p)
    BY <1>3 DEF SessionPackets, SessionsOf
  <2>4. pluginFlow[p].packets + SumFunction(Pending(p)) = SumFunction(SessionPackets(p))
        /\ pluginFlow[p].packets \in Nat
    BY DEF PluginsLag, StatsTypeOK, Flow
  <2>5. /\ Pending(p) = [o \in SessionsOf(p) |-> Pend(o)]
        /\ Pending(p)' = [o \in SessionsOf(p) |-> Pend(o)']
        /\ \A o \in SessionsOf(p) : o \in CountedSessions
    BY DEF Pending, SessionsOf
  <2>6. CASE p = PluginOf[s]
    <3>1. s \in SessionsOf(p)
      BY <2>6 DEF SessionsOf
    <3>2. /\ Pending(p)[s] = Pending(p)'[s] + 1
          /\ \A o \in SessionsOf(p) \ {s} : Pending(p)[o] = Pending(p)'[o]
      BY <1>1, <1>2, <2>5, <3>1
    <3>3. SumFunction(Pending(p)) = SumFunction(Pending(p)') + 1 /\ SumFunction(Pending(p)') \in Nat
      BY <2>1, <2>2, <3>1, <3>2, SumOneMore
    <3>4. pluginFlow'[p].packets = pluginFlow[p].packets + 1
      BY <2>6, PluginStep
    <3>5. QED
      BY <2>1, <2>3, <2>4, <3>3, <3>4
  <2>7. CASE p # PluginOf[s]
    <3>1. s \notin SessionsOf(p)
      BY <2>7 DEF SessionsOf
    <3>2. Pending(p)' = Pending(p)
      BY <1>2, <2>5, <3>1
    <3>3. pluginFlow'[p] = pluginFlow[p]
      BY <2>7, PluginStep
    <3>4. QED
      BY <2>3, <2>4, <3>2, <3>3
  <2>8. QED
    BY <2>6, <2>7
<1>5. ASSUME NEW o \in CountedSessions, counting'[o].at = "plugin" PROVE counting'[o].listed
  <2>1. o # s
    BY <1>5, PluginStep DEF Idle
  <2>2. QED
    BY <1>5, <2>1, PluginStep DEF PluginsLag
<1>6. QED
  BY <1>4, <1>5 DEF PluginsLag

\* The plugins lag by what is pending, always.
LEMMA PluginsLagStep ==
  ASSUME StatsTypeOK, PluginsLag, [StatsNext]_statsVars
  PROVE  PluginsLag'
<1>1. StatsTypeOK'
  BY StatsTypeStep
<1>2. ASSUME UNCHANGED <<sessionFlow, pluginFlow, counting>> PROVE PluginsLag'
  <2>1. \A p \in CountedPlugins : Pending(p)' = Pending(p) /\ SessionPackets(p)' = SessionPackets(p)
    BY <1>2 DEF Pending, Pend, SessionPackets, SessionsOf
  <2>2. QED
    BY <1>2, <2>1 DEF PluginsLag
<1>3. ASSUME NEW s \in CountedSessions, StartSession(s) \/ EndSession(s) PROVE PluginsLag'
  BY <1>2, <1>3, SessionStep
<1>4. CASE Snapshot
  BY <1>2, <1>4, SnapshotStep
<1>5. CASE UNCHANGED statsVars
  BY <1>2, <1>5 DEF statsVars
<1>6. QED
  BY <1>1, <1>3, <1>4, <1>5, StatsSteps, ObserveLags, GlobalLags, PluginLags

-----------------------------------------------------------------------------
\* Sessions on their way are finitely many.
LEMMA OnTheWayFinite ==
  /\ IsFiniteSet(AtPlugin) /\ Cardinality(AtPlugin) \in Nat
  /\ Cardinality(AtPlugin) <= Cardinality(CountedSessions)
  /\ IsFiniteSet(Stray) /\ Cardinality(Stray) \in Nat
  /\ Cardinality(CountedSessions) \in Nat
<1>1. AtPlugin \in SUBSET CountedSessions /\ Stray \in SUBSET CountedSessions
  BY DEF AtPlugin, Stray
<1>2. IsFiniteSet(CountedSessions)
  BY StatsAssumption
<1>3. /\ IsFiniteSet(AtPlugin) /\ Cardinality(AtPlugin) <= Cardinality(CountedSessions)
      /\ IsFiniteSet(Stray)
  BY <1>1, <1>2, FS_Subset
<1>4. QED
  BY <1>2, <1>3, FS_CardinalityType

\* One more on its way, or one less.
LEMMA OneOnTheWay ==
  ASSUME NEW S, IsFiniteSet(S), NEW x
  PROVE  /\ x \notin S => Cardinality(S \cup {x}) = Cardinality(S) + 1
         /\ x \in S => Cardinality(S \ {x}) = Cardinality(S) - 1
BY FS_AddElement, FS_RemoveElement

\* The global flow leads by what the plugins lack and the ended sessions sent, always.
LEMMA GlobalLeadsStep ==
  ASSUME StatsTypeOK, PluginsLag, GlobalLeads, [StatsNext]_statsVars
  PROVE  GlobalLeads'
<1>1. /\ IsFiniteSet(AtPlugin) /\ Cardinality(AtPlugin) \in Nat
      /\ IsFiniteSet(Stray) /\ Cardinality(Stray) \in Nat
  BY OnTheWayFinite
<1>2. PICK g \in Nat, n \in Nat, u \in Nat, a \in Nat, b \in Nat :
        /\ g = global.packets /\ n = SumFunction(PluginPackets) /\ u = unlisted
        /\ a = Cardinality(Stray) /\ b = Cardinality(AtPlugin)
  <2>1. SumFunction(PluginPackets) \in Nat /\ global.packets \in Nat
    BY PluginPacketsType, StatsAssumption, SumFunctionType
  <2>2. unlisted \in Nat
    BY DEF StatsTypeOK
  <2>3. QED
    BY <1>1, <2>1, <2>2
<1>3. g + a = n + u + b
  BY <1>2 DEF GlobalLeads
<1>4. ASSUME UNCHANGED <<global, pluginFlow, counting, unlisted>> PROVE GlobalLeads'
  BY <1>4 DEF GlobalLeads, PluginPackets, AtPlugin, Stray
<1>5. ASSUME NEW s \in CountedSessions, NEW packet \in Packet, Observe(s, packet)
      PROVE  GlobalLeads'
  <2>1. PluginPackets' = PluginPackets /\ global' = global
    BY <1>5, ObserveStep DEF PluginPackets
  <2>2. /\ counting'[s].at = "global" /\ (counting'[s].listed <=> s \in sessions)
        /\ counting[s].at # "global" /\ counting[s].at # "plugin"
        /\ \A o \in CountedSessions \ {s} : counting'[o] = counting[o]
    <3>1. counting[s] = Idle
      BY <1>5, ObserveStep
    <3>2. counting[s].at # "global" /\ counting[s].at # "plugin"
      BY <3>1 DEF Idle
    <3>3. \A o \in CountedSessions \ {s} : counting'[o] = counting[o]
      BY <1>5, ObserveStep
    <3>4. counting'[s].at = "global" /\ (counting'[s].listed <=> s \in sessions)
      BY <1>5, ObserveHands
    <3>5. QED
      BY <3>2, <3>3, <3>4
  <2>3. AtPlugin' = AtPlugin
    BY <2>2 DEF AtPlugin
  <2>4. CASE s \in sessions
    <3>1. Stray' = Stray
      BY <2>2, <2>4 DEF Stray
    <3>2. unlisted' = unlisted
      BY <1>5, <2>4, ObserveStep
    <3>3. QED
      BY <2>1, <2>3, <3>1, <3>2 DEF GlobalLeads
  <2>5. CASE s \notin sessions
    <3>1. Stray' = Stray \cup {s} /\ s \notin Stray
      BY <2>2, <2>5 DEF Stray
    <3>2. Cardinality(Stray') = a + 1
      BY <1>1, <1>2, <3>1, OneOnTheWay
    <3>3. unlisted' = u + 1
      BY <1>2, <1>5, <2>5, ObserveStep
    <3>4. g + (a + 1) = n + (u + 1) + b
      BY <1>3
    <3>5. QED
      BY <1>2, <2>1, <2>3, <3>2, <3>3, <3>4 DEF GlobalLeads
  <2>6. QED
    BY <2>4, <2>5
<1>6. ASSUME NEW s \in CountedSessions, ObserveGlobal(s) PROVE GlobalLeads'
  <2>1. PluginPackets' = PluginPackets /\ global'.packets = g + 1 /\ unlisted' = u
    BY <1>2, <1>6, GlobalStep DEF PluginPackets
  <2>2. counting[s].at = "global" /\ \A o \in CountedSessions \ {s} : counting'[o] = counting[o]
    BY <1>6, GlobalStep
  <2>3. CASE counting[s].listed
    <3>1. counting'[s].at = "plugin"
      BY <1>6, <2>3, GlobalHands
    <3>2. Stray' = Stray /\ AtPlugin' = AtPlugin \cup {s} /\ s \notin AtPlugin
      BY <2>2, <2>3, <3>1 DEF Stray, AtPlugin
    <3>3. Cardinality(AtPlugin') = b + 1
      BY <1>1, <1>2, <3>2, OneOnTheWay
    <3>4. (g + 1) + a = n + u + (b + 1)
      BY <1>3
    <3>5. QED
      BY <1>2, <2>1, <3>2, <3>3, <3>4 DEF GlobalLeads
  <2>4. CASE ~ counting[s].listed
    <3>1. counting'[s].at = "idle"
      BY <1>6, <2>4, GlobalHands
    <3>2. Stray' = Stray \ {s} /\ AtPlugin' = AtPlugin /\ s \in Stray
      BY <2>2, <2>4, <3>1 DEF Stray, AtPlugin
    <3>3. Cardinality(Stray') = a - 1
      BY <1>1, <1>2, <3>2, OneOnTheWay
    <3>4. (g + 1) + (a - 1) = n + u + b
      BY <1>3
    <3>5. QED
      BY <1>2, <2>1, <3>2, <3>3, <3>4 DEF GlobalLeads
  <2>5. QED
    BY <2>3, <2>4
<1>7. ASSUME NEW s \in CountedSessions, ObservePlugin(s) PROVE GlobalLeads'
  <2>1. counting'[s].at = "idle" /\ counting[s].at = "plugin" /\ global' = global /\ unlisted' = u
        /\ \A o \in CountedSessions \ {s} : counting'[o] = counting[o]
    BY <1>2, <1>7, PluginStep DEF Idle
  <2>2. Stray' = Stray /\ AtPlugin' = AtPlugin \ {s} /\ s \in AtPlugin
    BY <2>1 DEF Stray, AtPlugin
  <2>3. Cardinality(AtPlugin') = b - 1
    BY <1>1, <1>2, <2>2, OneOnTheWay
  <2>4. SumFunction(PluginPackets') = n + 1
    <3>1. PluginPackets \in [CountedPlugins -> Nat]
      BY PluginPacketsType
    <3>2. PluginPackets' \in [CountedPlugins -> Nat]
      <4>1. pluginFlow' \in [CountedPlugins -> Flow]
        BY <1>7, PluginStep
      <4>2. \A f \in Flow : f.packets \in Nat
        BY DEF Flow
      <4>3. QED
        BY <4>1, <4>2 DEF PluginPackets
    <3>3. /\ PluginOf[s] \in CountedPlugins
          /\ PluginPackets'[PluginOf[s]] = PluginPackets[PluginOf[s]] + 1
          /\ \A p \in CountedPlugins \ {PluginOf[s]} : PluginPackets'[p] = PluginPackets[p]
      BY <1>7, PluginStep DEF PluginPackets
    <3>4. SumFunction(PluginPackets') = SumFunction(PluginPackets) + 1
      BY <3>1, <3>2, <3>3, StatsAssumption, SumOneMore
    <3>5. QED
      BY <1>2, <3>4
  <2>5. g + a = (n + 1) + u + (b - 1)
    BY <1>3
  <2>6. QED
    BY <1>2, <2>1, <2>2, <2>3, <2>4, <2>5 DEF GlobalLeads
<1>8. ASSUME NEW s \in CountedSessions, StartSession(s) \/ EndSession(s) PROVE GlobalLeads'
  BY <1>4, <1>8, SessionStep
<1>9. CASE Snapshot
  BY <1>4, <1>9, SnapshotStep
<1>10. CASE UNCHANGED statsVars
  BY <1>4, <1>10 DEF statsVars
<1>11. QED
  BY <1>5, <1>6, <1>7, <1>8, <1>9, <1>10, StatsSteps

-----------------------------------------------------------------------------
\* What a snapshot has read stays behind what is counted.
LEMMA SnapshotBehindStep ==
  ASSUME StatsTypeOK, GlobalLeads, SnapshotBehind, [StatsNext]_statsVars
  PROVE  SnapshotBehind'
<1>1. PICK g \in Nat, u \in Nat, n \in Nat, b \in Nat, a \in Nat, c \in Nat :
        /\ g = global.packets /\ u = unlisted /\ n = SumFunction(PluginPackets)
        /\ b = Cardinality(AtPlugin) /\ a = Cardinality(Stray) /\ c = Cardinality(CountedSessions)
        /\ b <= c
  <2>1. SumFunction(PluginPackets) \in Nat /\ global.packets \in Nat
    BY PluginPacketsType, StatsAssumption, SumFunctionType
  <2>2. unlisted \in Nat
    BY DEF StatsTypeOK
  <2>3. QED
    BY <2>1, <2>2, OnTheWayFinite
<1>2. g + a = n + u + b
  BY <1>1 DEF GlobalLeads
\* The counters only grow.
<1>3. ASSUME snapshot' = snapshot, global'.packets \in Nat, global'.packets >= global.packets,
             unlisted' \in Nat, unlisted' >= unlisted,
             \A p \in CountedPlugins : /\ pluginFlow'[p].packets \in Nat
                                       /\ pluginFlow'[p].packets >= pluginFlow[p].packets
      PROVE  SnapshotBehind'
  <2>1. ASSUME snapshot.at = "plugins" PROVE snapshot.global <= global'.packets
    <3>1. snapshot.global \in Nat
      BY <2>1 DEF StatsTypeOK, NoSnapshot
    <3>2. snapshot.global <= global.packets
      BY <2>1 DEF SnapshotBehind
    <3>3. QED
      BY <1>1, <1>3, <3>1, <3>2
  <2>2. ASSUME snapshot.at = "sessions"
        PROVE  /\ \A p \in CountedPlugins : snapshot.plugins[p] <= pluginFlow'[p].packets
               /\ snapshot.global <= SumFunction(snapshot.plugins) + unlisted' + c
    <3>1. snapshot.global \in Nat /\ snapshot.plugins \in [CountedPlugins -> Nat]
      BY <2>2 DEF StatsTypeOK, NoSnapshot
    <3>2. PICK m \in Nat : m = SumFunction(snapshot.plugins)
      BY <3>1, StatsAssumption, SumFunctionType
    <3>3. /\ \A p \in CountedPlugins : snapshot.plugins[p] <= pluginFlow[p].packets
          /\ snapshot.global <= m + u + c
      BY <1>1, <2>2, <3>2 DEF SnapshotBehind
    <3>4. ASSUME NEW p \in CountedPlugins PROVE snapshot.plugins[p] <= pluginFlow'[p].packets
      <4>1. snapshot.plugins[p] \in Nat /\ pluginFlow[p].packets \in Nat
        BY <3>1 DEF StatsTypeOK, Flow
      <4>2. QED
        BY <1>3, <3>3, <4>1
    <3>5. snapshot.global <= m + unlisted' + c
      BY <1>1, <1>3, <3>1, <3>3
    <3>6. QED
      BY <3>2, <3>4, <3>5
  <2>3. QED
    BY <1>1, <1>3, <2>1, <2>2 DEF SnapshotBehind
<1>4. \A p \in CountedPlugins : pluginFlow[p].packets \in Nat
  BY DEF StatsTypeOK, Flow
<1>5. ASSUME UNCHANGED <<global, pluginFlow, unlisted, snapshot>> PROVE SnapshotBehind'
  BY <1>5 DEF SnapshotBehind
<1>6. ASSUME NEW s \in CountedSessions, NEW packet \in Packet, Observe(s, packet)
      PROVE  SnapshotBehind'
  <2>1. UNCHANGED <<global, pluginFlow, snapshot>> /\ (unlisted' = u \/ unlisted' = u + 1)
    BY <1>1, <1>6, ObserveStep
  <2>2. unlisted' \in Nat /\ unlisted' >= u
    BY <2>1
  <2>3. g >= g /\ \A p \in CountedPlugins : pluginFlow[p].packets >= pluginFlow[p].packets
    BY <1>4
  <2>4. QED
    BY <1>1, <1>3, <1>4, <2>1, <2>2, <2>3
<1>7. ASSUME NEW s \in CountedSessions, ObserveGlobal(s) PROVE SnapshotBehind'
  <2>1. UNCHANGED <<unlisted, pluginFlow, snapshot>> /\ global'.packets = g + 1
    BY <1>1, <1>7, GlobalStep
  <2>2. g + 1 \in Nat /\ g + 1 >= g /\ u >= u
    OBVIOUS
  <2>3. \A p \in CountedPlugins : pluginFlow[p].packets >= pluginFlow[p].packets
    BY <1>4
  <2>4. QED
    BY <1>1, <1>3, <1>4, <2>1, <2>2, <2>3
<1>8. ASSUME NEW s \in CountedSessions, ObservePlugin(s) PROVE SnapshotBehind'
  <2>1. UNCHANGED <<unlisted, global, snapshot>>
    BY <1>8, PluginStep
  <2>2. g >= g /\ u >= u
    OBVIOUS
  <2>3. ASSUME NEW p \in CountedPlugins
        PROVE  pluginFlow'[p].packets \in Nat /\ pluginFlow'[p].packets >= pluginFlow[p].packets
    <3>1. pluginFlow'[p].packets = pluginFlow[p].packets + 1
          \/ pluginFlow'[p].packets = pluginFlow[p].packets
      BY <1>8, PluginStep
    <3>2. QED
      BY <1>4, <3>1
  <2>4. QED
    BY <1>1, <1>3, <2>1, <2>2, <2>3
<1>9. ASSUME NEW s \in CountedSessions, StartSession(s) \/ EndSession(s) PROVE SnapshotBehind'
  BY <1>5, <1>9, SessionStep
<1>10. CASE Snapshot
  <2>1. UNCHANGED <<global, pluginFlow, unlisted>>
    BY <1>10, SnapshotStep
  <2>2. CASE snapshot' = [at |-> "plugins", global |-> global.packets]
    <3>1. snapshot'.at = "plugins" /\ snapshot'.global = g
      BY <1>1, <2>2
    <3>2. QED
      BY <1>1, <2>1, <3>1 DEF SnapshotBehind
  <2>3. CASE /\ snapshot.at = "plugins" /\ snapshot.global \in Nat
             /\ snapshot' = [at |-> "sessions", global |-> snapshot.global, plugins |-> PluginPackets]
    <3>1. /\ snapshot'.at = "sessions" /\ snapshot'.global = snapshot.global
          /\ snapshot'.plugins = PluginPackets
      BY <2>3
    <3>2. snapshot.global <= n + u + c
      <4>1. snapshot.global <= g
        BY <1>1, <2>3 DEF SnapshotBehind
      <4>2. QED
        BY <1>1, <1>2, <2>3, <4>1
    <3>3. \A p \in CountedPlugins : PluginPackets[p] <= pluginFlow[p].packets
      BY <1>4 DEF PluginPackets
    <3>4. QED
      BY <1>1, <2>1, <3>1, <3>2, <3>3 DEF SnapshotBehind
  <2>4. CASE snapshot' = NoSnapshot
    BY <2>4 DEF SnapshotBehind, NoSnapshot
  <2>5. QED
    BY <1>10, <2>2, <2>3, <2>4, SnapshotStep
<1>11. CASE UNCHANGED statsVars
  BY <1>5, <1>11 DEF statsVars
<1>12. QED
  BY <1>6, <1>7, <1>8, <1>9, <1>10, <1>11, StatsSteps

\* Counters that agree as the invariant says agree at rest and in a snapshot.
LEMMA InvCountsAgree ==
  ASSUME StatsTypeOK, PluginsLag, GlobalLeads, SnapshotBehind
  PROVE  CountsAgree
<1>1. ASSUME \A s \in CountedSessions : counting[s] = Idle PROVE
        /\ \A p \in CountedPlugins : pluginFlow[p].packets = SumFunction(SessionPackets(p))
        /\ global.packets = SumFunction(PluginPackets) + unlisted
  <2>1. ASSUME NEW p \in CountedPlugins
        PROVE  pluginFlow[p].packets = SumFunction(SessionPackets(p))
    <3>1. \A s \in SessionsOf(p) : Pending(p)[s] = 0
      BY <1>1 DEF Pending, Pend, SessionsOf
    <3>2. SumFunction(Pending(p)) = 0
      <4>1. IsFiniteSet(SessionsOf(p)) /\ Pending(p) \in [SessionsOf(p) -> Nat]
        BY PluginSums
      <4>2. SumFunction(Pending(p)) = SumFunctionOnSet(Pending(p), SessionsOf(p))
        BY <4>1 DEF SumFunction
      <4>3. QED
        BY <3>1, <4>1, <4>2, SumOfZeros
    <3>3. pluginFlow[p].packets \in Nat
      BY DEF StatsTypeOK, Flow
    <3>4. QED
      BY <3>2, <3>3 DEF PluginsLag
  <2>2. AtPlugin = {} /\ Stray = {}
    BY <1>1 DEF AtPlugin, Stray, Idle
  <2>3. Cardinality(AtPlugin) = 0 /\ Cardinality(Stray) = 0
    BY <2>2, FS_EmptySet
  <2>4. SumFunction(PluginPackets) \in Nat /\ global.packets \in Nat /\ unlisted \in Nat
    BY PluginPacketsType, StatsAssumption, SumFunctionType DEF StatsTypeOK
  <2>5. QED
    BY <2>1, <2>3, <2>4 DEF GlobalLeads
<1>2. ASSUME snapshot.at = "sessions", NEW p \in CountedPlugins
      PROVE  snapshot.plugins[p] <= SumFunction(SessionPackets(p))
  <2>1. SumFunction(Pending(p)) \in Nat /\ SumFunction(SessionPackets(p)) \in Nat
    BY PluginSums
  <2>2. snapshot.plugins[p] \in Nat /\ pluginFlow[p].packets \in Nat
    BY <1>2 DEF StatsTypeOK, NoSnapshot, Flow
  <2>3. snapshot.plugins[p] <= pluginFlow[p].packets
    BY <1>2 DEF SnapshotBehind
  <2>4. pluginFlow[p].packets + SumFunction(Pending(p)) = SumFunction(SessionPackets(p))
    BY DEF PluginsLag
  <2>5. QED
    BY <2>1, <2>2, <2>3, <2>4
<1>3. QED
  BY <1>1, <1>2 DEF CountsAgree, AggregatesAgree, SnapshotOrder, SnapshotBehind

\* The invariant holds at the start.
LEMMA StatsInvInit ==
  ASSUME StatsInit
  PROVE  StatsInv
<1>1. StatsTypeOK
  BY StatsTypeInit
<1>2. FlowsFollow
  BY DEF StatsInit, FlowsFollow, Tracks, ZeroFlow
<1>3. \A s \in CountedSessions : counting[s] = Idle /\ sessionFlow[s].packets = 0
  BY DEF StatsInit, ZeroFlow
<1>4. \A p \in CountedPlugins : pluginFlow[p].packets = 0
  BY DEF StatsInit, ZeroFlow
<1>5. PluginsLag
  <2>1. ASSUME NEW p \in CountedPlugins
        PROVE  SumFunction(Pending(p)) = 0 /\ SumFunction(SessionPackets(p)) = 0
    <3>1. /\ IsFiniteSet(SessionsOf(p))
          /\ Pending(p) \in [SessionsOf(p) -> Nat] /\ SessionPackets(p) \in [SessionsOf(p) -> Nat]
      BY <1>1, PluginSums
    <3>2. \A s \in SessionsOf(p) : Pending(p)[s] = 0 /\ SessionPackets(p)[s] = 0
      BY <1>3 DEF Pending, Pend, SessionPackets, SessionsOf
    <3>3. /\ SumFunction(Pending(p)) = SumFunctionOnSet(Pending(p), SessionsOf(p))
          /\ SumFunction(SessionPackets(p)) = SumFunctionOnSet(SessionPackets(p), SessionsOf(p))
      BY <3>1 DEF SumFunction
    <3>4. QED
      BY <3>1, <3>2, <3>3, SumOfZeros
  <2>2. \A s \in CountedSessions : counting[s].at # "plugin"
    BY <1>3 DEF Idle
  <2>3. QED
    BY <1>4, <2>1, <2>2 DEF PluginsLag
<1>6. GlobalLeads
  <2>1. AtPlugin = {} /\ Stray = {}
    BY <1>3 DEF AtPlugin, Stray, Idle
  <2>2. Cardinality(AtPlugin) = 0 /\ Cardinality(Stray) = 0
    BY <2>1, FS_EmptySet
  <2>3. SumFunction(PluginPackets) = 0
    <3>1. PluginPackets \in [CountedPlugins -> Nat] /\ \A p \in CountedPlugins : PluginPackets[p] = 0
      BY <1>4 DEF PluginPackets
    <3>2. SumFunction(PluginPackets) = SumFunctionOnSet(PluginPackets, CountedPlugins)
      BY <3>1 DEF SumFunction
    <3>3. QED
      BY <3>1, <3>2, StatsAssumption, SumOfZeros
  <2>4. global.packets = 0 /\ unlisted = 0
    BY DEF StatsInit, ZeroFlow
  <2>5. QED
    BY <2>2, <2>3, <2>4 DEF GlobalLeads
<1>7. SnapshotBehind
  BY DEF StatsInit, SnapshotBehind, NoSnapshot
<1>8. QED
  BY <1>1, <1>2, <1>5, <1>6, <1>7 DEF StatsInv

\* Whatever two sessions, two readers and the network do, the counters of the
\* statistics stay of their types, the flows follow their streams, and the three
\* places a datagram is counted in lag behind each other as they must.
THEOREM StatsInvHolds == StatsSpec => []StatsInv
<1>1. ASSUME StatsInv, [StatsNext]_statsVars PROVE StatsInv'
  BY <1>1, StatsTypeStep, FlowsFollowStep, PluginsLagStep, GlobalLeadsStep, SnapshotBehindStep
     DEF StatsInv
<1>2. QED
  BY <1>1, StatsInvInit, PTL DEF StatsSpec

\* The loss a flow shows brackets what never arrived.
THEOREM LossBracketed == StatsSpec => []LossBracketsMissing
<1>1. ASSUME StatsInv PROVE LossBracketsMissing
  BY <1>1, FollowsBrackets DEF StatsInv
<1>2. QED
  BY <1>1, StatsInvHolds, PTL

\* The three counts of the datagrams agree, at rest and in a snapshot.
THEOREM CountsStayTrue == StatsSpec => []CountsAgree
<1>1. ASSUME StatsInv PROVE CountsAgree
  BY <1>1, InvCountsAgree DEF StatsInv
<1>2. QED
  BY <1>1, StatsInvHolds, PTL
=============================================================================

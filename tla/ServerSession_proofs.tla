------------------------ MODULE ServerSession_proofs ------------------------
(***************************************************************************)
(* Theorems about ServerSession: the statistics' views of the active       *)
(* sessions agree, no session outlives its lease, and no byte is lost.     *)
(***************************************************************************)
EXTENDS ServerSession, FiniteSums, SequenceTheorems, TLAPS

\* Where a handler has an entry in the table of sessions, is counted as active,
\* is counted for its plugin, knows its plugin, and has not started the pump.
TableLabels == {"dial", "pump", "close", "drain", "endSession"}
ActiveLabels == TableLabels \cup {"startPlugin", "startSession", "endGlobal"}
PluginLabels == TableLabels \cup {"startSession", "endGlobal", "endPlugin"}
NamedLabels == ActiveLabels \cup PluginLabels \cup {"upgrade", "startGlobal"}
EarlyLabels == {"resolve", "upgrade", "startGlobal", "startPlugin", "startSession", "dial"}

Among(labels) == {h \in Handlers : pc[h] \in labels}
Serving(p) == {h \in Handlers : pc[h] \in PluginLabels /\ plugin[h] = p}
Attributing == {hg \in Handlers \X Copiers : gor[hg[1]][hg[2]] = "plugin"}

\* A handler's error channel is a queue of its goroutines.
ChannelsOK == errCh \in [Handlers -> Seq(Goroutines)]

\* A plugin is known from its resolution until the slot is used again, and the
\* goroutines run from the pump on.
HandlersOK ==
  /\ \A h \in Handlers : pc[h] \in NamedLabels => plugin[h] \in Plugins
  /\ \A h \in Handlers, g \in Goroutines : pc[h] \in EarlyLabels => gor[h][g] = "none"
  /\ \A h \in Handlers, g \in Goroutines : gor[h][g] # "none" => plugin[h] \in Plugins

\* Every handler that is not idle holds one lease.
LeasesOK ==
  /\ IsFiniteSet(leases)
  /\ MaxConnections > 0 => Cardinality(leases) <= MaxConnections
  /\ \A h \in Handlers : HoldsLease(h) <=> pc[h] # "idle"
  /\ \A l, m \in leases : l.holder = m.holder => l = m

\* What each counter counts: the label its handlers are at.
CountersOK ==
  /\ sessions = Among(TableLabels)
  /\ active = Cardinality(Among(ActiveLabels))
  /\ \A p \in Plugins : pluginActive[p] = Cardinality(Serving(p))
  /\ active = SumOf(pluginActive) + Counted({"startPlugin"}) - Counted({"endPlugin"})
  /\ total = SumOf(pluginTotal) + Counted({"startPlugin"})

SessionInv == TypeOK /\ ChannelsOK /\ HandlersOK /\ LeasesOK /\ CountersOK /\ BytesConserved

-----------------------------------------------------------------------------
(* Counting the handlers at a label. *)

In(x, labels) == IF x \in labels THEN 1 ELSE 0

\* A handler that moves leaves the count of its label and joins the next one's.
LEMMA Moved ==
  ASSUME SessionAssumption, TypeOK, NEW h \in Handlers, NEW to \in Labels,
         Goto(h, to), NEW labels
  PROVE  /\ pc' \in [Handlers -> Labels] /\ pc'[h] = to /\ \A o \in Handlers \ {h} : pc'[o] = pc[o]
         /\ IsFiniteSet(Among(labels)) /\ Cardinality(Among(labels)) \in Nat
         /\ Among(labels)' = IF to \in labels THEN Among(labels) \cup {h} ELSE Among(labels) \ {h}
         /\ Cardinality(Among(labels)') = Cardinality(Among(labels)) + In(to, labels) - In(pc[h], labels)
         /\ Cardinality(Among(labels)') \in Nat
<1>1. /\ pc \in [Handlers -> Labels] /\ pc' \in [Handlers -> Labels]
      /\ pc'[h] = to /\ \A o \in Handlers \ {h} : pc'[o] = pc[o]
  BY DEF TypeOK, Goto
<1>2. IsFiniteSet(Among(labels)) /\ IsFiniteSet(Among(labels)')
  <2>1. Among(labels) \in SUBSET Handlers /\ Among(labels)' \in SUBSET Handlers
    BY DEF Among
  <2>2. QED
    BY <2>1, FS_Subset DEF SessionAssumption
<1>3. Cardinality(Among(labels)) \in Nat /\ Cardinality(Among(labels)') \in Nat
  BY <1>2, FS_CardinalityType
<1>4. /\ Among(labels)' = IF to \in labels THEN Among(labels) \cup {h} ELSE Among(labels) \ {h}
      /\ h \in Among(labels) <=> pc[h] \in labels
  BY <1>1 DEF Among
<1>5. Cardinality(Among(labels)') = Cardinality(Among(labels)) + In(to, labels) - In(pc[h], labels)
  <2>1. CASE to \in labels
    BY <1>2, <1>3, <1>4, <2>1, FS_AddElement DEF In
  <2>2. CASE to \notin labels
    BY <1>2, <1>3, <1>4, <2>2, FS_RemoveElement DEF In
  <2>3. QED
    BY <2>1, <2>2
<1>6. QED
  BY <1>1, <1>2, <1>3, <1>4, <1>5

\* The same for the handlers that a plugin's counter counts.
LEMMA ServingMoved ==
  ASSUME SessionAssumption, TypeOK, NEW h \in Handlers, NEW to \in Labels,
         Goto(h, to), \A o \in Handlers \ {h} : plugin'[o] = plugin[o],
         pc[h] \in PluginLabels => plugin'[h] = plugin[h], NEW p
  PROVE  /\ Cardinality(Serving(p)) \in Nat
         /\ Cardinality(Serving(p)') = Cardinality(Serving(p))
              + (IF plugin'[h] = p THEN In(to, PluginLabels) - In(pc[h], PluginLabels) ELSE 0)
         /\ pc[h] \in PluginLabels /\ plugin[h] = p => Cardinality(Serving(p)) > 0
<1>1. /\ pc \in [Handlers -> Labels] /\ pc' \in [Handlers -> Labels]
      /\ pc'[h] = to /\ \A o \in Handlers \ {h} : pc'[o] = pc[o]
  BY DEF TypeOK, Goto
<1>2. IsFiniteSet(Serving(p))
  <2>1. Serving(p) \in SUBSET Handlers
    BY DEF Serving
  <2>2. QED
    BY <2>1, FS_Subset DEF SessionAssumption
<1>3. Cardinality(Serving(p)) \in Nat
  BY <1>2, FS_CardinalityType
<1>4. /\ Serving(p)' = IF to \in PluginLabels /\ plugin'[h] = p THEN Serving(p) \cup {h} ELSE Serving(p) \ {h}
      /\ h \in Serving(p) <=> pc[h] \in PluginLabels /\ plugin[h] = p
  BY <1>1 DEF Serving
<1>5. CASE to \in PluginLabels /\ plugin'[h] = p
  <2>1. Cardinality(Serving(p)') = IF h \in Serving(p) THEN Cardinality(Serving(p)) ELSE Cardinality(Serving(p)) + 1
    BY <1>2, <1>4, <1>5, FS_AddElement
  <2>2. h \in Serving(p) <=> pc[h] \in PluginLabels
    BY <1>4, <1>5
  <2>3. QED
    BY <1>2, <1>3, <1>4, <1>5, <2>1, <2>2, FS_EmptySet DEF In
<1>6. CASE ~ (to \in PluginLabels /\ plugin'[h] = p)
  <2>1. Cardinality(Serving(p)') = IF h \in Serving(p) THEN Cardinality(Serving(p)) - 1 ELSE Cardinality(Serving(p))
    BY <1>2, <1>4, <1>6, FS_RemoveElement
  <2>2. h \in Serving(p) <=> pc[h] \in PluginLabels /\ plugin'[h] = p
    BY <1>4
  <2>3. QED
    BY <1>2, <1>3, <1>4, <1>6, <2>1, <2>2, FS_EmptySet DEF In
<1>7. QED
  BY <1>5, <1>6

\* The counters keep their meaning when each changes as the label its handlers
\* are at does.
LEMMA CountersFollow ==
  ASSUME SessionAssumption, SessionInv, NEW h \in Handlers, NEW to \in Labels,
         Goto(h, to), \A o \in Handlers \ {h} : plugin'[o] = plugin[o],
         pc[h] \in PluginLabels \/ to \in PluginLabels => plugin'[h] = plugin[h],
         sessions' = Among(TableLabels)',
         active' = active + In(to, ActiveLabels) - In(pc[h], ActiveLabels),
         \A p \in Plugins : pluginActive'[p] = pluginActive[p]
             + (IF plugin'[h] = p THEN In(to, PluginLabels) - In(pc[h], PluginLabels) ELSE 0),
         SumOf(pluginActive)' = SumOf(pluginActive) + In(to, PluginLabels) - In(pc[h], PluginLabels),
         SumOf(pluginActive) \in Nat, SumOf(pluginTotal) \in Nat, SumOf(pluginTotal)' \in Nat, total \in Nat,
         total' - SumOf(pluginTotal)' = total - SumOf(pluginTotal) + In(to, {"startPlugin"}) - In(pc[h], {"startPlugin"}),
         total' \in Nat
  PROVE  CountersOK' /\ active' \in Nat
<1> USE DEF SessionInv
<1>1. active' = Cardinality(Among(ActiveLabels)') /\ active' \in Nat
  <2>1. /\ Cardinality(Among(ActiveLabels)') = Cardinality(Among(ActiveLabels)) + In(to, ActiveLabels) - In(pc[h], ActiveLabels)
        /\ Cardinality(Among(ActiveLabels)') \in Nat
    BY Moved
  <2>2. active = Cardinality(Among(ActiveLabels))
    BY DEF CountersOK
  <2>3. QED
    BY <2>1, <2>2
<1>2. ASSUME NEW p \in Plugins PROVE pluginActive'[p] = Cardinality(Serving(p)')
  BY ServingMoved DEF CountersOK
<1>3. /\ Counted({"startPlugin"}) = Cardinality(Among({"startPlugin"}))
      /\ Counted({"startPlugin"})' = Cardinality(Among({"startPlugin"})')
      /\ Counted({"endPlugin"}) = Cardinality(Among({"endPlugin"}))
      /\ Counted({"endPlugin"})' = Cardinality(Among({"endPlugin"})')
  BY DEF Counted, Among
<1>4. /\ Counted({"startPlugin"}) \in Nat /\ Counted({"endPlugin"}) \in Nat
      /\ Counted({"startPlugin"})' = Counted({"startPlugin"}) + In(to, {"startPlugin"}) - In(pc[h], {"startPlugin"})
      /\ Counted({"endPlugin"})' = Counted({"endPlugin"}) + In(to, {"endPlugin"}) - In(pc[h], {"endPlugin"})
  BY <1>3, Moved
<1>5. \A x \in Labels : /\ In(x, ActiveLabels) - In(x, PluginLabels) = In(x, {"startPlugin"}) - In(x, {"endPlugin"})
                        /\ In(x, ActiveLabels) \in Nat /\ In(x, PluginLabels) \in Nat
                        /\ In(x, {"startPlugin"}) \in Nat /\ In(x, {"endPlugin"}) \in Nat
  BY DEF In, ActiveLabels, PluginLabels, TableLabels, Labels
<1>6. pc[h] \in Labels /\ active \in Nat
  BY DEF TypeOK
<1>7. active' = SumOf(pluginActive)' + Counted({"startPlugin"})' - Counted({"endPlugin"})'
  <2>1. active = SumOf(pluginActive) + Counted({"startPlugin"}) - Counted({"endPlugin"})
    BY DEF CountersOK
  <2> DEFINE cs == Counted({"startPlugin"})  ce == Counted({"endPlugin"})
             fromA == In(pc[h], ActiveLabels)  fromP == In(pc[h], PluginLabels)
             toA == In(to, ActiveLabels)  toP == In(to, PluginLabels)
             fromS == In(pc[h], {"startPlugin"})  fromE == In(pc[h], {"endPlugin"})
             toS == In(to, {"startPlugin"})  toE == In(to, {"endPlugin"})
             sum == SumOf(pluginActive)
  <2>2. /\ sum \in Nat /\ active \in Nat /\ cs \in Nat /\ ce \in Nat
        /\ fromA \in Nat /\ fromP \in Nat /\ toA \in Nat /\ toP \in Nat
        /\ fromS \in Nat /\ fromE \in Nat /\ toS \in Nat /\ toE \in Nat
        /\ fromA - fromP = fromS - fromE /\ toA - toP = toS - toE
        /\ active = sum + cs - ce
    BY <1>4, <1>5, <1>6, <2>1
  <2>3. /\ active' = active + toA - fromA
        /\ SumOf(pluginActive)' = sum + toP - fromP
        /\ Counted({"startPlugin"})' = cs + toS - fromS
        /\ Counted({"endPlugin"})' = ce + toE - fromE
    BY <1>4
  <2> HIDE DEF cs, ce, fromA, fromP, toA, toP, fromS, fromE, toS, toE, sum
  <2>4. active + toA - fromA = (sum + toP - fromP) + (cs + toS - fromS) - (ce + toE - fromE)
    BY <2>2
  <2>5. QED
    BY <2>3, <2>4
<1>8. total' = SumOf(pluginTotal)' + Counted({"startPlugin"})'
  <2>1. total = SumOf(pluginTotal) + Counted({"startPlugin"})
    BY DEF CountersOK
  <2>2. QED
    BY <1>4, <1>5, <1>6, <2>1
<1>9. QED
  BY <1>1, <1>2, <1>7, <1>8 DEF CountersOK

\* The counters stay when a handler moves between labels they do not tell apart.
LEMMA CountersUnmoved ==
  ASSUME SessionAssumption, SessionInv, NEW h \in Handlers, NEW to \in Labels,
         Goto(h, to), \A o \in Handlers \ {h} : plugin'[o] = plugin[o],
         pc[h] \in PluginLabels => plugin'[h] = plugin[h],
         pc[h] \in TableLabels <=> to \in TableLabels,
         pc[h] \in ActiveLabels <=> to \in ActiveLabels,
         pc[h] \in PluginLabels <=> to \in PluginLabels,
         pc[h] # "startPlugin", to # "startPlugin",
         UNCHANGED statVars
  PROVE  CountersOK'
<1> USE DEF SessionInv
<1>1. /\ In(to, TableLabels) = In(pc[h], TableLabels)
      /\ In(to, ActiveLabels) = In(pc[h], ActiveLabels) /\ In(to, ActiveLabels) \in Nat
      /\ In(to, PluginLabels) = In(pc[h], PluginLabels) /\ In(to, PluginLabels) \in Nat
      /\ In(to, {"startPlugin"}) = 0 /\ In(pc[h], {"startPlugin"}) = 0
  BY DEF In
<1>2. /\ pluginActive \in [Plugins -> Nat] /\ pluginTotal \in [Plugins -> Nat]
      /\ active \in Nat /\ total \in Nat
  BY DEF TypeOK
<1>3. SumOf(pluginActive) \in Nat /\ SumOf(pluginTotal) \in Nat
  BY <1>2, SumType DEF SumOf, SumFunction, SessionAssumption
<1>4. UNCHANGED <<sessions, active, total, pluginActive, pluginTotal>>
  BY DEF statVars
<1>5. sessions' = Among(TableLabels)'
  <2>1. /\ pc' \in [Handlers -> Labels] /\ pc'[h] = to /\ \A o \in Handlers \ {h} : pc'[o] = pc[o]
    BY Moved
  <2>2. Among(TableLabels)' = Among(TableLabels)
    BY <2>1 DEF Among
  <2>3. QED
    BY <1>4, <2>2 DEF CountersOK
<1>6. \A p \in Plugins : pluginActive'[p] = pluginActive[p]
        + (IF plugin'[h] = p THEN In(to, PluginLabels) - In(pc[h], PluginLabels) ELSE 0)
  BY <1>1, <1>2, <1>4
<1>7. /\ SumOf(pluginActive)' = SumOf(pluginActive) /\ SumOf(pluginTotal)' = SumOf(pluginTotal)
  BY <1>4 DEF SumOf
<1>8. /\ SumOf(pluginActive)' = SumOf(pluginActive) + In(to, PluginLabels) - In(pc[h], PluginLabels)
      /\ active' = active + In(to, ActiveLabels) - In(pc[h], ActiveLabels)
      /\ total' - SumOf(pluginTotal)' = total - SumOf(pluginTotal) + In(to, {"startPlugin"}) - In(pc[h], {"startPlugin"})
  BY <1>1, <1>2, <1>3, <1>4, <1>7
<1>9. pc[h] \in PluginLabels \/ to \in PluginLabels => plugin'[h] = plugin[h]
  OBVIOUS
<1>10. total' \in Nat /\ SumOf(pluginTotal)' \in Nat
  BY <1>2, <1>3, <1>4, <1>7
<1>11. QED
  BY <1>2, <1>3, <1>5, <1>6, <1>8, <1>9, <1>10, CountersFollow

-----------------------------------------------------------------------------
(* The goroutines' counts. *)

\* A copier's step puts it among those that have a plugin's byte to count, or
\* takes it from there.
LEMMA CopierMoves ==
  ASSUME SessionAssumption, TypeOK, NEW h \in Handlers, NEW g \in Goroutines,
         NEW label \in {"run", "lookup", "global", "plugin", "send", "done"}, Step(h, g, label)
  PROVE  /\ gor' \in [Handlers -> [Goroutines -> {"none", "run", "lookup", "global", "plugin", "send", "done"}]]
         /\ gor'[h][g] = label
         /\ \A o \in Handlers, k \in Goroutines : o # h \/ k # g => gor'[o][k] = gor[o][k]
         /\ Cardinality(Attributing) \in Nat
         /\ g \in Copiers =>
              Cardinality(Attributing') = Cardinality(Attributing) + In(label, {"plugin"}) - In(gor[h][g], {"plugin"})
         /\ g \notin Copiers => Attributing' = Attributing
<1>1. /\ gor' \in [Handlers -> [Goroutines -> {"none", "run", "lookup", "global", "plugin", "send", "done"}]]
      /\ gor'[h][g] = label
      /\ \A o \in Handlers, k \in Goroutines : o # h \/ k # g => gor'[o][k] = gor[o][k]
  BY DEF TypeOK, Step
<1>2. Copiers \subseteq Goroutines
  BY DEF Goroutines
<1>3. IsFiniteSet(Handlers \X Copiers)
  <2>1. IsFiniteSet({"rx", "tx"})
    <3>1. IsFiniteSet({"rx"} \cup {"tx"})
      BY FS_Singleton, FS_AddElement
    <3>2. {"rx", "tx"} = {"rx"} \cup {"tx"}
      OBVIOUS
    <3>3. QED
      BY <3>1, <3>2
  <2>2. QED
    BY <2>1, FS_Product DEF SessionAssumption, Copiers
<1>4. IsFiniteSet(Attributing) /\ Cardinality(Attributing) \in Nat
  <2>1. Attributing \in SUBSET (Handlers \X Copiers)
    BY DEF Attributing
  <2>2. QED
    BY <1>3, <2>1, FS_Subset, FS_CardinalityType
<1>5. CASE g \in Copiers
  <2>1. <<h, g>> \in Attributing <=> gor[h][g] = "plugin"
    BY <1>5 DEF Attributing
  <2>2. Attributing' = IF label = "plugin" THEN Attributing \cup {<<h, g>>} ELSE Attributing \ {<<h, g>>}
    BY <1>1, <1>2, <1>5 DEF Attributing
  <2> DEFINE A == Attributing  B == Attributing'  c == <<h, g>>
  <2>3. /\ IsFiniteSet(A) /\ Cardinality(A) \in Nat /\ (c \in A <=> gor[h][g] = "plugin")
        /\ B = IF label = "plugin" THEN A \cup {c} ELSE A \ {c}
    BY <1>4, <2>1, <2>2
  <2> HIDE DEF A, B, c
  <2>4. Cardinality(A \cup {c}) = IF c \in A THEN Cardinality(A) ELSE Cardinality(A) + 1
    BY <2>3, FS_AddElement
  <2>5. Cardinality(A \ {c}) = IF c \in A THEN Cardinality(A) - 1 ELSE Cardinality(A)
    BY <2>3, FS_RemoveElement
  <2>6. Cardinality(B) = Cardinality(A) + In(label, {"plugin"}) - In(gor[h][g], {"plugin"})
    BY <2>3, <2>4, <2>5 DEF In
  <2>7. QED
    BY <1>1, <1>4, <1>5, <2>6 DEF A, B
<1>6. CASE g \notin Copiers
  <2>1. Attributing' = Attributing
    BY <1>1, <1>2, <1>6 DEF Attributing
  <2>2. QED
    BY <1>1, <1>4, <1>6, <2>1
<1>7. QED
  BY <1>5, <1>6

\* What the bytes' counts say, with the copiers on their way to a plugin's.
BytesSay == bytes = SumOf(pluginBytes) + late + Cardinality(Attributing)

\* It is what BytesConserved says.
LEMMA BytesMean == BytesConserved <=> BytesSay
BY DEF BytesConserved, BytesSay, Attributing

-----------------------------------------------------------------------------
(* The handler's steps. *)

Moves(h, to) ==
  /\ Goto(h, to)
  /\ pc[h] # "idle" /\ to # "idle"
  /\ \A o \in Handlers \ {h} : plugin'[o] = plugin[o]
  /\ plugin' \in [Handlers -> Plugins \cup {NoPlugin}]
  /\ to \in NamedLabels \/ plugin[h] \in Plugins => plugin'[h] \in Plugins
  /\ connOpen' \in [Handlers -> BOOLEAN] /\ done' \in [Handlers -> BOOLEAN]
  /\ received' \in [Handlers -> SUBSET Goroutines]
  /\ ChannelsOK'
  /\ UNCHANGED <<leases, bytes, pluginBytes, late, found>>

\* What a handler's move leaves true, whatever its counters do.
LEMMA MoveKeeps ==
  ASSUME SessionAssumption, SessionInv, NEW h \in Handlers, NEW to \in Labels, Moves(h, to),
         UNCHANGED gor, to \in EarlyLabels => pc[h] \in EarlyLabels,
         CountersOK', sessions' \subseteq Handlers, active' \in Nat, total' \in Nat,
         pluginActive' \in [Plugins -> Nat], pluginTotal' \in [Plugins -> Nat]
  PROVE  SessionInv'
<1> USE DEF SessionInv
<1>1. pc' \in [Handlers -> Labels] /\ pc'[h] = to /\ \A o \in Handlers \ {h} : pc'[o] = pc[o]
  BY Moved DEF Moves
<1>2. TypeOK'
  BY <1>1 DEF TypeOK, Moves, ChannelsOK
<1>3. HandlersOK'
  <2>1. ASSUME NEW o \in Handlers, pc'[o] \in NamedLabels PROVE plugin'[o] \in Plugins
    BY <1>1, <2>1 DEF HandlersOK, Moves
  <2>2. ASSUME NEW o \in Handlers, NEW g \in Goroutines, pc'[o] \in EarlyLabels PROVE gor'[o][g] = "none"
    BY <1>1, <2>2 DEF HandlersOK
  <2>3. ASSUME NEW o \in Handlers, NEW g \in Goroutines, gor'[o][g] # "none" PROVE plugin'[o] \in Plugins
    BY <2>3 DEF HandlersOK, Moves
  <2>4. QED
    BY <2>1, <2>2, <2>3 DEF HandlersOK
<1>4. LeasesOK'
  <2>1. \A o \in Handlers : (pc'[o] # "idle" <=> pc[o] # "idle") /\ HoldsLease(o)' = HoldsLease(o)
    BY <1>1 DEF Moves, HoldsLease
  <2>2. QED
    BY <2>1 DEF LeasesOK, Moves
<1>5. BytesConserved'
  BY DEF BytesConserved, Moves
<1>6. QED
  BY <1>2, <1>3, <1>4, <1>5 DEF Moves

\* The steps that no counter sees.
LEMMA PlainMoveKeeps ==
  ASSUME SessionAssumption, SessionInv, NEW h \in Handlers, NEW to \in Labels, Moves(h, to),
         UNCHANGED <<gor, statVars>>, to \in EarlyLabels => pc[h] \in EarlyLabels,
         pc[h] \in PluginLabels => plugin'[h] = plugin[h],
         pc[h] \in TableLabels <=> to \in TableLabels,
         pc[h] \in ActiveLabels <=> to \in ActiveLabels,
         pc[h] \in PluginLabels <=> to \in PluginLabels,
         pc[h] # "startPlugin", to # "startPlugin"
  PROVE  SessionInv'
<1>1. CountersOK'
  BY CountersUnmoved DEF Moves
<1>2. /\ sessions' \subseteq Handlers /\ active' \in Nat /\ total' \in Nat
      /\ pluginActive' \in [Plugins -> Nat] /\ pluginTotal' \in [Plugins -> Nat]
  BY DEF SessionInv, TypeOK, statVars
<1>3. QED
  BY <1>1, <1>2, MoveKeeps

\* From the resolution to the upgrade, and from the first error to the second.
LEMMA PlainSteps ==
  ASSUME SessionAssumption, SessionInv, NEW h \in Handlers,
         \/ \E p \in Plugins : Resolve(h, p)
         \/ Abandon(h) \/ Upgrade(h) \/ DialFail(h) \/ FirstError(h) \/ CloseConns(h) \/ SecondError(h)
  PROVE  SessionInv'
<1> USE DEF Labels, TableLabels, ActiveLabels, PluginLabels, NamedLabels, EarlyLabels, At
<1>1. /\ plugin \in [Handlers -> Plugins \cup {NoPlugin}] /\ received \in [Handlers -> SUBSET Goroutines]
      /\ connOpen \in [Handlers -> BOOLEAN] /\ done \in [Handlers -> BOOLEAN]
      /\ errCh \in [Handlers -> Seq(Goroutines)]
      /\ pc[h] \in NamedLabels => plugin[h] \in Plugins
  BY DEF SessionInv, TypeOK, ChannelsOK, HandlersOK
<1>2. ASSUME NEW p \in Plugins, Resolve(h, p) PROVE SessionInv'
  <2>1. Moves(h, "upgrade")
    BY <1>1, <1>2 DEF Moves, Resolve, ChannelsOK, byteVars, pumpVars
  <2>2. QED
    BY <1>2, <2>1, PlainMoveKeeps DEF Resolve, pumpVars
<1>3. CASE Abandon(h)
  <2>1. Moves(h, "release")
    BY <1>1, <1>3 DEF Moves, Abandon, ChannelsOK, byteVars, pumpVars
  <2>2. QED
    BY <1>3, <2>1, PlainMoveKeeps DEF Abandon, pumpVars
<1>4. CASE Upgrade(h)
  <2>1. Moves(h, "startGlobal")
    BY <1>1, <1>4 DEF Moves, Upgrade, ChannelsOK, byteVars, pumpVars
  <2>2. QED
    BY <1>4, <2>1, PlainMoveKeeps DEF Upgrade
<1>5. CASE DialFail(h)
  <2>1. Moves(h, "endSession")
    BY <1>1, <1>5 DEF Moves, DialFail, ChannelsOK, byteVars, pumpVars
  <2>2. QED
    BY <1>5, <2>1, PlainMoveKeeps DEF DialFail, pumpVars
<1>6. ASSUME Receive(h)
      PROVE  received' \in [Handlers -> SUBSET Goroutines] /\ ChannelsOK'
  <2>1. errCh[h] \in Seq(Goroutines) /\ errCh[h] # << >>
    BY <1>1, <1>6 DEF Receive
  <2>2. Head(errCh[h]) \in Goroutines /\ Tail(errCh[h]) \in Seq(Goroutines)
    BY <2>1, HeadTailProperties
  <2>3. QED
    BY <1>1, <1>6, <2>2 DEF Receive, ChannelsOK
<1>7. CASE FirstError(h)
  <2>1. Moves(h, "close")
    BY <1>1, <1>6, <1>7 DEF Moves, FirstError, byteVars
  <2>2. QED
    BY <1>7, <2>1, PlainMoveKeeps DEF FirstError
<1>8. CASE CloseConns(h)
  <2>1. Moves(h, "drain")
    BY <1>1, <1>8 DEF Moves, CloseConns, ChannelsOK, byteVars
  <2>2. QED
    BY <1>8, <2>1, PlainMoveKeeps DEF CloseConns
<1>9. CASE SecondError(h)
  <2>1. Moves(h, "endSession")
    BY <1>1, <1>6, <1>9 DEF Moves, SecondError, byteVars
  <2>2. QED
    BY <1>9, <2>1, PlainMoveKeeps DEF SecondError
<1>10. QED
  BY <1>2, <1>3, <1>4, <1>5, <1>7, <1>8, <1>9

\* Who is counted where while a session starts and ends.
LEMMA StatLabels ==
  /\ "startGlobal" \in Labels /\ "startGlobal" \notin TableLabels
  /\ In("startGlobal", ActiveLabels) = 0 /\ In("startGlobal", PluginLabels) = 0 /\ In("startGlobal", {"startPlugin"}) = 0
  /\ "startPlugin" \in Labels /\ "startPlugin" \notin TableLabels
  /\ In("startPlugin", ActiveLabels) = 1 /\ In("startPlugin", PluginLabels) = 0 /\ In("startPlugin", {"startPlugin"}) = 1
  /\ "startSession" \in Labels /\ "startSession" \notin TableLabels
  /\ In("startSession", ActiveLabels) = 1 /\ In("startSession", PluginLabels) = 1 /\ In("startSession", {"startPlugin"}) = 0
  /\ "dial" \in Labels /\ "dial" \in TableLabels
  /\ In("dial", ActiveLabels) = 1 /\ In("dial", PluginLabels) = 1 /\ In("dial", {"startPlugin"}) = 0
  /\ "endSession" \in Labels /\ "endSession" \in TableLabels
  /\ In("endSession", ActiveLabels) = 1 /\ In("endSession", PluginLabels) = 1 /\ In("endSession", {"startPlugin"}) = 0
  /\ "endGlobal" \in Labels /\ "endGlobal" \notin TableLabels
  /\ In("endGlobal", ActiveLabels) = 1 /\ In("endGlobal", PluginLabels) = 1 /\ In("endGlobal", {"startPlugin"}) = 0
  /\ "endPlugin" \in Labels /\ "endPlugin" \notin TableLabels
  /\ In("endPlugin", ActiveLabels) = 0 /\ In("endPlugin", PluginLabels) = 1 /\ In("endPlugin", {"startPlugin"}) = 0
  /\ "release" \in Labels /\ "release" \notin TableLabels
  /\ In("release", ActiveLabels) = 0 /\ In("release", PluginLabels) = 0 /\ In("release", {"startPlugin"}) = 0
  /\ {"startGlobal", "startPlugin", "startSession", "dial", "endSession", "endGlobal", "endPlugin"} \subseteq NamedLabels
  /\ {"startGlobal", "startPlugin", "startSession", "dial"} \subseteq EarlyLabels
  /\ {"endSession", "endGlobal", "endPlugin", "release"} \cap EarlyLabels = {}
  /\ "release" \notin NamedLabels
BY DEF Labels, TableLabels, ActiveLabels, PluginLabels, NamedLabels, EarlyLabels, In

\* A plugin's counter that changes changes the sum of them by as much.
LEMMA SumMoves ==
  ASSUME SessionAssumption, NEW f \in [Plugins -> Nat], NEW g \in [Plugins -> Nat], NEW p,
         \A x \in Plugins \ {p} : g[x] = f[x]
  PROVE  /\ SumOf(f) \in Nat /\ SumOf(g) \in Nat
         /\ p \in Plugins => SumOf(g) = SumOf(f) + g[p] - f[p]
         /\ p \notin Plugins => SumOf(g) = SumOf(f)
<1>1. IsFiniteSet(Plugins)
  BY DEF SessionAssumption
<1>2. CASE p \in Plugins
  <2>1. /\ SumFunction(g) = SumFunction(f) + g[p] - f[p]
        /\ SumFunction(f) \in Nat /\ SumFunction(g) \in Nat
    BY <1>1, <1>2, SumChange
  <2>2. QED
    BY <1>2, <2>1 DEF SumOf
<1>3. CASE p \notin Plugins
  <2>1. f = g
    BY <1>3
  <2>2. SumFunction(f) \in Nat
    BY <1>1, SumType DEF SumFunction
  <2>3. QED
    BY <1>3, <2>1, <2>2 DEF SumOf
<1>4. QED
  BY <1>2, <1>3

\* By how much the number of handlers at these labels changes with a move of h.
Entering(h, to, labels) == In(to, labels) - In(pc[h], labels)

\* A step of the statistics: the handler moves, and by what each counter changes
\* agrees with where it moves from and to.
LEMMA StatMoveKeeps ==
  ASSUME SessionAssumption, SessionInv, NEW h \in Handlers, NEW to \in Labels, Moves(h, to),
         UNCHANGED <<gor, plugin>>, to \in EarlyLabels => pc[h] \in EarlyLabels,
         sessions' = IF to \in TableLabels THEN sessions \cup {h} ELSE sessions \ {h},
         active' = active + Entering(h, to, ActiveLabels),
         total' = total + In(to, {"startPlugin"}),
         pluginActive' \in [Plugins -> Nat], pluginTotal' \in [Plugins -> Nat],
         pc[h] \in PluginLabels \/ to \in PluginLabels \/ pc[h] = "startPlugin" => plugin[h] \in Plugins,
         \A x \in Plugins : pluginActive'[x] = pluginActive[x]
             + (IF plugin[h] = x THEN Entering(h, to, PluginLabels) ELSE 0),
         \A x \in Plugins : pluginTotal'[x] = pluginTotal[x]
             + (IF plugin[h] = x THEN In(pc[h], {"startPlugin"}) ELSE 0)
  PROVE  SessionInv'
<1>1. TypeOK /\ Goto(h, to) /\ plugin' = plugin
  BY DEF SessionInv, Moves
<1>2. /\ pluginActive \in [Plugins -> Nat] /\ pluginTotal \in [Plugins -> Nat]
      /\ active \in Nat /\ total \in Nat /\ sessions \subseteq Handlers
  BY <1>1 DEF TypeOK
<1>3. \A x, labels : In(x, labels) \in Nat /\ (x \notin labels => In(x, labels) = 0)
  BY DEF In
<1>4. PICK p, q, t, f, g, u, v :
        /\ p = plugin[h] /\ q = Entering(h, to, PluginLabels) /\ t = In(pc[h], {"startPlugin"})
        /\ f = pluginActive /\ g = pluginActive' /\ u = pluginTotal /\ v = pluginTotal'
  OBVIOUS
<1>5. q \in Int /\ t \in Nat /\ (q # 0 => p \in Plugins) /\ (t # 0 => p \in Plugins)
  BY <1>3, <1>4 DEF Entering
<1>6. SumOf(pluginActive)' = SumOf(pluginActive) + q /\ SumOf(pluginActive) \in Nat
  <2>1. /\ f \in [Plugins -> Nat] /\ g \in [Plugins -> Nat]
        /\ \A x \in Plugins : g[x] = f[x] + (IF p = x THEN q ELSE 0)
    BY <1>2, <1>4
  <2>2. /\ \A x \in Plugins \ {p} : g[x] = f[x]
        /\ p \in Plugins => g[p] = f[p] + q /\ f[p] \in Nat
    BY <2>1
  <2>3. /\ SumOf(f) \in Nat /\ SumOf(g) \in Nat
        /\ p \in Plugins => SumOf(g) = SumOf(f) + g[p] - f[p]
        /\ p \notin Plugins => SumOf(g) = SumOf(f)
    BY <2>1, <2>2, SumMoves
  <2>4. SumOf(g) = SumOf(f) + q
    BY <1>5, <2>2, <2>3
  <2>5. QED
    BY <1>4, <2>3, <2>4 DEF SumOf
<1>7. SumOf(pluginTotal)' = SumOf(pluginTotal) + t /\ SumOf(pluginTotal) \in Nat /\ SumOf(pluginTotal)' \in Nat
  <2>1. /\ u \in [Plugins -> Nat] /\ v \in [Plugins -> Nat]
        /\ \A x \in Plugins : v[x] = u[x] + (IF p = x THEN t ELSE 0)
    BY <1>2, <1>4
  <2>2. /\ \A x \in Plugins \ {p} : v[x] = u[x]
        /\ p \in Plugins => v[p] = u[p] + t /\ u[p] \in Nat
    BY <2>1
  <2>3. /\ SumOf(u) \in Nat /\ SumOf(v) \in Nat
        /\ p \in Plugins => SumOf(v) = SumOf(u) + v[p] - u[p]
        /\ p \notin Plugins => SumOf(v) = SumOf(u)
    BY <2>1, <2>2, SumMoves
  <2>4. SumOf(v) = SumOf(u) + t
    BY <1>5, <2>2, <2>3
  <2>5. QED
    BY <1>4, <2>3, <2>4 DEF SumOf
<1>8. sessions' = Among(TableLabels)'
  <2>1. sessions = Among(TableLabels)
    BY DEF SessionInv, CountersOK
  <2>2. Among(TableLabels)' = IF to \in TableLabels THEN Among(TableLabels) \cup {h} ELSE Among(TableLabels) \ {h}
    BY <1>1, Moved
  <2>3. QED
    BY <2>1, <2>2
<1>9. /\ active' = active + In(to, ActiveLabels) - In(pc[h], ActiveLabels)
      /\ SumOf(pluginActive)' = SumOf(pluginActive) + In(to, PluginLabels) - In(pc[h], PluginLabels)
      /\ total' - SumOf(pluginTotal)' = total - SumOf(pluginTotal) + In(to, {"startPlugin"}) - In(pc[h], {"startPlugin"})
      /\ total' \in Nat
  <2> DEFINE sum == SumOf(pluginTotal)  fromS == In(pc[h], {"startPlugin"})  toS == In(to, {"startPlugin"})
             fromA == In(pc[h], ActiveLabels)  toA == In(to, ActiveLabels)
             fromP == In(pc[h], PluginLabels)  toP == In(to, PluginLabels)  suma == SumOf(pluginActive)
  <2>1. /\ fromS \in Nat /\ toS \in Nat /\ fromA \in Nat /\ toA \in Nat /\ fromP \in Nat /\ toP \in Nat
        /\ sum \in Nat /\ suma \in Nat /\ active \in Nat /\ total \in Nat
    BY <1>2, <1>3, <1>6, <1>7
  <2>2. /\ active' = active + (toA - fromA) /\ SumOf(pluginActive)' = suma + (toP - fromP)
        /\ SumOf(pluginTotal)' = sum + fromS /\ total' = total + toS
    BY <1>4, <1>6, <1>7 DEF Entering
  <2> HIDE DEF sum, fromS, toS, fromA, toA, fromP, toP, suma
  <2>3. /\ active' = active + toA - fromA /\ SumOf(pluginActive)' = suma + toP - fromP
        /\ total' - SumOf(pluginTotal)' = total - sum + toS - fromS /\ total' \in Nat
    BY <2>1, <2>2
  <2>4. QED
    BY <2>3 DEF sum, fromS, toS, fromA, toA, fromP, toP, suma
<1>10. \A x \in Plugins : pluginActive'[x] = pluginActive[x]
         + (IF plugin'[h] = x THEN In(to, PluginLabels) - In(pc[h], PluginLabels) ELSE 0)
  BY <1>1 DEF Entering
<1>11. CountersOK' /\ active' \in Nat
  <2>1. \A o \in Handlers \ {h} : plugin'[o] = plugin[o]
    BY <1>1
  <2>2. pc[h] \in PluginLabels \/ to \in PluginLabels => plugin'[h] = plugin[h]
    BY <1>1
  <2>3. QED
    BY <1>1, <1>2, <1>6, <1>7, <1>8, <1>9, <1>10, <2>1, <2>2, CountersFollow
<1>12. sessions' \subseteq Handlers /\ UNCHANGED gor
  BY <1>2
<1>13. QED
  BY <1>9, <1>11, <1>12, MoveKeeps

\* StartSession and EndSession: three updates each, one counter after another.
LEMMA StatSteps ==
  ASSUME SessionAssumption, SessionInv, NEW h \in Handlers,
         \/ StartGlobal(h) \/ StartPlugin(h) \/ StartSession(h)
         \/ EndSession(h) \/ EndGlobal(h) \/ EndPlugin(h)
  PROVE  SessionInv'
<1>1. /\ plugin \in [Handlers -> Plugins \cup {NoPlugin}] /\ received \in [Handlers -> SUBSET Goroutines]
      /\ connOpen \in [Handlers -> BOOLEAN] /\ done \in [Handlers -> BOOLEAN]
      /\ errCh \in [Handlers -> Seq(Goroutines)]
      /\ pc[h] \in NamedLabels => plugin[h] \in Plugins
      /\ pluginActive \in [Plugins -> Nat] /\ pluginTotal \in [Plugins -> Nat]
      /\ active \in Nat /\ total \in Nat /\ sessions \subseteq Handlers
      /\ h \in sessions <=> pc[h] \in TableLabels
  BY DEF SessionInv, TypeOK, ChannelsOK, HandlersOK, CountersOK, Among, SessionAssumption
<1>2. ASSUME UNCHANGED pluginActive
      PROVE  \A x \in Plugins : pluginActive'[x] = pluginActive[x] + (IF plugin[h] = x THEN 0 ELSE 0)
  BY <1>1, <1>2
<1>3. ASSUME UNCHANGED pluginTotal
      PROVE  \A x \in Plugins : pluginTotal'[x] = pluginTotal[x] + (IF plugin[h] = x THEN 0 ELSE 0)
  BY <1>1, <1>3
<1>4. CASE StartGlobal(h)
  <2>1. Moves(h, "startPlugin") /\ UNCHANGED <<gor, plugin>> /\ pc[h] = "startGlobal"
    BY <1>1, <1>4, StatLabels DEF At, Moves, StartGlobal, ChannelsOK, byteVars, pumpVars
  <2>2. /\ Entering(h, "startPlugin", ActiveLabels) = 1 /\ Entering(h, "startPlugin", PluginLabels) = 0
        /\ In("startPlugin", {"startPlugin"}) = 1 /\ In(pc[h], {"startPlugin"}) = 0
        /\ "startPlugin" \in Labels /\ pc[h] \in EarlyLabels /\ plugin[h] \in Plugins
    BY <1>1, <2>1, StatLabels DEF Entering
  <2>3. sessions' = IF "startPlugin" \in TableLabels THEN sessions \cup {h} ELSE sessions \ {h}
    BY <1>1, <1>4, <2>1, StatLabels DEF StartGlobal
  <2>4. active' = active + 1 /\ total' = total + 1 /\ UNCHANGED <<pluginActive, pluginTotal>>
    BY <1>1, <1>4 DEF StartGlobal
  <2>5. /\ active' = active + Entering(h, "startPlugin", ActiveLabels)
        /\ total' = total + In("startPlugin", {"startPlugin"})
        /\ pluginActive' \in [Plugins -> Nat] /\ pluginTotal' \in [Plugins -> Nat]
        /\ \A x \in Plugins : pluginActive'[x] = pluginActive[x]
             + (IF plugin[h] = x THEN Entering(h, "startPlugin", PluginLabels) ELSE 0)
        /\ \A x \in Plugins : pluginTotal'[x] = pluginTotal[x]
             + (IF plugin[h] = x THEN In(pc[h], {"startPlugin"}) ELSE 0)
    BY <1>1, <1>2, <1>3, <2>2, <2>4
  <2>6. QED
    BY <2>1, <2>2, <2>3, <2>5, StatMoveKeeps
<1>5. CASE StartPlugin(h)
  <2>1. Moves(h, "startSession") /\ UNCHANGED <<gor, plugin>> /\ pc[h] = "startPlugin"
    BY <1>1, <1>5, StatLabels DEF At, Moves, StartPlugin, ChannelsOK, byteVars, pumpVars
  <2>2. /\ Entering(h, "startSession", ActiveLabels) = 0 /\ Entering(h, "startSession", PluginLabels) = 1
        /\ In("startSession", {"startPlugin"}) = 0 /\ In(pc[h], {"startPlugin"}) = 1
        /\ "startSession" \in Labels /\ pc[h] \in EarlyLabels /\ plugin[h] \in Plugins
    BY <1>1, <2>1, StatLabels DEF Entering
  <2>3. sessions' = IF "startSession" \in TableLabels THEN sessions \cup {h} ELSE sessions \ {h}
    BY <1>1, <1>5, <2>1, StatLabels DEF StartPlugin
  <2>4. active' = active + 0 /\ total' = total + 0
    BY <1>1, <1>5 DEF StartPlugin
  <2>5. plugin[h] \in Plugins
    BY <1>1, <2>1, StatLabels
  <2>6. /\ pluginActive' \in [Plugins -> Nat] /\ pluginTotal' \in [Plugins -> Nat]
        /\ \A x \in Plugins : pluginActive'[x] = pluginActive[x] + (IF plugin[h] = x THEN 1 ELSE 0)
        /\ \A x \in Plugins : pluginTotal'[x] = pluginTotal[x] + (IF plugin[h] = x THEN 1 ELSE 0)
    BY <1>1, <1>5, <2>5 DEF StartPlugin
  <2>7. /\ active' = active + Entering(h, "startSession", ActiveLabels)
        /\ total' = total + In("startSession", {"startPlugin"})
        /\ pluginActive' \in [Plugins -> Nat] /\ pluginTotal' \in [Plugins -> Nat]
        /\ \A x \in Plugins : pluginActive'[x] = pluginActive[x]
             + (IF plugin[h] = x THEN Entering(h, "startSession", PluginLabels) ELSE 0)
        /\ \A x \in Plugins : pluginTotal'[x] = pluginTotal[x]
             + (IF plugin[h] = x THEN In(pc[h], {"startPlugin"}) ELSE 0)
    BY <2>2, <2>4, <2>6
  <2>8. QED
    BY <2>1, <2>2, <2>3, <2>7, StatMoveKeeps
<1>6. CASE StartSession(h)
  <2>1. Moves(h, "dial") /\ UNCHANGED <<gor, plugin>> /\ pc[h] = "startSession"
    BY <1>1, <1>6, StatLabels DEF At, Moves, StartSession, ChannelsOK, byteVars, pumpVars
  <2>2. /\ Entering(h, "dial", ActiveLabels) = 0 /\ Entering(h, "dial", PluginLabels) = 0
        /\ In("dial", {"startPlugin"}) = 0 /\ In(pc[h], {"startPlugin"}) = 0
        /\ "dial" \in Labels /\ pc[h] \in EarlyLabels /\ plugin[h] \in Plugins
    BY <1>1, <2>1, StatLabels DEF Entering
  <2>3. sessions' = IF "dial" \in TableLabels THEN sessions \cup {h} ELSE sessions \ {h}
    BY <1>6, StatLabels DEF StartSession
  <2>4. active' = active + 0 /\ total' = total + 0 /\ UNCHANGED <<pluginActive, pluginTotal>>
    BY <1>1, <1>6 DEF StartSession
  <2>5. /\ active' = active + Entering(h, "dial", ActiveLabels)
        /\ total' = total + In("dial", {"startPlugin"})
        /\ pluginActive' \in [Plugins -> Nat] /\ pluginTotal' \in [Plugins -> Nat]
        /\ \A x \in Plugins : pluginActive'[x] = pluginActive[x]
             + (IF plugin[h] = x THEN Entering(h, "dial", PluginLabels) ELSE 0)
        /\ \A x \in Plugins : pluginTotal'[x] = pluginTotal[x]
             + (IF plugin[h] = x THEN In(pc[h], {"startPlugin"}) ELSE 0)
    BY <1>1, <1>2, <1>3, <2>2, <2>4
  <2>6. QED
    BY <2>1, <2>2, <2>3, <2>5, StatMoveKeeps
<1>7. CASE EndSession(h)
  <2>1. Moves(h, "endGlobal") /\ UNCHANGED <<gor, plugin>> /\ pc[h] = "endSession"
    BY <1>1, <1>7, StatLabels DEF At, Moves, EndSession, ChannelsOK, byteVars, pumpVars
  <2>2. /\ Entering(h, "endGlobal", ActiveLabels) = 0 /\ Entering(h, "endGlobal", PluginLabels) = 0
        /\ In("endGlobal", {"startPlugin"}) = 0 /\ In(pc[h], {"startPlugin"}) = 0
        /\ "endGlobal" \in Labels /\ "endGlobal" \notin EarlyLabels /\ plugin[h] \in Plugins
    BY <1>1, <2>1, StatLabels DEF Entering
  <2>3. sessions' = IF "endGlobal" \in TableLabels THEN sessions \cup {h} ELSE sessions \ {h}
    BY <1>7, StatLabels DEF EndSession
  <2>4. active' = active + 0 /\ total' = total + 0 /\ UNCHANGED <<pluginActive, pluginTotal>>
    BY <1>1, <1>7 DEF EndSession
  <2>5. /\ active' = active + Entering(h, "endGlobal", ActiveLabels)
        /\ total' = total + In("endGlobal", {"startPlugin"})
        /\ pluginActive' \in [Plugins -> Nat] /\ pluginTotal' \in [Plugins -> Nat]
        /\ \A x \in Plugins : pluginActive'[x] = pluginActive[x]
             + (IF plugin[h] = x THEN Entering(h, "endGlobal", PluginLabels) ELSE 0)
        /\ \A x \in Plugins : pluginTotal'[x] = pluginTotal[x]
             + (IF plugin[h] = x THEN In(pc[h], {"startPlugin"}) ELSE 0)
    BY <1>1, <1>2, <1>3, <2>2, <2>4
  <2>6. QED
    BY <2>1, <2>2, <2>3, <2>5, StatMoveKeeps
<1>8. CASE EndGlobal(h)
  <2>1. Moves(h, "endPlugin") /\ UNCHANGED <<gor, plugin>> /\ pc[h] = "endGlobal"
    BY <1>1, <1>8, StatLabels DEF At, Moves, EndGlobal, ChannelsOK, byteVars, pumpVars
  <2>2. /\ Entering(h, "endPlugin", ActiveLabels) = -1 /\ Entering(h, "endPlugin", PluginLabels) = 0
        /\ In("endPlugin", {"startPlugin"}) = 0 /\ In(pc[h], {"startPlugin"}) = 0
        /\ "endPlugin" \in Labels /\ "endPlugin" \notin EarlyLabels /\ plugin[h] \in Plugins
    BY <1>1, <2>1, StatLabels DEF Entering
  <2>3. sessions' = IF "endPlugin" \in TableLabels THEN sessions \cup {h} ELSE sessions \ {h}
    BY <1>1, <1>8, <2>1, StatLabels DEF EndGlobal
  <2>4. active' = active + (-1) /\ total' = total + 0 /\ UNCHANGED <<pluginActive, pluginTotal>>
    BY <1>1, <1>8 DEF EndGlobal
  <2>5. /\ active' = active + Entering(h, "endPlugin", ActiveLabels)
        /\ total' = total + In("endPlugin", {"startPlugin"})
        /\ pluginActive' \in [Plugins -> Nat] /\ pluginTotal' \in [Plugins -> Nat]
        /\ \A x \in Plugins : pluginActive'[x] = pluginActive[x]
             + (IF plugin[h] = x THEN Entering(h, "endPlugin", PluginLabels) ELSE 0)
        /\ \A x \in Plugins : pluginTotal'[x] = pluginTotal[x]
             + (IF plugin[h] = x THEN In(pc[h], {"startPlugin"}) ELSE 0)
    BY <1>1, <1>2, <1>3, <2>2, <2>4
  <2>6. QED
    BY <2>1, <2>2, <2>3, <2>5, StatMoveKeeps
<1>9. CASE EndPlugin(h)
  <2>1. Moves(h, "release") /\ UNCHANGED <<gor, plugin>> /\ pc[h] = "endPlugin"
    BY <1>1, <1>9, StatLabels DEF At, Moves, EndPlugin, ChannelsOK, byteVars, pumpVars
  <2>2. /\ Entering(h, "release", ActiveLabels) = 0 /\ Entering(h, "release", PluginLabels) = -1
        /\ In("release", {"startPlugin"}) = 0 /\ In(pc[h], {"startPlugin"}) = 0
        /\ "release" \in Labels /\ "release" \notin EarlyLabels /\ plugin[h] \in Plugins
    BY <1>1, <2>1, StatLabels DEF Entering
  <2>3. sessions' = IF "release" \in TableLabels THEN sessions \cup {h} ELSE sessions \ {h}
    BY <1>1, <1>9, <2>1, StatLabels DEF EndPlugin
  <2>4. active' = active + 0 /\ total' = total + 0 /\ UNCHANGED pluginTotal
    BY <1>1, <1>9 DEF EndPlugin
  <2>5. plugin[h] \in Plugins /\ pluginActive[plugin[h]] > 0
    <3>1. plugin[h] \in Plugins
      BY <1>1, <2>1, StatLabels
    <3>2. PICK p \in Plugins : p = plugin[h]
      BY <3>1
    <3>3. pluginActive[p] = Cardinality(Serving(p))
      BY DEF SessionInv, CountersOK
    <3>4. pc[h] \in PluginLabels /\ plugin[h] = p
      BY <2>1, <3>2 DEF PluginLabels
    <3>5. /\ TypeOK /\ Goto(h, "release") /\ "release" \in Labels
          /\ \A o \in Handlers \ {h} : plugin'[o] = plugin[o]
          /\ plugin'[h] = plugin[h]
      BY <2>1, <2>2 DEF SessionInv, Moves
    <3>6. Cardinality(Serving(p)) > 0
      BY <3>4, <3>5, ServingMoved
    <3>7. QED
      BY <3>2, <3>3, <3>6
  <2>6. /\ pluginActive' \in [Plugins -> Nat]
        /\ \A x \in Plugins : pluginActive'[x] = pluginActive[x] + (IF plugin[h] = x THEN -1 ELSE 0)
    BY <1>1, <1>9, <2>5 DEF EndPlugin
  <2>7. pluginTotal' \in [Plugins -> Nat]
    BY <1>1, <2>4
  <2>8. /\ active' = active + Entering(h, "release", ActiveLabels)
        /\ total' = total + In("release", {"startPlugin"})
        /\ pluginActive' \in [Plugins -> Nat] /\ pluginTotal' \in [Plugins -> Nat]
        /\ \A x \in Plugins : pluginActive'[x] = pluginActive[x]
             + (IF plugin[h] = x THEN Entering(h, "release", PluginLabels) ELSE 0)
        /\ \A x \in Plugins : pluginTotal'[x] = pluginTotal[x]
             + (IF plugin[h] = x THEN In(pc[h], {"startPlugin"}) ELSE 0)
    BY <1>3, <2>2, <2>4, <2>6, <2>7
  <2>9. QED
    BY <2>1, <2>2, <2>3, <2>8, StatMoveKeeps
<1>10. QED
  BY <1>4, <1>5, <1>6, <1>7, <1>8, <1>9

-----------------------------------------------------------------------------
(* The goroutines' steps. *)

\* What a goroutine's step leaves true, when the bytes still add up.
LEMMA GoroutineKeeps ==
  ASSUME SessionAssumption, SessionInv, NEW h \in Handlers, NEW g \in Goroutines,
         NEW label \in {"run", "lookup", "global", "plugin", "send", "done"}, Step(h, g, label),
         gor[h][g] # "none", UNCHANGED <<leases, pc, plugin, statVars, connOpen, done, received>>,
         ChannelsOK', found' \in [Handlers -> [Copiers -> BOOLEAN]],
         bytes' \in Nat, late' \in Nat, pluginBytes' \in [Plugins -> Nat],
         BytesConserved'
  PROVE  SessionInv'
<1> USE DEF SessionInv
<1>1. /\ gor' \in [Handlers -> [Goroutines -> {"none", "run", "lookup", "global", "plugin", "send", "done"}]]
      /\ gor'[h][g] = label
      /\ \A o \in Handlers, k \in Goroutines : o # h \/ k # g => gor'[o][k] = gor[o][k]
  BY CopierMoves
<1>2. TypeOK'
  BY <1>1 DEF TypeOK, statVars, ChannelsOK
<1>3. HandlersOK'
  <2>1. ASSUME NEW o \in Handlers, NEW k \in Goroutines
        PROVE  gor'[o][k] # "none" <=> gor[o][k] # "none"
    BY <1>1
  <2>2. QED
    BY <2>1 DEF HandlersOK
<1>4. LeasesOK'
  BY DEF LeasesOK, HoldsLease
<1>5. CountersOK'
  BY DEF CountersOK, statVars, Among, Serving, Counted, SumOf
<1>6. QED
  BY <1>2, <1>3, <1>4, <1>5

\* The goroutines' steps that count no byte.
LEMMA UncountedSteps ==
  ASSUME SessionAssumption, SessionInv, NEW h \in Handlers,
         \/ \E g \in Copiers : Transfer(h, g) \/ CountSession(h, g) \/ Fail(h, g) \/ Send(h, g)
         \/ PingFail(h) \/ PingStop(h)
  PROVE  SessionInv'
<1>1. /\ bytes \in Nat /\ late \in Nat /\ pluginBytes \in [Plugins -> Nat]
      /\ found \in [Handlers -> [Copiers -> BOOLEAN]] /\ errCh \in [Handlers -> Seq(Goroutines)]
      /\ Copiers \subseteq Goroutines /\ "ping" \in Goroutines /\ "ping" \notin Copiers
      /\ BytesConserved
  BY DEF SessionInv, TypeOK, ChannelsOK, Goroutines, Copiers
<1>2. ASSUME NEW g \in Goroutines, NEW label \in {"run", "lookup", "global", "plugin", "send", "done"},
             Step(h, g, label), g \in Copiers => label # "plugin" /\ gor[h][g] # "plugin",
             UNCHANGED byteVars
      PROVE  BytesConserved'
  <2>1. Cardinality(Attributing') = Cardinality(Attributing) /\ Cardinality(Attributing) \in Nat
    <3>1. CASE g \in Copiers
      <4>1. In(label, {"plugin"}) = 0 /\ In(gor[h][g], {"plugin"}) = 0
        BY <1>2, <3>1 DEF In
      <4>2. QED
        BY <1>2, <3>1, <4>1, CopierMoves DEF SessionInv
    <3>2. CASE g \notin Copiers
      BY <1>2, <3>2, CopierMoves DEF SessionInv
    <3>3. QED
      BY <3>1, <3>2
  <2>2. BytesSay'
    BY <1>1, <1>2, <2>1, BytesMean DEF BytesSay, byteVars, SumOf
  <2>3. QED
    BY <2>2 DEF BytesSay, BytesConserved, Attributing
<1>3. ASSUME NEW g \in Goroutines, errCh' = [errCh EXCEPT ![h] = Append(@, g)]
      PROVE  ChannelsOK'
  <2>1. Append(errCh[h], g) \in Seq(Goroutines)
    BY <1>1, <1>3, AppendProperties
  <2>2. QED
    BY <1>1, <1>3, <2>1 DEF ChannelsOK
<1>4. ASSUME UNCHANGED errCh
      PROVE  ChannelsOK'
  BY <1>1, <1>4 DEF ChannelsOK
<1>5. ASSUME NEW g \in Copiers, Transfer(h, g) PROVE SessionInv'
  <2>1. Step(h, g, "lookup") /\ gor[h][g] = "run" /\ UNCHANGED byteVars
    BY <1>5 DEF Transfer
  <2>2. BytesConserved' /\ ChannelsOK'
    BY <1>1, <1>2, <1>4, <1>5, <2>1 DEF Transfer
  <2>3. QED
    BY <1>1, <1>5, <2>1, <2>2, GoroutineKeeps DEF Transfer, byteVars
<1>6. ASSUME NEW g \in Copiers, CountSession(h, g) PROVE SessionInv'
  <2>1. Step(h, g, "global") /\ gor[h][g] = "lookup" /\ UNCHANGED byteVars
    BY <1>6 DEF CountSession
  <2>2. BytesConserved' /\ ChannelsOK'
    BY <1>1, <1>2, <1>4, <1>6, <2>1 DEF CountSession
  <2>3. found' \in [Handlers -> [Copiers -> BOOLEAN]]
    <3>1. (h \in sessions) \in BOOLEAN
      OBVIOUS
    <3>2. QED
      BY <1>1, <1>6, <3>1 DEF CountSession
  <2>4. QED
    BY <1>1, <1>6, <2>1, <2>2, <2>3, GoroutineKeeps DEF CountSession, byteVars
<1>7. ASSUME NEW g \in Copiers, Fail(h, g) PROVE SessionInv'
  <2>1. Step(h, g, "send") /\ gor[h][g] = "run" /\ UNCHANGED byteVars
    BY <1>7 DEF Fail
  <2>2. BytesConserved' /\ ChannelsOK'
    BY <1>1, <1>2, <1>4, <1>7, <2>1 DEF Fail
  <2>3. QED
    BY <1>1, <1>7, <2>1, <2>2, GoroutineKeeps DEF Fail, byteVars
<1>8. ASSUME NEW g \in Copiers, Send(h, g) PROVE SessionInv'
  <2>1. Step(h, g, "done") /\ gor[h][g] = "send" /\ UNCHANGED byteVars
    BY <1>8 DEF Send
  <2>2. BytesConserved' /\ ChannelsOK'
    BY <1>1, <1>2, <1>3, <1>8, <2>1 DEF Send
  <2>3. QED
    BY <1>1, <1>8, <2>1, <2>2, GoroutineKeeps DEF Send, byteVars
<1>9. CASE PingFail(h)
  <2>1. Step(h, "ping", "done") /\ gor[h]["ping"] = "run" /\ UNCHANGED byteVars
    BY <1>9 DEF PingFail
  <2>2. BytesConserved'
    BY <1>1, <1>2, <2>1
  <2>3. ChannelsOK'
    <3>1. CASE Len(errCh[h]) < ErrChCap
      BY <1>1, <1>3, <1>9, <3>1 DEF PingFail
    <3>2. CASE ~ (Len(errCh[h]) < ErrChCap)
      BY <1>1, <1>9, <3>2 DEF PingFail, ChannelsOK
    <3>3. QED
      BY <3>1, <3>2
  <2>4. QED
    BY <1>1, <1>9, <2>1, <2>2, <2>3, GoroutineKeeps DEF PingFail, byteVars
<1>10. CASE PingStop(h)
  <2>1. Step(h, "ping", "done") /\ gor[h]["ping"] = "run" /\ UNCHANGED byteVars
    BY <1>10 DEF PingStop
  <2>2. BytesConserved' /\ ChannelsOK'
    BY <1>1, <1>2, <1>4, <1>10, <2>1 DEF PingStop
  <2>3. QED
    BY <1>1, <1>10, <2>1, <2>2, GoroutineKeeps DEF PingStop, byteVars
<1>11. QED
  BY <1>5, <1>6, <1>7, <1>8, <1>9, <1>10

\* A byte counted globally is counted as late, or is about to be counted for the
\* plugin; there it is counted once.
LEMMA CountingSteps ==
  ASSUME SessionAssumption, SessionInv, NEW h \in Handlers, NEW g \in Copiers,
         CountGlobal(h, g) \/ CountPlugin(h, g)
  PROVE  SessionInv'
<1>1. /\ bytes \in Nat /\ late \in Nat /\ pluginBytes \in [Plugins -> Nat]
      /\ found \in [Handlers -> [Copiers -> BOOLEAN]] /\ errCh \in [Handlers -> Seq(Goroutines)]
      /\ g \in Goroutines /\ BytesConserved /\ TypeOK
      /\ \A k \in Goroutines : gor[h][k] # "none" => plugin[h] \in Plugins
  BY DEF SessionInv, TypeOK, ChannelsOK, HandlersOK, Goroutines
<1>2. BytesSay /\ SumOf(pluginBytes) \in Nat
  <2>1. SumFunction(pluginBytes) \in Nat
    BY <1>1, SumType DEF SumFunction, SessionAssumption
  <2>2. QED
    BY <1>1, <2>1, BytesMean DEF SumOf
<1>3. ASSUME NEW label \in {"run", "lookup", "global", "plugin", "send", "done"}, Step(h, g, label)
      PROVE  /\ Cardinality(Attributing) \in Nat
             /\ Cardinality(Attributing') = Cardinality(Attributing) + In(label, {"plugin"}) - In(gor[h][g], {"plugin"})
  BY <1>1, <1>3, CopierMoves
<1>4. CASE CountGlobal(h, g)
  <2>1. In(gor[h][g], {"plugin"}) = 0 /\ In("plugin", {"plugin"}) = 1 /\ In("run", {"plugin"}) = 0
    BY <1>4 DEF CountGlobal, In
  <2>2. /\ bytes' = bytes + 1 /\ bytes' \in Nat /\ late' \in Nat
        /\ SumOf(pluginBytes)' = SumOf(pluginBytes) /\ ChannelsOK'
    BY <1>1, <1>4 DEF CountGlobal, SumOf, ChannelsOK
  <2>3. CASE found[h][g]
    <3>1. Step(h, g, "plugin") /\ late' = late
      BY <1>4, <2>3 DEF CountGlobal
    <3>2. BytesSay'
      <4>1. Cardinality(Attributing') = Cardinality(Attributing) + 1 /\ Cardinality(Attributing) \in Nat
        BY <1>3, <2>1, <3>1
      <4>2. QED
        BY <1>1, <1>2, <2>2, <3>1, <4>1 DEF BytesSay
    <3>3. BytesConserved'
      BY <3>2 DEF BytesSay, BytesConserved, Attributing
    <3>4. QED
      BY <1>1, <1>4, <2>2, <3>1, <3>3, GoroutineKeeps DEF CountGlobal
  <2>4. CASE ~found[h][g]
    <3>1. Step(h, g, "run") /\ late' = late + 1
      BY <1>4, <2>4 DEF CountGlobal
    <3>2. BytesSay'
      <4>1. Cardinality(Attributing') = Cardinality(Attributing) /\ Cardinality(Attributing) \in Nat
        BY <1>3, <2>1, <3>1
      <4>2. QED
        BY <1>1, <1>2, <2>2, <3>1, <4>1 DEF BytesSay
    <3>3. BytesConserved'
      BY <3>2 DEF BytesSay, BytesConserved, Attributing
    <3>4. QED
      BY <1>1, <1>4, <2>2, <3>1, <3>3, GoroutineKeeps DEF CountGlobal
  <2>5. QED
    BY <2>3, <2>4
<1>5. CASE CountPlugin(h, g)
  <2>1. /\ Step(h, g, "run") /\ gor[h][g] = "plugin" /\ UNCHANGED <<bytes, late>>
        /\ In(gor[h][g], {"plugin"}) = 1 /\ In("run", {"plugin"}) = 0
    BY <1>5 DEF CountPlugin, In
  <2>2. PICK p \in Plugins : p = plugin[h]
    BY <1>1, <2>1
  <2>3. /\ pluginBytes' \in [Plugins -> Nat] /\ pluginBytes'[p] = pluginBytes[p] + 1
        /\ \A x \in Plugins \ {p} : pluginBytes'[x] = pluginBytes[x]
    BY <1>1, <1>5, <2>2 DEF CountPlugin
  <2>4. SumOf(pluginBytes)' = SumOf(pluginBytes) + 1
    <3>1. PICK u, v : u = pluginBytes /\ v = pluginBytes'
      OBVIOUS
    <3>2. /\ u \in [Plugins -> Nat] /\ v \in [Plugins -> Nat] /\ v[p] = u[p] + 1 /\ u[p] \in Nat
          /\ \A x \in Plugins \ {p} : v[x] = u[x]
      BY <1>1, <2>3, <3>1
    <3>3. SumOf(v) = SumOf(u) + v[p] - u[p] /\ SumOf(u) \in Nat
      BY <3>2, SumMoves
    <3>4. SumOf(v) = SumOf(u) + 1
      BY <3>2, <3>3
    <3>5. QED
      BY <3>1, <3>4 DEF SumOf
  <2>5. BytesSay'
    <3>1. Cardinality(Attributing') = Cardinality(Attributing) - 1 /\ Cardinality(Attributing) \in Nat
      BY <1>3, <2>1
    <3>2. QED
      BY <1>1, <1>2, <2>1, <2>4, <3>1 DEF BytesSay
  <2>6. BytesConserved' /\ ChannelsOK'
    BY <1>1, <1>5, <2>5 DEF BytesSay, BytesConserved, Attributing, ChannelsOK, CountPlugin
  <2>7. QED
    BY <1>1, <1>5, <2>1, <2>3, <2>6, GoroutineKeeps DEF CountPlugin
<1>6. QED
  BY <1>4, <1>5

\* The pump starts: its goroutines are new.
LEMMA DialKeeps ==
  ASSUME SessionAssumption, SessionInv, NEW h \in Handlers, Dial(h)
  PROVE  SessionInv'
<1> USE DEF SessionInv
<1>1. /\ pc \in [Handlers -> Labels] /\ pc[h] = "dial" /\ Goto(h, "pump") /\ "pump" \in Labels
      /\ UNCHANGED <<leases, plugin, statVars, byteVars, connOpen, done, errCh, found, received>>
  BY DEF Dial, At, TypeOK, Labels
<1>2. pc' \in [Handlers -> Labels] /\ pc'[h] = "pump" /\ \A o \in Handlers \ {h} : pc'[o] = pc[o]
  BY <1>1, Moved
<1>3. CountersOK'
  BY <1>1, CountersUnmoved DEF TableLabels, ActiveLabels, PluginLabels
<1>4. /\ gor' \in [Handlers -> [Goroutines -> {"none", "run", "lookup", "global", "plugin", "send", "done"}]]
      /\ \A g \in Goroutines : gor'[h][g] \in {"none", "run"} /\ gor[h][g] = "none"
      /\ \A o \in Handlers \ {h} : gor'[o] = gor[o]
  <2>1. \A g \in Goroutines : gor[h][g] = "none"
    BY <1>1 DEF HandlersOK, EarlyLabels
  <2>2. [g \in Goroutines |-> IF g = "ping" /\ ~Pings THEN "none" ELSE "run"]
          \in [Goroutines -> {"none", "run", "lookup", "global", "plugin", "send", "done"}]
    OBVIOUS
  <2>3. QED
    BY <2>1, <2>2 DEF Dial, TypeOK
<1>5. TypeOK'
  BY <1>1, <1>2, <1>4 DEF TypeOK, statVars, byteVars
<1>6. HandlersOK'
  <2>1. plugin[h] \in Plugins
    BY <1>1 DEF HandlersOK, NamedLabels, ActiveLabels, TableLabels
  <2>2. ASSUME NEW o \in Handlers, pc'[o] \in NamedLabels PROVE plugin'[o] \in Plugins
    BY <1>1, <1>2, <2>1, <2>2 DEF HandlersOK
  <2>3. ASSUME NEW o \in Handlers, NEW g \in Goroutines, pc'[o] \in EarlyLabels PROVE gor'[o][g] = "none"
    <3>1. o # h
      BY <1>2, <2>3 DEF EarlyLabels
    <3>2. QED
      BY <1>2, <1>4, <2>3, <3>1 DEF HandlersOK
  <2>4. ASSUME NEW o \in Handlers, NEW g \in Goroutines, gor'[o][g] # "none" PROVE plugin'[o] \in Plugins
    BY <1>1, <1>4, <2>1, <2>4 DEF HandlersOK
  <2>5. QED
    BY <2>2, <2>3, <2>4 DEF HandlersOK
<1>7. LeasesOK'
  <2>1. \A o \in Handlers : (pc'[o] # "idle" <=> pc[o] # "idle") /\ (HoldsLease(o)' <=> HoldsLease(o))
    BY <1>1, <1>2 DEF HoldsLease
  <2>2. QED
    BY <1>1, <2>1 DEF LeasesOK
<1>8. BytesConserved'
  <2>1. Attributing' = Attributing
    <3>1. Copiers \subseteq Goroutines
      BY DEF Goroutines
    <3>2. QED
      BY <1>4, <3>1 DEF Attributing
  <2>2. BytesSay'
    BY <1>1, <2>1, BytesMean DEF BytesSay, byteVars, SumOf
  <2>3. QED
    BY <2>2 DEF BytesSay, BytesConserved, Attributing
<1>9. ChannelsOK'
  BY <1>1 DEF ChannelsOK
<1>10. QED
  BY <1>3, <1>5, <1>6, <1>7, <1>8, <1>9

-----------------------------------------------------------------------------
(* Admission. *)

\* LeasePool counts with the library's Cardinality.
LEMMA PoolCounts == \A S : Pool!Cardinality(S) = Cardinality(S)
BY DEF Pool!Cardinality, Cardinality

\* A handler that is admitted takes a lease it did not hold.
LEMMA AdmitKeeps ==
  ASSUME SessionAssumption, SessionInv, NEW h \in Handlers, NEW i \in IPs, Admit(h, i)
  PROVE  SessionInv'
<1> USE DEF SessionInv
<1>1. /\ pc \in [Handlers -> Labels] /\ pc[h] = "idle" /\ Goto(h, "resolve") /\ "resolve" \in Labels
      /\ UNCHANGED <<statVars, byteVars, connOpen, found>>
  BY DEF Admit, At, TypeOK, Labels
<1>2. pc' \in [Handlers -> Labels] /\ pc'[h] = "resolve" /\ \A o \in Handlers \ {h} : pc'[o] = pc[o]
  BY <1>1, Moved
<1>3. /\ plugin' \in [Handlers -> Plugins \cup {NoPlugin}]
      /\ \A o \in Handlers \ {h} : plugin'[o] = plugin[o]
  BY DEF TypeOK, Admit
<1>4. CountersOK'
  BY <1>1, <1>3, CountersUnmoved DEF TableLabels, ActiveLabels, PluginLabels
<1>5. /\ gor' \in [Handlers -> [Goroutines -> {"none", "run", "lookup", "global", "plugin", "send", "done"}]]
      /\ \A g \in Goroutines : gor'[h][g] = "none" /\ gor[h][g] # "plugin"
      /\ \A o \in Handlers \ {h} : gor'[o] = gor[o]
  <2>1. \A g \in Goroutines : gor[h][g] # "plugin"
    BY DEF Admit, Finished
  <2>2. [g \in Goroutines |-> "none"] \in [Goroutines -> {"none", "run", "lookup", "global", "plugin", "send", "done"}]
    OBVIOUS
  <2>3. QED
    BY <2>1, <2>2 DEF Admit, TypeOK
<1>6. ChannelsOK'
  <2>1. << >> \in Seq(Goroutines)
    OBVIOUS
  <2>2. QED
    BY <2>1 DEF ChannelsOK, Admit
<1>7. PICK new : new = [holder |-> h, peer |-> i]
  OBVIOUS
<1>8. /\ leases' = leases \cup {new} /\ new.holder = h /\ new \in [holder : Handlers, peer : IPs]
      /\ \A l \in leases : l.holder # h
      /\ MaxConnections > 0 => Cardinality(leases) < MaxConnections
  BY <1>7, PoolCounts DEF Admit, Pool!Grant, Pool!Room
<1>9. TypeOK'
  <2>1. leases' \subseteq [holder : Handlers, peer : IPs]
    BY <1>8 DEF TypeOK
  <2>2. done' \in [Handlers -> BOOLEAN] /\ received' \in [Handlers -> SUBSET Goroutines]
    BY DEF TypeOK, Admit
  <2>3. QED
    BY <1>1, <1>2, <1>3, <1>5, <1>6, <2>1, <2>2 DEF TypeOK, statVars, byteVars, ChannelsOK
<1>10. HandlersOK'
  <2>1. ASSUME NEW o \in Handlers, pc'[o] \in NamedLabels PROVE plugin'[o] \in Plugins
    <3>1. o # h
      BY <1>2, <2>1 DEF NamedLabels, ActiveLabels, PluginLabels, TableLabels
    <3>2. QED
      BY <1>2, <1>3, <2>1, <3>1 DEF HandlersOK
  <2>2. ASSUME NEW o \in Handlers, NEW g \in Goroutines, pc'[o] \in EarlyLabels PROVE gor'[o][g] = "none"
    BY <1>2, <1>5, <2>2 DEF HandlersOK
  <2>3. ASSUME NEW o \in Handlers, NEW g \in Goroutines, gor'[o][g] # "none" PROVE plugin'[o] \in Plugins
    BY <1>3, <1>5, <2>3 DEF HandlersOK
  <2>4. QED
    BY <2>1, <2>2, <2>3 DEF HandlersOK
<1>11. LeasesOK'
  <2>1. IsFiniteSet(leases') /\ Cardinality(leases') = Cardinality(leases) + 1 /\ Cardinality(leases) \in Nat
    BY <1>8, FS_AddElement, FS_CardinalityType DEF LeasesOK
  <2>2. MaxConnections > 0 => Cardinality(leases') <= MaxConnections
    BY <1>8, <2>1 DEF SessionAssumption
  <2>3. ASSUME NEW o \in Handlers PROVE HoldsLease(o)' <=> pc'[o] # "idle"
    <3>1. CASE o = h
      BY <1>2, <1>8, <3>1 DEF HoldsLease
    <3>2. CASE o # h
      BY <1>2, <1>8, <3>2 DEF HoldsLease, LeasesOK
    <3>3. QED
      BY <3>1, <3>2
  <2>4. \A l, m \in leases' : l.holder = m.holder => l = m
    BY <1>8 DEF LeasesOK
  <2>5. QED
    BY <2>1, <2>2, <2>3, <2>4 DEF LeasesOK
<1>12. BytesConserved'
  <2>1. Attributing' = Attributing
    <3>1. Copiers \subseteq Goroutines
      BY DEF Goroutines
    <3>2. QED
      BY <1>5, <3>1 DEF Attributing
  <2>2. BytesSay'
    BY <1>1, <2>1, BytesMean DEF BytesSay, byteVars, SumOf
  <2>3. QED
    BY <2>2 DEF BytesSay, BytesConserved, Attributing
<1>13. QED
  BY <1>4, <1>6, <1>9, <1>10, <1>11, <1>12

\* The lease is given back by the handler that holds it.
LEMMA ReleaseKeeps ==
  ASSUME SessionAssumption, SessionInv, NEW h \in Handlers, Release(h)
  PROVE  SessionInv'
<1> USE DEF SessionInv
<1>1. /\ pc \in [Handlers -> Labels] /\ pc[h] = "release" /\ Goto(h, "idle") /\ "idle" \in Labels
      /\ UNCHANGED <<plugin, statVars, byteVars, done, errCh, gor, found, received>>
  BY DEF Release, At, TypeOK, Labels
<1>2. pc' \in [Handlers -> Labels] /\ pc'[h] = "idle" /\ \A o \in Handlers \ {h} : pc'[o] = pc[o]
  BY <1>1, Moved
<1>3. CountersOK'
  BY <1>1, CountersUnmoved DEF TableLabels, ActiveLabels, PluginLabels
<1>4. PICK i \in IPs, old \in leases :
          old = [holder |-> h, peer |-> i] /\ old.holder = h /\ leases' = leases \ {old}
  BY DEF Release, Pool!Return
<1>5. TypeOK'
  <2>1. leases' \subseteq [holder : Handlers, peer : IPs] /\ connOpen' \in [Handlers -> BOOLEAN]
    BY <1>4 DEF TypeOK, Release
  <2>2. QED
    BY <1>1, <1>2, <2>1 DEF TypeOK, statVars, byteVars
<1>6. HandlersOK'
  <2>1. ASSUME NEW o \in Handlers, pc'[o] \in NamedLabels PROVE plugin'[o] \in Plugins
    <3>1. o # h
      BY <1>2, <2>1 DEF NamedLabels, ActiveLabels, PluginLabels, TableLabels
    <3>2. QED
      BY <1>1, <1>2, <2>1, <3>1 DEF HandlersOK
  <2>2. ASSUME NEW o \in Handlers, NEW g \in Goroutines, pc'[o] \in EarlyLabels PROVE gor'[o][g] = "none"
    <3>1. o # h
      BY <1>2, <2>2 DEF EarlyLabels
    <3>2. QED
      BY <1>1, <1>2, <2>2, <3>1 DEF HandlersOK
  <2>3. ASSUME NEW o \in Handlers, NEW g \in Goroutines, gor'[o][g] # "none" PROVE plugin'[o] \in Plugins
    BY <1>1, <2>3 DEF HandlersOK
  <2>4. QED
    BY <2>1, <2>2, <2>3 DEF HandlersOK
<1>7. LeasesOK'
  <2>1. IsFiniteSet(leases') /\ Cardinality(leases') = Cardinality(leases) - 1 /\ Cardinality(leases) \in Nat
    BY <1>4, FS_RemoveElement, FS_CardinalityType DEF LeasesOK
  <2>2. MaxConnections > 0 => Cardinality(leases') <= MaxConnections
    BY <2>1 DEF LeasesOK, SessionAssumption
  <2>3. ASSUME NEW o \in Handlers PROVE HoldsLease(o)' <=> pc'[o] # "idle"
    <3>1. CASE o = h
      BY <1>2, <1>4, <3>1 DEF HoldsLease, LeasesOK
    <3>2. CASE o # h
      BY <1>2, <1>4, <3>2 DEF HoldsLease, LeasesOK
    <3>3. QED
      BY <3>1, <3>2
  <2>4. \A l, m \in leases' : l.holder = m.holder => l = m
    BY <1>4 DEF LeasesOK
  <2>5. QED
    BY <2>1, <2>2, <2>3, <2>4 DEF LeasesOK
<1>8. BytesConserved'
  BY <1>1 DEF BytesConserved, byteVars, SumOf
<1>9. ChannelsOK'
  BY <1>1 DEF ChannelsOK
<1>10. QED
  BY <1>3, <1>5, <1>6, <1>7, <1>8, <1>9

-----------------------------------------------------------------------------
(* The theorems. *)

\* At the start nothing is held, open or counted.
LEMMA SessionInvInit ==
  ASSUME SessionAssumption, Init
  PROVE  SessionInv
<1> USE DEF Init
<1>1. TypeOK /\ ChannelsOK
  <2>1. << >> \in Seq(Goroutines)
    OBVIOUS
  <2>2. QED
    BY <2>1 DEF TypeOK, ChannelsOK, Labels
<1>2. \A labels : "idle" \notin labels => Among(labels) = {} /\ Counted(labels) = 0
  <2>1. ASSUME NEW labels, "idle" \notin labels PROVE {h \in Handlers : pc[h] \in labels} = {}
    BY <2>1
  <2>2. QED
    BY <2>1, FS_EmptySet DEF Among, Counted
<1>3. \A f : f = [p \in Plugins |-> 0] => SumOf(f) = 0
  <2>1. ASSUME NEW f, f = [p \in Plugins |-> 0] PROVE SumFunctionOnSet(f, Plugins) = 0
    BY <2>1, SumOfZeros DEF SessionAssumption
  <2>2. ASSUME NEW f, f = [p \in Plugins |-> 0] PROVE SumFunction(f) = SumFunctionOnSet(f, Plugins)
    BY <2>2 DEF SumFunction
  <2>3. QED
    BY <2>1, <2>2 DEF SumOf
<1>4. HandlersOK
  BY DEF HandlersOK, NamedLabels, ActiveLabels, PluginLabels, TableLabels, EarlyLabels
<1>5. LeasesOK
  <2>1. IsFiniteSet(leases) /\ Cardinality(leases) = 0
    BY FS_EmptySet
  <2>2. QED
    BY <2>1 DEF LeasesOK, HoldsLease, SessionAssumption
<1>6. CountersOK
  <2>1. "idle" \notin TableLabels /\ "idle" \notin ActiveLabels /\ "idle" \notin PluginLabels
    BY DEF TableLabels, ActiveLabels, PluginLabels
  <2>2. sessions = Among(TableLabels) /\ active = Cardinality(Among(ActiveLabels))
    BY <1>2, <2>1, FS_EmptySet
  <2>3. \A p \in Plugins : pluginActive[p] = Cardinality(Serving(p))
    <3>1. \A p \in Plugins : Serving(p) = {}
      BY <2>1 DEF Serving
    <3>2. QED
      BY <3>1, FS_EmptySet
  <2>4. SumOf(pluginActive) = 0 /\ SumOf(pluginTotal) = 0
    BY <1>3
  <2>5. Counted({"startPlugin"}) = 0 /\ Counted({"endPlugin"}) = 0
    BY <1>2
  <2>6. QED
    BY <2>2, <2>3, <2>4, <2>5 DEF CountersOK
<1>7. BytesConserved
  <2>1. SumOf(pluginBytes) = 0
    BY <1>3
  <2>2. Attributing = {}
    BY DEF Attributing, Goroutines
  <2>3. BytesSay
    BY <2>1, <2>2, FS_EmptySet DEF BytesSay
  <2>4. QED
    BY <2>3, BytesMean
<1>8. QED
  BY <1>1, <1>4, <1>5, <1>6, <1>7 DEF SessionInv

\* Every step keeps it.
LEMMA SessionInvStep ==
  ASSUME SessionAssumption, SessionInv, [Next]_vars
  PROVE  SessionInv'
<1>1. ASSUME NEW h \in Handlers, NEW i \in IPs, Admit(h, i) PROVE SessionInv'
  BY <1>1, AdmitKeeps
<1>2. ASSUME NEW h \in Handlers, HandlerStep(h) PROVE SessionInv'
  BY <1>2, PlainSteps, StatSteps, DialKeeps, ReleaseKeeps DEF HandlerStep
<1>3. ASSUME NEW h \in Handlers, NEW g \in Copiers, CopierStep(h, g) PROVE SessionInv'
  BY <1>3, UncountedSteps, CountingSteps DEF CopierStep
<1>4. ASSUME NEW h \in Handlers, PingStep(h) PROVE SessionInv'
  BY <1>4, UncountedSteps DEF PingStep
<1>5. CASE UNCHANGED vars
  BY <1>5 DEF vars, statVars, byteVars, pumpVars, SessionInv, TypeOK, ChannelsOK, HandlersOK, LeasesOK,
     HoldsLease, CountersOK, Among, Serving, Counted, SumOf, BytesConserved
<1>6. QED
  BY <1>1, <1>2, <1>3, <1>4, <1>5 DEF Next

\* The statistics' counters mean what they say at every step.
THEOREM SessionInvHolds == Spec => []SessionInv
<1>1. Init => SessionInv
  BY SessionAssumption, SessionInvInit
<1>2. SessionInv /\ [Next]_vars => SessionInv'
  BY SessionAssumption, SessionInvStep
<1>3. QED
  BY <1>1, <1>2, PTL DEF Spec

\* The three views of the active sessions differ by exactly the handlers that are
\* between two of their updates, and only holders of a lease have a session, so
\* the statistics never show more sessions than admission lets in.
THEOREM ViewsAgree == Spec => []ActiveViewsAgree
<1>1. ASSUME SessionInv PROVE ActiveViewsAgree
  <2> USE <1>1, SessionAssumption DEF SessionInv
  <2>1. pc \in [Handlers -> Labels] /\ leases \subseteq [holder : Handlers, peer : IPs]
    BY DEF TypeOK
  <2>2. active = Cardinality(sessions) + Counted({"startPlugin", "startSession", "endGlobal"})
    <3> DEFINE B == Among({"startPlugin", "startSession", "endGlobal"})
    <3>1. IsFiniteSet(sessions) /\ IsFiniteSet(B)
      <4>1. sessions \in SUBSET Handlers /\ B \in SUBSET Handlers
        BY DEF Among, CountersOK
      <4>2. QED
        BY <4>1, FS_Subset DEF SessionAssumption
    <3>2. sessions \cap B = {} /\ sessions \cup B = Among(ActiveLabels)
      BY DEF Among, CountersOK, ActiveLabels, TableLabels
    <3>3. Cardinality(sessions \cup B) = Cardinality(sessions) + Cardinality(B) - Cardinality(sessions \cap B)
      BY <3>1, FS_Union
    <3>4. Cardinality(sessions) \in Nat /\ Cardinality(B) \in Nat /\ Cardinality(sessions \cap B) = 0
      BY <3>1, <3>2, FS_CardinalityType, FS_EmptySet
    <3>5. Cardinality(B) = Counted({"startPlugin", "startSession", "endGlobal"})
      BY DEF Among, Counted
    <3>6. active = Cardinality(sessions \cup B)
      BY <3>2 DEF CountersOK
    <3> HIDE DEF B
    <3>7. active = Cardinality(sessions) + Cardinality(B)
      BY <3>3, <3>4, <3>6
    <3>8. QED
      BY <3>5, <3>7
  <2>3. \A h \in Handlers : HoldsLease(h) <=> h \in Inside
    BY DEF LeasesOK, Inside, At
  <2>4. sessions \subseteq Inside
    BY DEF CountersOK, Among, TableLabels, Inside, At
  <2>5. MaxConnections > 0 => Cardinality(sessions) <= MaxConnections
    <3>1. PICK holders : holders = {l.holder : l \in leases}
      OBVIOUS
    <3>2. PICK f : f = [l \in leases |-> l.holder]
      OBVIOUS
    <3>3. f \in Surjection(leases, holders)
      BY <3>1, <3>2 DEF Surjection
    <3>4. /\ IsFiniteSet(holders) /\ Cardinality(holders) <= Cardinality(leases)
          /\ Cardinality(holders) \in Nat /\ Cardinality(leases) \in Nat
      BY <3>3, FS_Surjection, FS_CardinalityType DEF LeasesOK
    <3>5. sessions \in SUBSET holders
      BY <2>3, <2>4, <3>1 DEF HoldsLease, Inside
    <3>6. Cardinality(sessions) <= Cardinality(holders) /\ Cardinality(sessions) \in Nat
      BY <3>4, <3>5, FS_Subset, FS_CardinalityType
    <3>7. QED
      BY <3>4, <3>6 DEF LeasesOK, SessionAssumption
  <2>6. QED
    BY <2>2, <2>3, <2>4, <2>5 DEF ActiveViewsAgree, SessionsWithinLeases, CountersOK
<1>2. QED
  BY <1>1, SessionInvHolds, PTL

\* Every payload counted globally is counted for its plugin, is about to be, or
\* was counted after its session had left the table: AddSessionRx and AddSessionTx
\* lose no byte between their updates, however EndSession runs beside them.
THEOREM NoByteLost == Spec => []BytesConserved
<1>1. SessionInv => BytesConserved
  BY DEF SessionInv
<1>2. QED
  BY <1>1, SessionInvHolds, PTL
=============================================================================

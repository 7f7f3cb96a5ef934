------------------------------ MODULE UDPStats ------------------------------
(***************************************************************************)
(* The UDP part of the engine's Stats (internal/engine/stats.go).  A       *)
(* datagram of a session is counted three times, each time under another   *)
(* mutex: in the session's flow, in the global flow, in the flow of the    *)
(* session's plugin.  A snapshot reads the three under the three mutexes,  *)
(* one after the other, while datagrams are being counted.  The module     *)
(* follows rx, which one goroutine of the session counts.  tx is counted   *)
(* by the same code, but when the plugin broadcasts to its peers by two    *)
(* goroutines, and once for each peer that was told: that is left out.     *)
(*                                                                         *)
(* Each session carries one RakNet stream.  The network before the         *)
(* observer may lose, repeat and reorder it: a datagram arrives at most    *)
(* Behind positions before, or Ahead positions after, the newest one.      *)
(***************************************************************************)
EXTENDS FlowMetrics, FiniteSets, FiniteSetsExt, Functions

CONSTANTS CountedSessions, CountedPlugins, PluginOf,
          FirstSeq,        \* the sequence a session's stream starts with
          PayloadSize,     \* the size of a session's datagrams
          Behind, Ahead,   \* how far the network may displace a datagram
          MaxCounted       \* bound: datagrams of each session

ASSUME StatsAssumption ==
  /\ IsFiniteSet(CountedSessions) /\ IsFiniteSet(CountedPlugins)
  /\ PluginOf \in [CountedSessions -> CountedPlugins]
  /\ FirstSeq \in [CountedSessions -> Seqs]
  /\ PayloadSize \in [CountedSessions -> Nat]
  /\ MaxCounted \in [CountedSessions -> Nat]

\* Half the modulus is what the code takes for the future of a stream; the
\* network displaces a datagram by less.
ASSUME DisplacementAssumption ==
  /\ Behind \in Nat /\ Behind < Modulo \div 2
  /\ Ahead \in Nat /\ Ahead <= Modulo \div 2

VARIABLES
  sessions,    \* the keys of Stats.sessions
  ended,       \* the sessions deleted from it
  sessionFlow, \* the flow of each session (kept, as history, after its end)
  global,      \* Stats.udpRX
  pluginFlow,  \* pluginStats.udpRX of each plugin
  counting,    \* what the goroutine of a session still has to count, and where
  arrived,     \* history: the positions that arrived, per session
  unlisted,    \* history: datagrams counted after their session's end
  snapshot     \* the snapshot being taken

statsVars == <<sessions, ended, sessionFlow, global, pluginFlow, counting, arrived,
          unlisted, snapshot>>

Idle == [at |-> "idle"]
NoSnapshot == [at |-> "none"]

Newest(s) == Max(arrived[s])

StatsTypeOK ==
  /\ sessions \subseteq CountedSessions /\ ended \subseteq CountedSessions \ sessions
  /\ sessionFlow \in [CountedSessions -> Flow]
  /\ global \in Flow
  /\ pluginFlow \in [CountedPlugins -> Flow]
  /\ counting \in [CountedSessions ->
       {Idle} \cup [at : {"global", "plugin"}, packet : Packet, listed : BOOLEAN]]
  /\ arrived \in [CountedSessions -> SUBSET Int]
  /\ unlisted \in Nat
  /\ snapshot \in {NoSnapshot} \cup [at : {"plugins"}, global : Nat]
       \cup [at : {"sessions"}, global : Nat, plugins : [CountedPlugins -> Nat]]

StatsInit ==
  /\ sessions = {} /\ ended = {}
  /\ sessionFlow = [s \in CountedSessions |-> ZeroFlow]
  /\ global = ZeroFlow
  /\ pluginFlow = [p \in CountedPlugins |-> ZeroFlow]
  /\ counting = [s \in CountedSessions |-> Idle]
  /\ arrived = [s \in CountedSessions |-> {}]
  /\ unlisted = 0
  /\ snapshot = NoSnapshot

-----------------------------------------------------------------------------
StartSession(s) ==
  /\ s \notin sessions \cup ended
  /\ sessions' = sessions \cup {s}
  /\ UNCHANGED <<ended, sessionFlow, global, pluginFlow, counting, arrived,
                 unlisted, snapshot>>

EndSession(s) ==
  /\ s \in sessions
  /\ sessions' = sessions \ {s}
  /\ ended' = ended \cup {s}
  /\ UNCHANGED <<sessionFlow, global, pluginFlow, counting, arrived, unlisted,
                 snapshot>>

(***************************************************************************)
(* ObserveSessionUDPRx under sessionsMu.  The goroutine that observes may  *)
(* outlive its session: then only the global flow counts the datagram.     *)
(***************************************************************************)
Observe(s, packet) ==
  /\ counting[s] = Idle
  /\ s \in sessions \cup ended
  /\ sessionFlow[s].packets + unlisted < MaxCounted[s]
  /\ counting' = [counting EXCEPT ![s] = [at |-> "global", packet |-> packet,
                                          listed |-> s \in sessions]]
  /\ IF s \in sessions
     THEN /\ sessionFlow' = [sessionFlow EXCEPT ![s] = ObservePacket(@, packet)]
          /\ UNCHANGED unlisted
     ELSE /\ unlisted' = unlisted + 1
          /\ UNCHANGED sessionFlow
  /\ UNCHANGED <<sessions, ended, global, pluginFlow, snapshot>>

ObserveSequenced(s, position) ==
  /\ IF arrived[s] = {} THEN position = 0
     ELSE Newest(s) - Behind <= position /\ position <= Newest(s) + Ahead
  /\ Observe(s, [seq |-> (FirstSeq[s] + position) % Modulo, size |-> PayloadSize[s]])
  /\ arrived' = IF s \in sessions THEN [arrived EXCEPT ![s] = @ \cup {position}]
                                  ELSE arrived

ObserveOther(s) ==
  /\ Observe(s, [seq |-> NoSeq, size |-> PayloadSize[s]])
  /\ UNCHANGED arrived

(***************************************************************************)
(* ObserveUDPRx under udpMu.                                               *)
(***************************************************************************)
ObserveGlobal(s) ==
  /\ counting[s].at = "global"
  /\ global' = ObservePacket(global, counting[s].packet)
  /\ counting' = [counting EXCEPT ![s] = IF @.listed THEN [@ EXCEPT !.at = "plugin"] ELSE Idle]
  /\ UNCHANGED <<sessions, ended, sessionFlow, pluginFlow, arrived, unlisted, snapshot>>

(***************************************************************************)
(* The rest of ObserveUDPRxPlugin under pluginsMu.                         *)
(***************************************************************************)
ObservePlugin(s) ==
  /\ counting[s].at = "plugin"
  /\ pluginFlow' = [pluginFlow EXCEPT ![PluginOf[s]] = ObservePacket(@, counting[s].packet)]
  /\ counting' = [counting EXCEPT ![s] = Idle]
  /\ UNCHANGED <<sessions, ended, sessionFlow, global, arrived, unlisted, snapshot>>

PluginPackets == [p \in CountedPlugins |-> pluginFlow[p].packets]

(***************************************************************************)
(* Stats.Snapshot: the global flow, then the plugins, then the sessions.   *)
(***************************************************************************)
SnapshotGlobal ==
  /\ snapshot = NoSnapshot
  /\ snapshot' = [at |-> "plugins", global |-> global.packets]

SnapshotPlugins ==
  /\ snapshot.at = "plugins"
  /\ snapshot' = [at |-> "sessions", global |-> snapshot.global,
                  plugins |-> PluginPackets]

SnapshotSessions ==
  /\ snapshot.at = "sessions"
  /\ snapshot' = NoSnapshot

\* Mutant: the plugins are read before the global flow.
MutantPluginsFirst ==
  /\ \/ /\ snapshot = NoSnapshot
        /\ snapshot' = [at |-> "global", plugins |-> PluginPackets]
     \/ /\ snapshot.at = "global"
        /\ snapshot' = [at |-> "sessions", plugins |-> snapshot.plugins, global |-> global.packets]
     \/ SnapshotSessions
  /\ UNCHANGED <<sessions, ended, sessionFlow, global, pluginFlow, counting, arrived, unlisted>>

Snapshot ==
  /\ SnapshotGlobal \/ SnapshotPlugins \/ SnapshotSessions
  /\ UNCHANGED <<sessions, ended, sessionFlow, global, pluginFlow, counting, arrived, unlisted>>

StatsNext ==
  \/ \E s \in CountedSessions :
       \/ StartSession(s) \/ EndSession(s)
       \/ \E position \in - Behind .. MaxCounted[s] * (Ahead + 1) : ObserveSequenced(s, position)
       \/ ObserveOther(s) \/ ObserveGlobal(s) \/ ObservePlugin(s)
  \/ Snapshot

StatsSpec == StatsInit /\ [][StatsNext]_statsVars

-----------------------------------------------------------------------------
SessionsOf(p) == {s \in CountedSessions : PluginOf[s] = p}
SessionPackets(p) == [s \in SessionsOf(p) |-> sessionFlow[s].packets]

(***************************************************************************)
(* What a session's flow says of its stream: the positions from the first  *)
(* to the newest that never arrived are at most the packets counted lost,  *)
(* and at least those minus the late ones.                                 *)
(***************************************************************************)
Missing(s) == Cardinality((0 .. Newest(s)) \ arrived[s])

LossBracketsMissing ==
  \A s \in CountedSessions : arrived[s] # {} =>
    /\ Missing(s) <= sessionFlow[s].loss
    /\ sessionFlow[s].loss - sessionFlow[s].reordered <= Missing(s)
    /\ sessionFlow[s].seqPackets - sessionFlow[s].duplicate >= Cardinality(arrived[s])

(***************************************************************************)
(* Once every datagram is counted, each plugin has counted what its        *)
(* sessions counted, and the global flow what the plugins counted and what *)
(* came after a session's end.                                             *)
(***************************************************************************)
AggregatesAgree ==
  (\A s \in CountedSessions : counting[s] = Idle) =>
    /\ \A p \in CountedPlugins :
         pluginFlow[p].packets = SumFunction(SessionPackets(p))
    /\ global.packets = SumFunction(PluginPackets) + unlisted

(***************************************************************************)
(* A snapshot is not one instant, but it errs to one side only: a plugin   *)
(* never shows more than its sessions, which are read after it, have       *)
(* counted by then; and the global flow, read before, is ahead of the      *)
(* plugins by no more than the datagrams that were being counted.          *)
(***************************************************************************)
SnapshotOrder ==
  snapshot.at = "sessions" =>
    /\ \A p \in CountedPlugins :
         snapshot.plugins[p] <= SumFunction(SessionPackets(p))
    /\ snapshot.global <= SumFunction(snapshot.plugins) + unlisted + Cardinality(CountedSessions)

\* Both, of what is counted and of what is shown of it.
CountsAgree == AggregatesAgree /\ SnapshotOrder
=============================================================================

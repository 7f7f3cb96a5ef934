----------------------------- MODULE MCServerUDP -----------------------------
(***************************************************************************)
(* UDPPeerRelay and UDPStats in one run, one of them at a time: which is   *)
(* chosen at the start and the other stands still.                         *)
(*                                                                         *)
(* The two sessions of the statistics, on plugins of their own, mix in the *)
(* global flow; the first wraps around the modulus.                        *)
(***************************************************************************)
EXTENDS UDPPeerRelay, UDPStats, TLC

CONSTANTS s1, s2, s3, p1, p2, wrapping, steady

MCSessions == {s1, s2, s3}
Symmetry == Permutations(Sessions)

MCCountedSessions == {wrapping, steady}
MCCountedPlugins == {p1, p2}
MCPluginOf == wrapping :> p1 @@ steady :> p2
MCFirstSeq == wrapping :> Modulo - 2 @@ steady :> 1
MCMaxCounted == wrapping :> 3 @@ steady :> 1
MCPayloadSize == wrapping :> 1401 @@ steady :> 64

VARIABLE which

MCInit == which \in {"relay", "stats"} /\ Init /\ StatsInit

MCNext ==
  \/ which = "relay" /\ Next /\ UNCHANGED <<which, statsVars>>
  \/ which = "stats" /\ StatsNext /\ UNCHANGED <<which, vars>>

MCSpec == MCInit /\ [][MCNext]_<<which, vars, statsVars>>
=============================================================================

---------------------------- MODULE FlowMetrics ----------------------------
(***************************************************************************)
(* The counters of one UDP direction (internal/udputil/metrics.go): how    *)
(* many datagrams, how large, and, when a datagram carries a RakNet        *)
(* sequence number, how many were lost, late or repeated.  Sequence        *)
(* numbers live modulo Modulo (2^24 in the code).  The jitter estimate, a  *)
(* floating-point filter, is not modelled.                                 *)
(***************************************************************************)
EXTENDS Integers

CONSTANTS Modulo,    \* RakNetSeqModulo
          NoSeq      \* the sequence of a payload that is not a RakNet datagram

ASSUME ModuloAssumption == Modulo \in Nat /\ Modulo >= 4 /\ Modulo % 2 = 0
ASSUME NoSeqAssumption == NoSeq \notin 0 .. Modulo - 1

Seqs == 0 .. Modulo - 1

Packet == [seq : Seqs \cup {NoSeq}, size : Nat]

Flow == [packets : Nat, over1200 : Nat, over1400 : Nat, over1472 : Nat,
         maxPayload : Nat, seqPackets : Nat, loss : Nat, reordered : Nat,
         duplicate : Nat, seqInitialized : BOOLEAN, nextExpected : Seqs]

ZeroFlow == [packets |-> 0, over1200 |-> 0, over1400 |-> 0, over1472 |-> 0,
             maxPayload |-> 0, seqPackets |-> 0, loss |-> 0, reordered |-> 0,
             duplicate |-> 0, seqInitialized |-> FALSE, nextExpected |-> 0]

One(b) == IF b THEN 1 ELSE 0

(***************************************************************************)
(* The three size limits (internal/udputil/limits.go).                     *)
(***************************************************************************)
AboveConservativeMTU(n) == n > 1200
AboveTunnelHOLRisk(n) == n > 1400
AboveIPv4UDPFragmentRisk(n) == n > 1472

\* Mutant: the distance does not wrap.
MutantNoWrap(expected, received) ==
  IF received >= expected THEN received - expected ELSE expected - received

(***************************************************************************)
(* How far ahead of the expected sequence a received one lies.             *)
(***************************************************************************)
SeqForwardDistance(expected, received) ==
  IF received >= expected THEN received - expected
                          ELSE (Modulo - expected) + received

Follows(seq) == (seq + 1) % Modulo

Sized(f, n) ==
  [f EXCEPT !.packets = @ + 1,
            !.maxPayload = IF n > @ THEN n ELSE @,
            !.over1200 = @ + One(AboveConservativeMTU(n)),
            !.over1400 = @ + One(AboveTunnelHOLRisk(n)),
            !.over1472 = @ + One(AboveIPv4UDPFragmentRisk(n))]

(***************************************************************************)
(* A sequence less than half the modulus ahead is new, and what it skips   *)
(* is lost; the others are behind: the last one again, or a late one.      *)
(***************************************************************************)
Sequenced(f, seq) ==
  LET forward == SeqForwardDistance(f.nextExpected, seq)
      counted == [f EXCEPT !.seqPackets = @ + 1]
  IN  CASE ~ f.seqInitialized ->
             [counted EXCEPT !.seqInitialized = TRUE, !.nextExpected = Follows(seq)]
        [] f.seqInitialized /\ forward < Modulo \div 2 ->
             [counted EXCEPT !.loss = @ + forward, !.nextExpected = Follows(seq)]
        [] f.seqInitialized /\ forward >= Modulo \div 2 ->
             IF Follows(seq) = f.nextExpected
             THEN [counted EXCEPT !.duplicate = @ + 1]
             ELSE [counted EXCEPT !.reordered = @ + 1]

ObservePacket(f, packet) ==
  IF packet.seq = NoSeq THEN Sized(f, packet.size)
                        ELSE Sequenced(Sized(f, packet.size), packet.seq)
=============================================================================

------------------------------ MODULE UDPCheck ------------------------------
(***************************************************************************)
(* road-proxy udp-check (cmd/road/udp_check.go): simulated players send    *)
(* numbered pings over sockets of their own, a server acknowledges them,   *)
(* and each side reports what it counted.  A player is two goroutines, the *)
(* sender and the reader of acks, sharing a mutex; a ping is written to    *)
(* the socket before it is recorded as sent, so its ack may come first.    *)
(* The server is one loop that looks at its context only when a read       *)
(* fails.  The network loses, delays, reorders and repeats datagrams.      *)
(* Payload sizes, gaps and jitter, fixed or merely displayed, are not      *)
(* modelled; a round trip is counted, its duration is not.                 *)
(***************************************************************************)
EXTENDS Integers, FiniteSets, FiniteSetsExt

CONSTANTS Players,
          Noise,       \* whether other senders keep the server's socket busy
          MaxSends,    \* bound: pings per player
          MaxFaults    \* bound: repeated datagrams, and socket errors other than time-outs

ASSUME CheckAssumption == Noise \in BOOLEAN /\ {MaxSends, MaxFaults} \subseteq Nat

VARIABLES
  sender,   \* per player: where its sending goroutine is
  nextSeq,  \* per player: the next sequence number
  sent,     \* per player: the keys of state.sent
  sentSeq, ackSeq,  \* per player: state.sentSeq and state.ackSeq
  rtts,     \* per player: the sequence numbers that gave a round-trip sample
  errors,   \* per player: state.errors
  reader,   \* per player: where its reader is
  stopping, \* the players whose readCtx is cancelled (and socket then closed)
  pings, acks,      \* datagrams in flight: <<player, sequence>>
  noise,    \* whether a foreign datagram waits on the server's socket
  server,   \* where the server is
  peers,    \* per player: RX and TX of udpCheckServerPeer
  told,     \* whether the server's context is done
  failedSends, faults

checkVars == <<sender, nextSeq, sent, sentSeq, ackSeq, rtts, errors, reader, stopping,
               pings, acks, noise, server, peers, told, failedSends, faults>>
counters == <<sent, sentSeq, ackSeq, rtts, errors>>
netVars == <<pings, acks, noise, faults>>
serverVars == <<server, peers, told>>

-----------------------------------------------------------------------------
(***************************************************************************)
(* udpCheckSequenceStats, and, as history, the first sequence it saw.      *)
(***************************************************************************)
ZeroStats == [seen |-> {}, packets |-> 0, duplicate |-> 0, reordered |-> 0,
              loss |-> 0, initialized |-> FALSE, highest |-> 0, first |-> 0]

Unique(st) == Cardinality(st.seen)

Skipped(st, seq) == seq - st.highest - 1

Observe(st, seq) ==
  LET counted == [st EXCEPT !.packets = @ + 1]
      fresh == [counted EXCEPT !.seen = @ \cup {seq}]
  IN  CASE seq \in st.seen -> [counted EXCEPT !.duplicate = @ + 1]
        [] seq \notin st.seen /\ ~ st.initialized ->
             [fresh EXCEPT !.initialized = TRUE, !.highest = seq, !.first = seq]
        [] seq \notin st.seen /\ st.initialized /\ seq > st.highest ->
             [fresh EXCEPT !.loss = @ + Skipped(st, seq), !.highest = seq]
        [] seq \notin st.seen /\ st.initialized /\ seq <= st.highest ->
             [fresh EXCEPT !.reordered = @ + 1]

\* Mutant: the packets are compared, repeated or not.
MutantMissingOf(p) == sentSeq[p].packets - Min({sentSeq[p].packets, ackSeq[p].packets})

(***************************************************************************)
(* The loss a client summary shows for a player.                           *)
(***************************************************************************)
MissingOf(p) == Unique(sentSeq[p]) - Min({Unique(sentSeq[p]), Unique(ackSeq[p])})

Reading == [at |-> "read"]
Done == [at |-> "done"]

-----------------------------------------------------------------------------
CheckInit ==
  /\ sender = [p \in Players |-> "write"]
  /\ nextSeq = [p \in Players |-> 1]
  /\ sent = [p \in Players |-> {}]
  /\ sentSeq = [p \in Players |-> ZeroStats]
  /\ ackSeq = [p \in Players |-> ZeroStats]
  /\ rtts = [p \in Players |-> {}]
  /\ errors = [p \in Players |-> 0]
  /\ reader = [p \in Players |-> Reading]
  /\ stopping = {}
  /\ pings = {} /\ acks = {} /\ noise = FALSE
  /\ server = "serving"
  /\ peers = [p \in Players |-> [rx |-> ZeroStats, tx |-> ZeroStats]]
  /\ told = FALSE
  /\ failedSends = [p \in Players |-> {}]
  /\ faults = 0

(***************************************************************************)
(* send: the socket write, then the record under the mutex.  A failed      *)
(* write is counted and its sequence number is not used again, unless it   *)
(* was the first: then the player returns the error.                       *)
(***************************************************************************)
WritePing(p) ==
  /\ sender[p] = "write"
  /\ nextSeq[p] <= MaxSends
  /\ pings' = pings \cup {<<p, nextSeq[p]>>}
  /\ sender' = [sender EXCEPT ![p] = "record"]
  /\ UNCHANGED <<nextSeq, counters, reader, stopping, acks, noise, faults,
                 serverVars, failedSends>>

RecordPing(p) ==
  /\ sender[p] = "record"
  /\ sent' = [sent EXCEPT ![p] = @ \cup {nextSeq[p]}]
  /\ sentSeq' = [sentSeq EXCEPT ![p] = Observe(@, nextSeq[p])]
  /\ nextSeq' = [nextSeq EXCEPT ![p] = @ + 1]
  /\ sender' = [sender EXCEPT ![p] = "write"]
  /\ UNCHANGED <<ackSeq, rtts, errors, reader, stopping, netVars, serverVars, failedSends>>

WriteFails(p) ==
  /\ sender[p] = "write"
  /\ nextSeq[p] <= MaxSends /\ faults < MaxFaults
  /\ faults' = faults + 1
  /\ IF nextSeq[p] = 1
     THEN /\ sender' = [sender EXCEPT ![p] = "failed"]
          /\ stopping' = stopping \cup {p}
          /\ UNCHANGED <<errors, nextSeq, failedSends>>
     ELSE /\ errors' = [errors EXCEPT ![p] = @ + 1]
          /\ nextSeq' = [nextSeq EXCEPT ![p] = @ + 1]
          /\ failedSends' = [failedSends EXCEPT ![p] = @ \cup {nextSeq[p]}]
          /\ UNCHANGED <<sender, stopping>>
  /\ UNCHANGED <<sent, sentSeq, ackSeq, rtts, reader, pings, acks, noise, serverVars>>

(***************************************************************************)
(* The deadline, or Ctrl+C, ends the sending; after the grace time the     *)
(* reader is told to stop, the socket closed, and the reader awaited.      *)
(***************************************************************************)
StopSending(p) ==
  /\ sender[p] = "write" /\ nextSeq[p] > 1
  /\ sender' = [sender EXCEPT ![p] = "grace"]
  /\ UNCHANGED <<nextSeq, counters, reader, stopping, netVars, serverVars, failedSends>>

\* Mutant: the reader is awaited and not told.
MutantReaderUntold(p) ==
  /\ sender[p] = "grace"
  /\ sender' = [sender EXCEPT ![p] = "awaiting"]
  /\ UNCHANGED <<nextSeq, counters, reader, stopping, netVars, serverVars, failedSends>>

EndGrace(p) ==
  /\ sender[p] = "grace"
  /\ stopping' = stopping \cup {p}
  /\ sender' = [sender EXCEPT ![p] = "awaiting"]
  /\ UNCHANGED <<nextSeq, counters, reader, netVars, serverVars, failedSends>>

ReturnResult(p) ==
  /\ sender[p] = "awaiting" /\ reader[p] = Done
  /\ sender' = [sender EXCEPT ![p] = "returned"]
  /\ UNCHANGED <<nextSeq, counters, reader, stopping, netVars, serverVars, failedSends>>

(***************************************************************************)
(* The reader: an ack is read, then counted under the mutex.  A ping       *)
(* recorded by then gives a round-trip sample.                             *)
(***************************************************************************)
ReadAck(p) ==
  /\ reader[p] = Reading /\ p \notin stopping
  /\ \E a \in acks :
       /\ a[1] = p
       /\ acks' = acks \ {a}
       /\ reader' = [reader EXCEPT ![p] = [at |-> "count", ack |-> a[2]]]
  /\ UNCHANGED <<sender, nextSeq, counters, stopping, pings, noise, faults,
                 serverVars, failedSends>>

CountAck(p) ==
  /\ reader[p].at = "count"
  /\ LET seq == reader[p].ack
     IN  /\ rtts' = [rtts EXCEPT ![p] = IF seq \in sent[p] THEN @ \cup {seq} ELSE @]
         /\ ackSeq' = [ackSeq EXCEPT ![p] = Observe(@, seq)]
  /\ reader' = [reader EXCEPT ![p] = Reading]
  /\ UNCHANGED <<sender, nextSeq, sent, sentSeq, errors, stopping, netVars, serverVars,
                 failedSends>>

ReadFails(p) ==
  /\ reader[p] = Reading /\ p \notin stopping
  /\ faults < MaxFaults
  /\ faults' = faults + 1
  /\ errors' = [errors EXCEPT ![p] = @ + 1]
  /\ UNCHANGED <<sender, nextSeq, sent, sentSeq, ackSeq, rtts, reader, stopping, pings,
                 acks, noise, serverVars, failedSends>>

ReaderStops(p) ==
  /\ reader[p] = Reading /\ p \in stopping
  /\ reader' = [reader EXCEPT ![p] = Done]
  /\ UNCHANGED <<sender, nextSeq, counters, stopping, netVars, serverVars, failedSends>>

-----------------------------------------------------------------------------
(***************************************************************************)
(* runUDPCheckServer.  A ping is counted and acknowledged in one round of  *)
(* the loop, a foreign datagram is skipped; the context is looked at only  *)
(* after a read that failed, and only an idle socket fails a read.         *)
(***************************************************************************)
ServePing ==
  /\ server = "serving"
  /\ \E d \in pings :
       LET p == d[1]
       IN  /\ pings' = pings \ {d}
           /\ \/ /\ peers' = [peers EXCEPT ![p].rx = Observe(@, d[2]),
                                           ![p].tx = Observe(@, d[2])]
                 /\ acks' = acks \cup {d}
                 /\ UNCHANGED faults
              \/ /\ faults < MaxFaults   \* the ack could not be written
                 /\ faults' = faults + 1
                 /\ peers' = [peers EXCEPT ![p].rx = Observe(@, d[2])]
                 /\ UNCHANGED acks
  /\ UNCHANGED <<sender, nextSeq, counters, reader, stopping, noise, server,
                 told, failedSends>>

SkipNoise ==
  /\ server = "serving" /\ noise
  /\ noise' = FALSE
  /\ UNCHANGED <<sender, nextSeq, counters, reader, stopping, pings, acks,
                 faults, serverVars, failedSends>>

TimedOut ==
  /\ server = "serving" /\ told
  /\ pings = {} /\ ~ noise
  /\ server' = "returned"
  /\ UNCHANGED <<sender, nextSeq, counters, reader, stopping, netVars, peers, told,
                 failedSends>>

Tell ==
  /\ ~ told
  /\ told' = TRUE
  /\ UNCHANGED <<sender, nextSeq, counters, reader, stopping, netVars, server, peers,
                 failedSends>>

-----------------------------------------------------------------------------
(***************************************************************************)
(* The network, and the other senders.                                     *)
(***************************************************************************)
Lose ==
  /\ \/ \E d \in pings : pings' = pings \ {d} /\ UNCHANGED acks
     \/ \E d \in acks : acks' = acks \ {d} /\ UNCHANGED pings
  /\ UNCHANGED <<sender, nextSeq, counters, reader, stopping, noise, faults,
                 serverVars, failedSends>>

Repeat ==
  /\ faults < MaxFaults
  /\ faults' = faults + 1
  /\ \E p \in Players, seq \in 1 .. MaxSends :
       \/ seq < nextSeq[p] /\ pings' = pings \cup {<<p, seq>>} /\ UNCHANGED acks
            /\ seq \notin failedSends[p]
       \/ seq \in peers[p].tx.seen /\ acks' = acks \cup {<<p, seq>>} /\ UNCHANGED pings
  /\ UNCHANGED <<sender, nextSeq, counters, reader, stopping, noise, serverVars,
                 failedSends>>

OtherSender ==
  /\ Noise /\ ~ noise /\ server = "serving"
  /\ noise' = TRUE
  /\ UNCHANGED <<sender, nextSeq, counters, reader, stopping, pings, acks,
                 faults, serverVars, failedSends>>

ServerStep == ServePing \/ SkipNoise \/ TimedOut
SenderStep(p) == WritePing(p) \/ RecordPing(p) \/ StopSending(p) \/ EndGrace(p) \/ ReturnResult(p)
AckStep(p) == ReadAck(p) \/ CountAck(p) \/ ReaderStops(p)

CheckNext ==
  \/ ServerStep \/ Tell \/ Lose \/ Repeat \/ OtherSender
  \/ \E p \in Players : SenderStep(p) \/ AckStep(p) \/ WriteFails(p) \/ ReadFails(p)

(***************************************************************************)
(* The goroutines run; the network and the other senders promise nothing.  *)
(***************************************************************************)
CheckFairness ==
  /\ WF_checkVars(ServerStep)
  /\ \A p \in Players : WF_checkVars(SenderStep(p)) /\ WF_checkVars(AckStep(p))

CheckSpec == CheckInit /\ [][CheckNext]_checkVars /\ CheckFairness

-----------------------------------------------------------------------------
Stats == [seen : SUBSET (1 .. MaxSends), packets : Nat, duplicate : Nat, reordered : Nat,
          loss : Nat, initialized : BOOLEAN, highest : 0 .. MaxSends, first : 0 .. MaxSends]

CheckTypeOK ==
  /\ sender \in [Players -> {"write", "record", "grace", "awaiting", "returned", "failed"}]
  /\ nextSeq \in [Players -> 1 .. MaxSends + 1]
  /\ \A p \in Players :
       /\ {sentSeq[p], ackSeq[p], peers[p].rx, peers[p].tx} \subseteq Stats
       /\ reader[p] \in {Reading, Done} \cup [at : {"count"}, ack : 1 .. MaxSends]
  /\ sent \in [Players -> SUBSET (1 .. MaxSends)]
  /\ pings \cup acks \subseteq Players \X (1 .. MaxSends)
  /\ server \in {"serving", "returned"}

(***************************************************************************)
(* docs/UDP-CHECK.md:93.  A result is only returned once no ack can still  *)
(* be counted, and its missing packets are exactly the recorded pings no   *)
(* counted ack answered, however acks and records interleaved.             *)
(***************************************************************************)
MissingIsUnanswered ==
  \A p \in Players : sender[p] = "returned" =>
    /\ MissingOf(p) = Cardinality(sent[p] \ ackSeq[p].seen)
    /\ rtts[p] \subseteq ackSeq[p].seen

(***************************************************************************)
(* Whatever the order of arrival, what a side received for the first time, *)
(* in order, plus what it counts lost, spans the sequence numbers from its *)
(* first to its highest; a player's own record misses only failed writes.  *)
(***************************************************************************)
Spans(st) ==
  st.initialized =>
    /\ st.highest - st.first + 1 = Unique(st) - st.reordered + st.loss
    /\ st.packets = Unique(st) + st.duplicate

SequencesSpan ==
  \A p \in Players :
    /\ Spans(sentSeq[p]) /\ Spans(ackSeq[p]) /\ Spans(peers[p].rx) /\ Spans(peers[p].tx)
    /\ sentSeq[p].reordered + sentSeq[p].duplicate = 0
    /\ sender[p] = "returned" => sentSeq[p].loss <= Cardinality(failedSends[p])
    /\ ackSeq[p].seen \subseteq peers[p].tx.seen /\ peers[p].tx.seen \subseteq peers[p].rx.seen

\* Both: what the summaries of udp-check show is what happened.
ResultsTrue == MissingIsUnanswered /\ SequencesSpan

(***************************************************************************)
(* A player always comes to its end, whatever the network does.            *)
(***************************************************************************)
PlayersEnd == \A p \in Players : <>(sender[p] \in {"returned", "failed"} /\ reader[p] = Done)

(***************************************************************************)
(* cmd/road/udp_check.go:160: the duration of the server is the test       *)
(* duration, and "0 means until Ctrl+C": a server whose time is over, or   *)
(* that was interrupted, returns.                                          *)
(***************************************************************************)
ServerStopsWhenTold == told ~> server = "returned"
=============================================================================

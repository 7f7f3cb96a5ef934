----------------------------- MODULE UDPRecorder -----------------------------
(***************************************************************************)
(* The UDP recorder (internal/udprecord): a file that starts with one      *)
(* metadata line and takes one line per datagram, up to a number of events *)
(* and up to a time.  Many goroutines record; each reads the clock before  *)
(* it takes the recorder's mutex.  What a line says besides its time is    *)
(* not modelled.                                                           *)
(***************************************************************************)
EXTENDS Integers, Sequences, SequencesExt

CONSTANTS Writers,     \* goroutines that record datagrams
          Enabled,     \* Options.Enabled
          MaxEvents,   \* Options.MaxEvents, 0 for no limit
          Duration,    \* Options.Duration, 0 for no limit
          MaxTime,     \* bound: the clock
          MaxDatagrams \* bound: datagrams per writer

ASSUME RecorderAssumption ==
  /\ Enabled \in BOOLEAN
  /\ {MaxEvents, Duration, MaxTime, MaxDatagrams} \subseteq Nat

VARIABLES now,       \* the time since New opened the file
          recorder,  \* "none" before New, "off" when disabled, "open" or "closed"
          count,     \* Recorder.count
          lines,     \* the times of the packet lines in the file
          sampled,   \* per writer: the times read and not yet recorded
          datagrams  \* per writer: how many it has had

recorderVars == <<now, recorder, count, lines, sampled, datagrams>>

RecorderInit ==
  /\ now = 0 /\ recorder = "none" /\ count = 0 /\ lines = <<>>
  /\ sampled = [w \in Writers |-> <<>>]
  /\ datagrams = [w \in Writers |-> 0]

Tick ==
  /\ recorder # "none" /\ now < MaxTime
  /\ now' = now + 1
  /\ UNCHANGED <<recorder, count, lines, sampled, datagrams>>

(***************************************************************************)
(* New creates, and so empties, the file.                                  *)
(***************************************************************************)
OpenRecorder ==
  /\ recorder = "none"
  /\ recorder' = IF Enabled THEN "open" ELSE "off"
  /\ lines' = <<>>
  /\ UNCHANGED <<now, count, sampled, datagrams>>

(***************************************************************************)
(* RecordPacket: the clock, then record, under the mutex.  An event that   *)
(* cannot be encoded still counts.                                         *)
(***************************************************************************)
SampleTime(w) ==
  /\ recorder \in {"open", "closed"}
  /\ sampled[w] = <<>> /\ datagrams[w] < MaxDatagrams
  /\ sampled' = [sampled EXCEPT ![w] = <<now>>]
  /\ datagrams' = [datagrams EXCEPT ![w] = @ + 1]
  /\ UNCHANGED <<now, recorder, count, lines>>

\* Mutant: one event too many.
MutantOneMore(time) ==
  \/ Duration > 0 /\ time > Duration
  \/ MaxEvents > 0 /\ count > MaxEvents

Expired(time) ==
  \/ Duration > 0 /\ time > Duration
  \/ MaxEvents > 0 /\ count >= MaxEvents

Record(w) ==
  /\ sampled[w] # <<>>
  /\ sampled' = [sampled EXCEPT ![w] = <<>>]
  /\ IF recorder = "closed" \/ Expired(sampled[w][1])
     THEN UNCHANGED <<count, lines>>
     ELSE /\ count' = count + 1
          /\ lines' \in {Append(lines, sampled[w][1]), lines}
  /\ UNCHANGED <<now, recorder, datagrams>>

CloseRecorder ==
  /\ recorder \in {"open", "off"}
  /\ recorder' = IF recorder = "open" THEN "closed" ELSE "off"
  /\ UNCHANGED <<now, count, lines, sampled, datagrams>>

-----------------------------------------------------------------------------
(***************************************************************************)
(* docs/UDP-RECORDER.md, "Keep captures short".  Although writers may take *)
(* the mutex in another order than they read the clock, the file holds no  *)
(* more events than allowed and none from outside the recording time, and  *)
(* a line counted is the only way a line gets there.                       *)
(***************************************************************************)
RecordedWithinLimits ==
  /\ MaxEvents > 0 => count <= MaxEvents
  /\ Len(lines) <= count
  /\ \A time \in ToSet(lines) :
       Duration > 0 => time <= Duration
=============================================================================

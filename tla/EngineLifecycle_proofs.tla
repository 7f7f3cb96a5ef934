------------------------ MODULE EngineLifecycle_proofs ------------------------
(***************************************************************************)
(* Theorems about a run of the engine (internal/engine/engine.go) and its  *)
(* recorder (internal/udprecord), for any plugins, connections and limits. *)
(***************************************************************************)
EXTENDS EngineLifecycle, SequenceTheorems, TLAPS

-----------------------------------------------------------------------------
(***************************************************************************)
(* The recorder.  The limits are looked at under the mutex, so each line   *)
(* is counted and none is written beyond them, whoever reads the clock.    *)
(***************************************************************************)
RecorderInv ==
  /\ count \in Nat /\ now \in Nat
  /\ lines \in Seq(Nat)
  /\ sampled \in [Writers -> Seq(Nat)]
  /\ RecordedWithinLimits

\* The limits hold while no line is written.
LEMMA RecorderUnchanged ==
  ASSUME RecorderInv, count' = count, lines' = lines PROVE RecordedWithinLimits'
BY DEF RecorderInv, RecordedWithinLimits

\* A clock read is a time.
LEMMA SampleTimeStep == ASSUME RecorderInv, NEW w \in Writers, SampleTime(w) PROVE RecorderInv'
<1>1. <<now>> \in Seq(Nat)
  BY DEF RecorderInv
<1>2. sampled' \in [Writers -> Seq(Nat)]
  BY <1>1 DEF SampleTime, RecorderInv
<1>3. QED
  BY <1>2, RecorderUnchanged DEF SampleTime, RecorderInv

\* A line is written only while neither limit is reached.
LEMMA RecordStep == ASSUME RecorderInv, NEW w \in Writers, Record(w) PROVE RecorderInv'
<1>1. <<>> \in Seq(Nat) /\ sampled' \in [Writers -> Seq(Nat)]
  BY DEF Record, RecorderInv
<1>2. CASE recorder = "closed" \/ Expired(sampled[w][1])
  BY <1>1, <1>2, RecorderUnchanged DEF Record, RecorderInv
<1>3. CASE ~ (recorder = "closed" \/ Expired(sampled[w][1]))
  <2> DEFINE time == sampled[w][1]
  <2>1. time \in Nat
    <3>1. sampled[w] \in Seq(Nat) /\ sampled[w] # <<>>
      BY DEF Record, RecorderInv
    <3>2. QED
      BY <3>1, EmptySeq, LenProperties
  <2>2. count' = count + 1 /\ (lines' = Append(lines, time) \/ lines' = lines)
    BY <1>3 DEF Record
  <2>3. (Duration > 0 => ~ (time > Duration)) /\ (MaxEvents > 0 => ~ (count >= MaxEvents))
    BY <1>3 DEF Expired
  <2>4. now' = now
    BY DEF Record
  <2> HIDE DEF time
  <2>5. lines' \in Seq(Nat) /\ Len(lines') <= count'
    <3>1. lines \in Seq(Nat) /\ Len(lines) \in Nat /\ Len(lines) <= count /\ count \in Nat
      BY LenProperties DEF RecorderInv, RecordedWithinLimits
    <3>2. Append(lines, time) \in Seq(Nat) /\ Len(Append(lines, time)) = Len(lines) + 1
      BY <2>1, <3>1, AppendProperties
    <3>3. QED
      BY <2>2, <3>1, <3>2, SMTT(30)
  <2>6. \A t \in ToSet(lines') : t = time \/ t \in ToSet(lines)
    <3>1. /\ lines \in Seq(Nat) /\ Len(lines) \in Nat /\ DOMAIN lines = 1 .. Len(lines)
          /\ Append(lines, time) \in Seq(Nat) /\ DOMAIN Append(lines, time) = 1 .. Len(lines) + 1
      BY <2>1, AppendProperties, LenProperties DEF RecorderInv
    <3>2. \A i \in 1 .. Len(lines) : Append(lines, time)[i] = lines[i]
      BY <2>1, <3>1, AppendProperties
    <3>3. Append(lines, time)[Len(lines) + 1] = time
      BY <2>1, <3>1, AppendProperties
    <3>4. QED
      BY <2>2, <3>1, <3>2, <3>3, SMTT(30) DEF ToSet
  <2>7. (MaxEvents > 0 => count' <= MaxEvents) /\ count' \in Nat
    BY <2>2, <2>3, RecorderAssumption DEF RecorderInv
  <2>8. Duration > 0 => time <= Duration
    BY <2>1, <2>3, RecorderAssumption
  <2>9. \A t \in ToSet(lines') : Duration > 0 => t <= Duration
    BY <2>6, <2>8 DEF RecorderInv, RecordedWithinLimits
  <2>10. RecordedWithinLimits'
    BY <2>5, <2>7, <2>9 DEF RecordedWithinLimits
  <2>11. QED
    BY <1>1, <2>4, <2>5, <2>7, <2>10 DEF RecorderInv
<1>4. QED
  BY <1>2, <1>3

\* A new file is empty.
LEMMA OpenRecorderStep == ASSUME RecorderInv, OpenRecorder PROVE RecorderInv'
<1>1. lines' = <<>> /\ Len(lines') = 0 /\ lines' \in Seq(Nat) /\ ToSet(lines') = {}
  BY EmptySeq DEF OpenRecorder, ToSet
<1>2. UNCHANGED <<now, count, sampled>>
  BY DEF OpenRecorder
<1>3. QED
  BY <1>1, <1>2 DEF RecorderInv, RecordedWithinLimits

\* Every step of the engine keeps the recorder's limits.
LEMMA RecorderInvStep == RecorderInv /\ [Next]_vars => RecorderInv'
<1> SUFFICES ASSUME RecorderInv, [Next]_vars PROVE RecorderInv'
  OBVIOUS
<1>1. CASE UNCHANGED <<now, count, lines, sampled>>
  BY <1>1, RecorderUnchanged DEF RecorderInv
<1>2. CASE OpenRecorder
  BY <1>2, OpenRecorderStep
<1>3. CASE \E w \in Writers : SampleTime(w) \/ Record(w)
  BY <1>3, SampleTimeStep, RecordStep
<1>4. CASE Tick
  BY <1>4, RecorderUnchanged DEF Tick, RecorderInv
<1>5. CASE MainStep \/ Cancel \/ AcceptFails \/ AcceptGoroutine
  BY <1>1, <1>2, <1>5
  DEF MainStep, LoadPlugins, SetupRecorder, Listen, GoServe, SelectDone, SelectError,
      ShutdownListener, ShutdownHTTP, ShutdownEnds, Return, CloseRecorder, Cancel, AcceptFails,
      AcceptGoroutine, AcceptReports, AcceptEnds, recorderVars
<1>6. CASE RecordDatagram \/ PassTime
  BY <1>3, <1>4, <1>6 DEF RecordDatagram, PassTime
<1>7. ASSUME NEW s \in HTTPServers, ServeHTTP(s) \/ ListenFails(s) PROVE RecorderInv'
  BY <1>1, <1>7 DEF ServeHTTP, ListenFails, recorderVars
<1>8. ASSUME NEW h \in Handlers, Accept(h) \/ DialTarget(h) \/ SecondEnds(h) PROVE RecorderInv'
  BY <1>1, <1>8 DEF Accept, DialTarget, SecondEnds, recorderVars
<1>9. ASSUME NEW h \in Handlers, NEW d \in Directions,
             CopyRead(h, d) \/ CopyWrite(h, d) \/ FirstEnds(h, d) \/ Peer(h, d)
      PROVE  RecorderInv'
  BY <1>1, <1>9 DEF CopyRead, CopyWrite, FirstEnds, Peer, recorderVars
<1>10. CASE UNCHANGED vars
  BY <1>1, <1>10 DEF vars, recorderVars
<1>11. QED
  BY <1>5, <1>6, <1>7, <1>8, <1>9, <1>10 DEF Next

\* However many goroutines record, the file holds no more events than allowed
\* and none from outside the recording time (RecordPacket, record).
THEOREM FileWithinLimits == Spec => []RecordedWithinLimits
<1>1. Init => RecorderInv
  <2> SUFFICES ASSUME Init PROVE RecorderInv
    OBVIOUS
  <2>1. lines = <<>> /\ Len(lines) = 0 /\ lines \in Seq(Nat) /\ ToSet(lines) = {}
    BY EmptySeq DEF Init, RecorderInit, ToSet
  <2>2. sampled \in [Writers -> Seq(Nat)]
    BY EmptySeq DEF Init, RecorderInit
  <2>3. count = 0 /\ now = 0
    BY DEF Init, RecorderInit
  <2>4. QED
    BY <2>1, <2>2, <2>3, RecorderAssumption DEF RecorderInv, RecordedWithinLimits
<1>2. RecorderInv => RecordedWithinLimits
  BY DEF RecorderInv
<1>3. QED
  BY <1>1, <1>2, RecorderInvStep, PTL DEF Spec

-----------------------------------------------------------------------------
(***************************************************************************)
(* Start.  What is open at each of its stages, and why it ends.            *)
(***************************************************************************)
StartTypeOK ==
  /\ main \in {"load", "record", "listen", "go", "select", "shutdown", "closing", "returned"}
  /\ http \in [HTTPServers -> {"off", "starting", "serving", "failing", "shut", "ended", "failed"}]
  /\ errCh \in Nat

OpenAtStage ==
  /\ main \in {"load", "record"} => recorder = "none"
  /\ main = "returned" => recorder # "open"
  /\ main \in {"load", "record", "listen"} => listener = "none"
  /\ main \in {"closing", "returned"} => listener # "open"
  /\ main \in {"load", "record", "listen", "go"} => \A s \in HTTPServers : http[s] = "off"
  /\ main \in {"closing", "returned"} => \A s \in HTTPServers : http[s] \notin {"starting", "serving"}

\* No error is reported without a failure; a failed shutdown replaces the result.
ReasonsAreTrue ==
  /\ errCh > 0 \/ accepting = "failing" \/ result = "error" => failures # {}
  /\ \A s \in HTTPServers : http[s] = "failing" => failures # {}
  /\ result = "nil" => cancelled
  /\ "shutdown" \in failures =>
       main \in {"shutdown", "closing", "returned"} /\ result = "error"

StartInv == StartTypeOK /\ OpenAtStage /\ ReasonsAreTrue

\* Every step of the engine keeps what is open at each stage, and why.
LEMMA StartInvStep == StartInv /\ [Next]_vars => StartInv'
<1> SUFFICES ASSUME StartInv, [Next]_vars PROVE StartInv'
  OBVIOUS
<1> USE DEF StartInv, StartTypeOK, OpenAtStage, ReasonsAreTrue, Fails, Send, recorderVars
<1>1. CASE LoadPlugins
  BY <1>1 DEF LoadPlugins
<1>2. CASE SetupRecorder
  BY <1>2 DEF SetupRecorder, OpenRecorder
<1>3. CASE Listen
  BY <1>3 DEF Listen
<1>4. CASE GoServe
  BY <1>4 DEF GoServe
<1>5. CASE SelectDone \/ SelectError
  BY <1>5 DEF SelectDone, SelectError
<1>6. CASE ShutdownListener
  BY <1>6 DEF ShutdownListener
<1>7. ASSUME NEW s \in HTTPServers, ShutdownHTTP(s) PROVE StartInv'
  BY <1>7 DEF ShutdownHTTP
<1>8. CASE ShutdownEnds
  BY <1>8 DEF ShutdownEnds
<1>9. CASE Return
  BY <1>9 DEF Return, CloseRecorder
<1>10. CASE Cancel
  BY <1>10 DEF Cancel
<1>11. CASE AcceptFails
  BY <1>11 DEF AcceptFails
<1>12. CASE AcceptGoroutine
  BY <1>12 DEF AcceptGoroutine, AcceptReports, AcceptEnds
<1>13. CASE RecordDatagram \/ PassTime
  BY <1>13 DEF RecordDatagram, PassTime, SampleTime, Record, Tick, engineVars, given
<1>14. ASSUME NEW s \in HTTPServers, ServeHTTP(s) PROVE StartInv'
  BY <1>14 DEF ServeHTTP
<1>15. ASSUME NEW s \in HTTPServers, ListenFails(s) PROVE StartInv'
  BY <1>15, EngineAssumption DEF ListenFails
<1>16. CASE UNCHANGED <<engineVars, recorderVars>>
  BY <1>16 DEF engineVars, given
<1>17. ASSUME NEW h \in Handlers, Accept(h) \/ DialTarget(h) \/ SecondEnds(h) PROVE StartInv'
  BY <1>16, <1>17 DEF Accept, DialTarget, SecondEnds
<1>18. ASSUME NEW h \in Handlers, NEW d \in Directions,
              CopyRead(h, d) \/ CopyWrite(h, d) \/ FirstEnds(h, d) \/ Peer(h, d)
       PROVE  StartInv'
  BY <1>16, <1>18 DEF CopyRead, CopyWrite, FirstEnds, Peer
<1>19. CASE UNCHANGED vars
  BY <1>16, <1>19 DEF vars
<1>20. QED
  BY <1>1, <1>2, <1>3, <1>4, <1>5, <1>6, <1>7, <1>8, <1>9, <1>10, <1>11, <1>12, <1>13, <1>14,
     <1>15, <1>17, <1>18, <1>19
  DEF Next, MainStep

\* On whatever path Start returns, it has left no listener, HTTP server or
\* recorder open, and what it returned tells why (Start, shutdown).
THEOREM EngineReleases == Spec => []ReturnsReleased
<1>1. Init => StartInv
  BY DEF Init, RecorderInit, StartInv, StartTypeOK, OpenAtStage, ReasonsAreTrue
<1>2. StartInv => ReturnsReleased
  BY DEF StartInv, OpenAtStage, ReasonsAreTrue, ReturnsReleased
<1>3. QED
  BY <1>1, <1>2, StartInvStep, PTL DEF Spec

-----------------------------------------------------------------------------
(***************************************************************************)
(* The copiers.  What was read is written or held; an end of stream is     *)
(* kept with the bytes that came before it until they are written.         *)
(***************************************************************************)
Copier == [at : {"off", "read", "write", "ended"}, holds : Nat,
           ended : {"none", "eof", "io", "closed", "process"}]
Stream == [sent : Nat, read : Nat, written : Nat, fin : BOOLEAN]

CopierTypeOK ==
  /\ handler \in [Handlers -> {"none", "dialing", "proxying", "awaiting", "done"}]
  /\ copier \in [Handlers -> [Directions -> Copier]]
  /\ stream \in [Handlers -> [Directions -> Stream]]

\* One direction: its copier c and its stream s.
Kept(c, s) ==
  /\ s.written + c.holds <= s.read
  /\ c.at # "ended" \/ c.ended = "eof" => s.written + c.holds = s.read
  /\ c.ended = "eof" => s.fin /\ s.read = s.sent
  /\ c.at # "write" => c.holds = 0
  /\ c.at \in {"off", "read"} => c.ended = "none"

CopierInv ==
  /\ CopierTypeOK
  /\ \A h \in Handlers, d \in Directions :
       /\ Kept(copier[h][d], stream[h][d])
       /\ handler[h] \in {"none", "dialing"} => copier[h][d].at = "off"

\* One copier is changed, and the others are not.
LEMMA OneCopier ==
  ASSUME CopierTypeOK, NEW h \in Handlers, NEW d \in Directions, NEW c \in Copier,
         copier' = [copier EXCEPT ![h][d] = c]
  PROVE  /\ copier' \in [Handlers -> [Directions -> Copier]]
         /\ copier'[h][d] = c
         /\ \A g \in Handlers, e \in Directions : g # h \/ e # d => copier'[g][e] = copier[g][e]
<1>1. copier[h] \in [Directions -> Copier]
  BY DEF CopierTypeOK
<1>2. [copier[h] EXCEPT ![d] = c] \in [Directions -> Copier]
  BY <1>1
<1>3. QED
  BY <1>1, <1>2 DEF CopierTypeOK

\* One stream is changed, and the others are not.
LEMMA OneStream ==
  ASSUME CopierTypeOK, NEW h \in Handlers, NEW d \in Directions, NEW s \in Stream,
         stream' = [stream EXCEPT ![h][d] = s]
  PROVE  /\ stream' \in [Handlers -> [Directions -> Stream]]
         /\ stream'[h][d] = s
         /\ \A g \in Handlers, e \in Directions : g # h \/ e # d => stream'[g][e] = stream[g][e]
<1>1. stream[h] \in [Directions -> Stream]
  BY DEF CopierTypeOK
<1>2. [stream[h] EXCEPT ![d] = s] \in [Directions -> Stream]
  BY <1>1
<1>3. QED
  BY <1>1, <1>2 DEF CopierTypeOK

\* A direction that keeps what it promises, while the others and the handlers stay.
LEMMA OneDirection ==
  ASSUME CopierInv, NEW h \in Handlers, NEW d \in Directions, handler' = handler,
         NEW c \in Copier, copier' = [copier EXCEPT ![h][d] = c],
         NEW s \in Stream, stream' = [stream EXCEPT ![h][d] = s],
         Kept(c, s), copier[h][d].at = "off" => c.at = "off"
  PROVE  CopierInv'
<1>1. CopierTypeOK
  BY DEF CopierInv
<1>2. /\ copier' \in [Handlers -> [Directions -> Copier]]
      /\ copier'[h][d] = c
      /\ \A g \in Handlers, e \in Directions : g # h \/ e # d => copier'[g][e] = copier[g][e]
  BY <1>1, OneCopier, ZenonT(90)
<1>3. /\ stream' \in [Handlers -> [Directions -> Stream]]
      /\ stream'[h][d] = s
      /\ \A g \in Handlers, e \in Directions : g # h \/ e # d => stream'[g][e] = stream[g][e]
  BY <1>1, OneStream, ZenonT(90)
<1>4. CopierTypeOK'
  BY <1>1, <1>2, <1>3 DEF CopierTypeOK
<1>5. ASSUME NEW g \in Handlers, NEW e \in Directions
      PROVE  /\ Kept(copier'[g][e], stream'[g][e])
             /\ handler'[g] \in {"none", "dialing"} => copier'[g][e].at = "off"
  <2>1. CASE g = h /\ e = d
    BY <1>2, <1>3, <2>1 DEF CopierInv
  <2>2. CASE g # h \/ e # d
    BY <1>2, <1>3, <2>2 DEF CopierInv
  <2>3. QED
    BY <2>1, <2>2
<1>6. QED
  BY <1>4, <1>5 DEF CopierInv

\* What a direction's copier and stream are.
LEMMA DirectionOK ==
  ASSUME CopierInv, NEW h \in Handlers, NEW d \in Directions
  PROVE  /\ copier[h][d] \in Copier /\ stream[h][d] \in Stream
         /\ Kept(copier[h][d], stream[h][d])
         /\ copier = [copier EXCEPT ![h][d] = copier[h][d]]
         /\ stream = [stream EXCEPT ![h][d] = stream[h][d]]
<1>1. copier \in [Handlers -> [Directions -> Copier]] /\ stream \in [Handlers -> [Directions -> Stream]]
  BY DEF CopierInv, CopierTypeOK
<1>2. Kept(copier[h][d], stream[h][d])
  BY DEF CopierInv
<1>3. QED
  BY <1>1, <1>2

\* A read keeps what it promises.
LEMMA CopyReadStep ==
  ASSUME CopierInv, NEW h \in Handlers, NEW d \in Directions, CopyRead(h, d) PROVE CopierInv'
<1> DEFINE c == copier[h][d]
           s == stream[h][d]
<1>1. /\ c \in Copier /\ s \in Stream /\ Kept(c, s)
      /\ copier = [copier EXCEPT ![h][d] = c] /\ stream = [stream EXCEPT ![h][d] = s]
  BY DirectionOK
<1>2. c.at = "read" /\ handler' = handler
  BY DEF CopyRead
<1>3. ASSUME NEW n \in 1 .. s.sent - s.read, NEW err \in {"none", "eof"},
             err = "eof" => s.fin /\ s.read + n = s.sent,
             stream' = [stream EXCEPT ![h][d].read = @ + n],
             copier' = [copier EXCEPT ![h][d] = [at |-> "write", holds |-> n, ended |-> err]]
      PROVE  CopierInv'
  <2> DEFINE c2 == [at |-> "write", holds |-> n, ended |-> err]
             s2 == [s EXCEPT !.read = s.read + n]
  <2>1. c2 \in Copier /\ s2 \in Stream
    BY <1>1 DEF Copier, Stream
  <2>2. Kept(c2, s2)
    BY <1>1, <1>2, <1>3 DEF Kept, Copier, Stream
  <2>3. stream' = [stream EXCEPT ![h][d] = s2] /\ copier' = [copier EXCEPT ![h][d] = c2]
    BY <1>3
  <2> HIDE DEF c2, s2
  <2>4. QED
    BY <1>2, <2>1, <2>2, <2>3, OneDirection
<1>4. ASSUME NEW err \in {"eof", "closed", "io"}, err = "eof" => s.fin /\ s.read = s.sent,
             stream' = stream,
             copier' = [copier EXCEPT ![h][d] = [@ EXCEPT !.at = "ended", !.ended = err]]
      PROVE  CopierInv'
  <2> DEFINE c2 == [c EXCEPT !.at = "ended", !.ended = err]
  <2>1. c2 \in Copier
    BY <1>1 DEF Copier
  <2>2. Kept(c2, s)
    BY <1>1, <1>2, <1>4 DEF Kept, Copier, Stream
  <2>3. stream' = [stream EXCEPT ![h][d] = s] /\ copier' = [copier EXCEPT ![h][d] = c2]
    BY <1>1, <1>4
  <2> HIDE DEF c2, c, s
  <2>4. c.at = "read" /\ c = copier[h][d]
    BY <1>2 DEF c
  <2>5. QED
    BY <1>1, <1>2, <2>1, <2>2, <2>3, <2>4, OneDirection
<1>5. \/ \E n \in 1 .. s.sent - s.read : \E err \in {"none"} \cup {e \in {"eof"} : s.fin /\ s.read + n = s.sent} :
           /\ stream' = [stream EXCEPT ![h][d].read = @ + n]
           /\ copier' = [copier EXCEPT ![h][d] = [at |-> "write", holds |-> n, ended |-> err]]
      \/ \E err \in {"eof", "closed", "io"} :
           /\ err = "eof" => s.fin /\ s.read = s.sent
           /\ stream' = stream
           /\ copier' = [copier EXCEPT ![h][d] = [@ EXCEPT !.at = "ended", !.ended = err]]
  BY DEF CopyRead
<1>6. QED
  BY <1>3, <1>4, <1>5

\* A write, or its failure, keeps what it promises.
LEMMA CopyWriteStep ==
  ASSUME CopierInv, NEW h \in Handlers, NEW d \in Directions, CopyWrite(h, d) PROVE CopierInv'
<1> DEFINE c == copier[h][d]
           s == stream[h][d]
<1>1. /\ c \in Copier /\ s \in Stream /\ Kept(c, s)
      /\ copier = [copier EXCEPT ![h][d] = c] /\ stream = [stream EXCEPT ![h][d] = s]
  BY DirectionOK
<1>2. c.at = "write" /\ handler' = handler
  BY DEF CopyWrite
<1>3. CASE Written(h, d)
  <2> DEFINE c2 == [c EXCEPT !.at = IF c.ended = "none" THEN "read" ELSE "ended", !.holds = 0]
             s2 == [s EXCEPT !.written = s.written + c.holds]
  <2>1. c2 \in Copier /\ s2 \in Stream
    <3>1. (IF c.ended = "none" THEN "read" ELSE "ended") \in {"off", "read", "write", "ended"}
      OBVIOUS
    <3>2. s.written + c.holds \in Nat
      BY <1>1 DEF Copier, Stream
    <3>3. c2 \in Copier
      BY <1>1, <3>1 DEF Copier
    <3>4. s2 \in Stream
      BY <1>1, <3>2 DEF Stream
    <3>5. QED
      BY <3>3, <3>4
  <2>2. Kept(c2, s2)
    BY <1>1, <1>2 DEF Kept, Copier, Stream
  <2>3. stream' = [stream EXCEPT ![h][d] = s2] /\ copier' = [copier EXCEPT ![h][d] = c2]
    BY <1>3 DEF Written
  <2> HIDE DEF c2, s2
  <2>4. QED
    BY <1>2, <2>1, <2>2, <2>3, OneDirection
<1>4. ASSUME NEW err \in {"closed", "io", "process"}, stream' = stream,
             copier' = [copier EXCEPT ![h][d] = [at |-> "ended", holds |-> 0, ended |-> err]]
      PROVE  CopierInv'
  <2> DEFINE c2 == [at |-> "ended", holds |-> 0, ended |-> err]
  <2>1. c2 \in Copier
    BY DEF Copier
  <2>2. Kept(c2, s)
    BY <1>1, <1>2 DEF Kept, Copier, Stream
  <2>3. stream' = [stream EXCEPT ![h][d] = s] /\ copier' = [copier EXCEPT ![h][d] = c2]
    BY <1>1, <1>4
  <2> HIDE DEF c2, c, s
  <2>4. c.at = "write" /\ c = copier[h][d]
    BY <1>2 DEF c
  <2>5. QED
    BY <1>1, <1>2, <2>1, <2>2, <2>3, <2>4, OneDirection
<1>5. CASE WriteFails(h, d)
  BY <1>4, <1>5 DEF WriteFails
<1>6. CASE ProcessFails(h, d)
  BY <1>4, <1>6 DEF ProcessFails
<1>7. QED
  BY <1>3, <1>5, <1>6 DEF CopyWrite

\* What a peer does keeps what the copiers promise: nothing comes after its FIN.
LEMMA PeerStep ==
  ASSUME CopierInv, NEW h \in Handlers, NEW d \in Directions, Peer(h, d) PROVE CopierInv'
<1> DEFINE c == copier[h][d]
           s == stream[h][d]
<1>1. /\ c \in Copier /\ s \in Stream /\ Kept(c, s)
      /\ copier = [copier EXCEPT ![h][d] = c] /\ stream = [stream EXCEPT ![h][d] = s]
  BY DirectionOK
<1>2. handler' = handler /\ copier' = copier
  BY DEF Peer
<1>3. ASSUME NEW s2 \in Stream, stream' = [stream EXCEPT ![h][d] = s2], Kept(c, s2) PROVE CopierInv'
  <2> HIDE DEF c
  <2>1. copier' = [copier EXCEPT ![h][d] = c] /\ c \in Copier
    BY <1>1, <1>2
  <2>2. copier[h][d].at = "off" => c.at = "off"
    BY DEF c
  <2>3. QED
    BY <1>2, <1>3, <2>1, <2>2, OneDirection
<1>4. CASE ~ s.fin /\ stream' = [stream EXCEPT ![h][d].sent = @ + 1]
  <2> DEFINE s2 == [s EXCEPT !.sent = s.sent + 1]
  <2>1. s2 \in Stream /\ Kept(c, s2)
    BY <1>1, <1>4 DEF Kept, Copier, Stream
  <2>2. stream' = [stream EXCEPT ![h][d] = s2]
    BY <1>4
  <2> HIDE DEF s2
  <2>3. QED
    BY <1>3, <2>1, <2>2
<1>5. CASE ~ s.fin /\ stream' = [stream EXCEPT ![h][d].fin = TRUE]
  <2> DEFINE s2 == [s EXCEPT !.fin = TRUE]
  <2>1. s2 \in Stream /\ Kept(c, s2)
    BY <1>1, <1>5 DEF Kept, Copier, Stream
  <2>2. stream' = [stream EXCEPT ![h][d] = s2]
    BY <1>5
  <2> HIDE DEF s2
  <2>3. QED
    BY <1>3, <2>1, <2>2
<1>6. CASE stream' = stream
  BY <1>2, <1>6 DEF CopierInv, CopierTypeOK
<1>7. QED
  BY <1>4, <1>5, <1>6 DEF Peer

\* Every step of the engine keeps what the copiers promise.
LEMMA CopierInvStep == CopierInv /\ [Next]_vars => CopierInv'
<1> SUFFICES ASSUME CopierInv, [Next]_vars PROVE CopierInv'
  OBVIOUS
<1>1. CASE UNCHANGED <<handler, copier, stream>>
  BY <1>1 DEF CopierInv, CopierTypeOK
<1>2. ASSUME NEW h \in Handlers, Accept(h) PROVE CopierInv'
  BY <1>2 DEF Accept, CopierInv, CopierTypeOK
<1>3. ASSUME NEW h \in Handlers, SecondEnds(h) PROVE CopierInv'
  BY <1>3 DEF SecondEnds, CopierInv, CopierTypeOK
<1>4. ASSUME NEW h \in Handlers, NEW d \in Directions, FirstEnds(h, d) PROVE CopierInv'
  BY <1>4 DEF FirstEnds, CopierInv, CopierTypeOK
<1>5. ASSUME NEW h \in Handlers, DialTarget(h) PROVE CopierInv'
  <2>1. CASE copier' = copier /\ handler' = [handler EXCEPT ![h] = "done"]
    BY <1>5, <2>1 DEF DialTarget, CopierInv, CopierTypeOK
  <2>2. CASE /\ handler' = [handler EXCEPT ![h] = "proxying"]
             /\ copier' = [copier EXCEPT ![h] = [d \in Directions |-> [NoCopier EXCEPT !.at = "read"]]]
    <3> DEFINE new == [NoCopier EXCEPT !.at = "read"]
    <3>1. new \in Copier /\ new.at = "read" /\ new.holds = 0 /\ new.ended = "none"
      BY DEF Copier, NoCopier
    <3>2. stream' = stream /\ handler[h] = "dialing"
      BY <1>5 DEF DialTarget
    <3> DEFINE started == [d \in Directions |-> new]
    <3>a. copier' = [copier EXCEPT ![h] = started]
      BY <2>2
    <3> HIDE DEF new
    <3>b. started \in [Directions -> Copier] /\ \A d \in Directions : started[d] = new
      BY <3>1
    <3> HIDE DEF started
    <3>3. CopierTypeOK'
      BY <2>2, <3>a, <3>b, <3>2 DEF CopierInv, CopierTypeOK
    <3>4. ASSUME NEW g \in Handlers, NEW e \in Directions
          PROVE  /\ Kept(copier'[g][e], stream'[g][e])
                 /\ handler'[g] \in {"none", "dialing"} => copier'[g][e].at = "off"
      <4>1. CASE g # h
        BY <2>2, <3>2, <4>1 DEF CopierInv, CopierTypeOK
      <4>2. CASE g = h
        <5>1. copier'[g][e] = new /\ handler'[g] = "proxying" /\ stream'[g][e] = stream[g][e]
          BY <2>2, <3>a, <3>b, <3>2, <4>2 DEF CopierInv, CopierTypeOK
        <5>2. copier[g][e].at = "off" /\ Kept(copier[g][e], stream[g][e])
              /\ copier[g][e] \in Copier /\ stream[g][e] \in Stream
          BY <3>2, <4>2, DirectionOK DEF CopierInv
        <5>3. Kept(new, stream[g][e])
          BY <3>1, <5>2 DEF Kept, Copier, Stream
        <5>4. QED
          BY <5>1, <5>3
      <4>3. QED
        BY <4>1, <4>2
    <3>5. QED
      BY <3>3, <3>4 DEF CopierInv
  <2>3. QED
    BY <1>5, <2>1, <2>2 DEF DialTarget
<1>6. ASSUME NEW h \in Handlers, NEW d \in Directions, CopyRead(h, d) \/ CopyWrite(h, d) \/ Peer(h, d)
      PROVE  CopierInv'
  BY <1>6, CopyReadStep, CopyWriteStep, PeerStep
<1>7. CASE MainStep \/ Cancel \/ AcceptFails \/ AcceptGoroutine
  BY <1>1, <1>7
  DEF MainStep, LoadPlugins, SetupRecorder, Listen, GoServe, SelectDone, SelectError,
      ShutdownListener, ShutdownHTTP, ShutdownEnds, Return, Cancel, AcceptFails,
      AcceptGoroutine, AcceptReports, AcceptEnds, handlerVars
<1>8. CASE RecordDatagram \/ PassTime
  BY <1>1, <1>8 DEF RecordDatagram, PassTime, handlerVars
<1>9. ASSUME NEW s \in HTTPServers, ServeHTTP(s) \/ ListenFails(s) PROVE CopierInv'
  BY <1>1, <1>9 DEF ServeHTTP, ListenFails, handlerVars
<1>10. CASE UNCHANGED vars
  BY <1>1, <1>10 DEF vars, handlerVars
<1>11. QED
  BY <1>2, <1>3, <1>4, <1>5, <1>6, <1>7, <1>8, <1>9, <1>10 DEF Next

\* For any plugin and however the peers send, finish and reset, a direction that
\* ends with its sender's end of stream has delivered all (copyBuffered).
THEOREM CleanEndsDeliver == Spec => []CleanEndDelivers
<1>1. Init => CopierInv
  <2> SUFFICES ASSUME Init PROVE CopierInv
    OBVIOUS
  <2>1. NoCopier \in Copier /\ NoBytes \in Stream /\ Kept(NoCopier, NoBytes)
    BY DEF NoCopier, NoBytes, Copier, Stream, Kept
  <2>2. \A h \in Handlers, d \in Directions :
          copier[h][d] = NoCopier /\ stream[h][d] = NoBytes /\ copier[h][d].at = "off"
    BY DEF Init, NoCopier
  <2>3. CopierTypeOK
    BY <2>1 DEF Init, CopierTypeOK
  <2>4. QED
    BY <2>1, <2>2, <2>3 DEF CopierInv
<1>2. CopierInv => CleanEndDelivers
  <2> SUFFICES ASSUME CopierInv, NEW h \in Handlers, NEW d \in Directions
               PROVE  LET s == stream[h][d]
                      IN  /\ s.written + copier[h][d].holds <= s.read
                          /\ copier[h][d].at = "ended" /\ copier[h][d].ended = "eof" =>
                               s.written = s.sent
    BY DEF CleanEndDelivers
  <2>1. /\ copier[h][d] \in Copier /\ stream[h][d] \in Stream
        /\ Kept(copier[h][d], stream[h][d])
    BY DirectionOK
  <2>2. QED
    BY <2>1 DEF Kept, Copier, Stream
<1>3. QED
  BY <1>1, <1>2, CopierInvStep, PTL DEF Spec
=============================================================================

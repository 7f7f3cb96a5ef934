--------------------------- MODULE EngineLifecycle ---------------------------
(***************************************************************************)
(* A run of the engine (internal/engine/engine.go): Start loads the        *)
(* plugins, opens the recorder and the TCP listener, serves TCP and HTTP   *)
(* in goroutines, and shuts down when its context is done or a server      *)
(* fails.  It waits for no TCP handler and no hijacked WebSocket; those    *)
(* record datagrams and copy bytes while, and after, Start returns.        *)
(*                                                                         *)
(* A TCP handler copies both directions of a connection to the default     *)
(* plugin's target; the first copier to end closes both connections.       *)
(* "rx" is client to target, "tx" target to client.                        *)
(***************************************************************************)
EXTENDS UDPRecorder, PluginRules, FiniteSets, FiniteSetsExt

CONSTANTS Handlers,      \* TCP connections
          PluginDisk,    \* the plugin directory
          EnabledLists,  \* the lists of enabled plugins tried
          HTTPServers,   \* those of "data" and "control" that are enabled
          ErrChCap,      \* the capacity of Start's errCh
          MaxBytes       \* bound: bytes sent per direction

ASSUME EngineAssumption ==
  /\ "data" \in HTTPServers /\ HTTPServers \subseteq {"data", "control"}
  /\ ErrChCap \in Nat

VARIABLES
  main,       \* where Start is
  enabled,    \* cfg.Plugins.Enabled
  traffic,    \* bound: what happens beside Start: "tcp" or "udp" traffic, or servers that "fail"
  loaded,     \* Engine.enabledPlugin
  result,     \* what Start returned: "none" yet, "nil" or "error"
  cancelled,  \* ctx.Done
  listener,   \* Engine.tcpListener
  accepting,  \* the accept loop
  http,       \* per server: where its goroutine is
  errCh,      \* how many errors wait in errCh
  failures,   \* history: what went wrong so far
  handler,    \* per connection: its handler
  copier,     \* per connection and direction: its copier, and the bytes it holds
  stream,     \* per connection and direction: bytes sent, read, written, and FIN
  broken,     \* the connections a peer reset
  closed,     \* the connections the handler closed
  firstErr    \* per connection: what the first copier ended with

given == <<enabled, traffic, loaded>>
engineVars == <<main, given, result, cancelled, listener, accepting, http, errCh, failures>>
handlerVars == <<handler, copier, stream, broken, closed, firstErr>>
vars == <<engineVars, handlerVars, recorderVars>>

Directions == {"rx", "tx"}
NoCopier == [at |-> "off", holds |-> 0, ended |-> "none"]
NoBytes == [sent |-> 0, read |-> 0, written |-> 0, fin |-> FALSE]

Init ==
  /\ RecorderInit
  /\ traffic \in {"tcp", "udp", "fail"}
  /\ main = "load" /\ enabled \in EnabledLists /\ loaded = << >>
  /\ result = "none" /\ cancelled = FALSE
  /\ listener = "none" /\ accepting = "off"
  /\ http = [s \in HTTPServers |-> "off"]
  /\ errCh = 0 /\ failures = {}
  /\ handler = [h \in Handlers |-> "none"]
  /\ copier = [h \in Handlers |-> [d \in Directions |-> NoCopier]]
  /\ stream = [h \in Handlers |-> [d \in Directions |-> NoBytes]]
  /\ broken = {} /\ closed = {}
  /\ firstErr = [h \in Handlers |-> "none"]

-----------------------------------------------------------------------------
(***************************************************************************)
(* Start, up to its select.                                                *)
(***************************************************************************)
Fails(what) == result' = "error" /\ failures' = failures \cup {what}

LoadPlugins ==
  /\ main = "load"
  /\ loaded' = LoadEnabled(PluginDisk, enabled)
  /\ IF Loads(PluginDisk, enabled)
     THEN main' = "record" /\ UNCHANGED <<result, failures>>
     ELSE main' = "returned" /\ Fails("load")
  /\ UNCHANGED <<enabled, traffic, cancelled, listener, accepting, http, errCh, handlerVars,
                 recorderVars>>

SetupRecorder ==
  /\ main = "record"
  /\ \/ /\ OpenRecorder
        /\ main' = "listen" /\ UNCHANGED <<result, failures>>
     \/ /\ Enabled
        /\ main' = "returned" /\ Fails("recorder")
        /\ UNCHANGED recorderVars
  /\ UNCHANGED <<given, cancelled, listener, accepting, http, errCh, handlerVars>>

Listen ==
  /\ main = "listen"
  /\ \/ listener' = "open" /\ main' = "go" /\ UNCHANGED <<result, failures>>
     \/ listener' = "none" /\ main' = "closing" /\ Fails("listen")
  /\ UNCHANGED <<given, cancelled, accepting, http, errCh, handlerVars, recorderVars>>

GoServe ==
  /\ main = "go"
  /\ accepting' = "on"
  /\ http' = [s \in HTTPServers |-> "starting"]
  /\ main' = "select"
  /\ UNCHANGED <<given, result, cancelled, listener, errCh, failures, handlerVars,
                 recorderVars>>

Cancel ==
  /\ ~ cancelled
  /\ cancelled' = TRUE
  /\ UNCHANGED <<main, given, result, listener, accepting, http, errCh, failures,
                 handlerVars, recorderVars>>

(***************************************************************************)
(* The select and the shutdown: the listener, then each HTTP server in     *)
(* turn, all within five seconds.  An HTTP shutdown that runs out of time  *)
(* leaves its server closed to new requests all the same.                  *)
(***************************************************************************)
SelectDone ==
  /\ main = "select" /\ cancelled
  /\ main' = "shutdown" /\ result' = "nil"
  /\ UNCHANGED <<given, errCh, cancelled, listener, accepting, http, failures,
                 handlerVars, recorderVars>>

SelectError ==
  /\ main = "select" /\ errCh > 0
  /\ main' = "shutdown" /\ result' = "error" /\ errCh' = errCh - 1
  /\ UNCHANGED <<given, cancelled, listener, accepting, http, failures,
                 handlerVars, recorderVars>>

ShutdownListener ==
  /\ main = "shutdown" /\ listener = "open"
  /\ listener' = "closed"
  /\ UNCHANGED <<main, given, result, cancelled, accepting, http, errCh, failures,
                 handlerVars, recorderVars>>

ShutdownOrder(s) == s = "control" => \A t \in HTTPServers \ {s} : http[t] \in {"shut", "ended", "failed"}

ShutdownHTTP(s) ==
  /\ main = "shutdown" /\ listener # "open"
  /\ http[s] \in {"starting", "serving"} /\ ShutdownOrder(s)
  /\ http' = [http EXCEPT ![s] = "shut"]
  /\ \/ UNCHANGED <<result, failures>>
     \/ Fails("shutdown")
  /\ UNCHANGED <<main, given, cancelled, listener, accepting, errCh, handlerVars,
                 recorderVars>>

\* Mutant: the shutdown does not wait for the HTTP servers.
MutantShutdownEnds ==
  /\ main = "shutdown" /\ listener # "open"
  /\ main' = "closing"
  /\ UNCHANGED <<given, result, cancelled, listener, accepting, http, errCh,
                 failures, handlerVars, recorderVars>>

ShutdownEnds ==
  /\ main = "shutdown" /\ listener # "open"
  /\ \A s \in HTTPServers : http[s] \notin {"starting", "serving"}
  /\ main' = "closing"
  /\ UNCHANGED <<given, result, cancelled, listener, accepting, http, errCh,
                 failures, handlerVars, recorderVars>>

Return ==
  /\ main = "closing"
  /\ CloseRecorder
  /\ main' = "returned"
  /\ UNCHANGED <<given, result, cancelled, listener, accepting, http, errCh,
                 failures, handlerVars>>

-----------------------------------------------------------------------------
(***************************************************************************)
(* The accept loop.  An error while the context is live is sent to errCh.  *)
(***************************************************************************)
\* Mutant: there is room for one error.
MutantOneError == errCh < 1 /\ errCh' = errCh + 1

Send == errCh < ErrChCap /\ errCh' = errCh + 1

Accept(h) ==
  /\ accepting = "on" /\ listener = "open"
  /\ handler[h] = "none" /\ traffic = "tcp"
  /\ handler' = [handler EXCEPT ![h] = "dialing"]
  /\ UNCHANGED <<engineVars, copier, stream, broken, closed, firstErr, recorderVars>>

AcceptFails ==
  /\ traffic = "fail"
  /\ accepting = "on" /\ listener = "open"
  /\ accepting' = IF cancelled THEN "ended" ELSE "failing"
  /\ failures' = IF cancelled THEN failures ELSE failures \cup {"accept"}
  /\ UNCHANGED <<main, given, result, cancelled, listener, http, errCh, handlerVars,
                 recorderVars>>

AcceptReports ==
  /\ accepting = "failing" /\ Send
  /\ accepting' = "ended"
  /\ UNCHANGED <<main, given, result, cancelled, listener, http, failures,
                 handlerVars, recorderVars>>

AcceptEnds ==
  /\ accepting = "on" /\ listener = "closed"
  /\ accepting' = "ended"
  /\ UNCHANGED <<main, given, result, cancelled, listener, http, errCh, failures,
                 handlerVars, recorderVars>>

(***************************************************************************)
(* serveHTTP.  A server that was shut down, even before it listened, ends  *)
(* silently.                                                               *)
(***************************************************************************)
ListenFails(s) ==
  /\ traffic = "fail"
  /\ http[s] \in {"starting", "serving"}
  /\ http' = [http EXCEPT ![s] = "failing"]
  /\ failures' = failures \cup {s}
  /\ UNCHANGED <<main, given, result, cancelled, listener, accepting, errCh,
                 handlerVars, recorderVars>>

ServeHTTP(s) ==
  /\ \/ http[s] = "starting" /\ http' = [http EXCEPT ![s] = "serving"] /\ UNCHANGED errCh
     \/ http[s] = "failing" /\ Send /\ http' = [http EXCEPT ![s] = "failed"]
     \/ http[s] = "shut" /\ http' = [http EXCEPT ![s] = "ended"] /\ UNCHANGED errCh
  /\ UNCHANGED <<main, given, result, cancelled, listener, accepting, failures,
                 handlerVars, recorderVars>>

-----------------------------------------------------------------------------
(***************************************************************************)
(* handleTCPConnection.                                                    *)
(***************************************************************************)
Default == loaded[DefaultName(enabled)]

DialTarget(h) ==
  /\ handler[h] = "dialing"
  /\ \/ /\ handler' = [handler EXCEPT ![h] = "proxying"]
        /\ copier' = [copier EXCEPT ![h] = [d \in Directions |-> [NoCopier EXCEPT !.at = "read"]]]
        /\ UNCHANGED closed
     \/ /\ handler' = [handler EXCEPT ![h] = "done"]
        /\ closed' = closed \cup {h}
        /\ UNCHANGED copier
  /\ UNCHANGED <<stream, broken, firstErr, engineVars, recorderVars>>

(***************************************************************************)
(* copyBuffered: what was read is processed and written before the error   *)
(* that came with it ends the copier.                                      *)
(***************************************************************************)
CopyRead(h, d) ==
  LET s == stream[h][d]
  IN  /\ copier[h][d].at = "read"
      /\ \/ /\ h \notin closed \cup broken
            /\ \E n \in 1 .. s.sent - s.read :
                 /\ stream' = [stream EXCEPT ![h][d].read = @ + n]
                 /\ \E err \in {"none"} \cup {e \in {"eof"} : s.fin /\ s.read + n = s.sent} :
                      copier' = [copier EXCEPT ![h][d] = [at |-> "write", holds |-> n, ended |-> err]]
         \/ /\ h \notin closed \cup broken
            /\ s.fin /\ s.read = s.sent
            /\ copier' = [copier EXCEPT ![h][d] = [@ EXCEPT !.at = "ended", !.ended = "eof"]]
            /\ UNCHANGED stream
         \/ /\ h \in closed \cup broken
            /\ copier' = [copier EXCEPT ![h][d] =
                            [@ EXCEPT !.at = "ended",
                                      !.ended = IF h \in closed THEN "closed" ELSE "io"]]
            /\ UNCHANGED stream
      /\ UNCHANGED <<handler, broken, closed, firstErr, engineVars, recorderVars>>

\* Mutant: the error that came with the bytes is looked at before the bytes.
MutantErrorFirst(h, d) ==
  /\ h \notin closed \cup broken
  /\ stream' = [stream EXCEPT ![h][d].written =
                   @ + IF copier[h][d].ended = "none" THEN copier[h][d].holds ELSE 0]
  /\ copier' = [copier EXCEPT ![h][d] =
                  [@ EXCEPT !.at = IF copier[h][d].ended = "none" THEN "read" ELSE "ended",
                            !.holds = 0]]

Written(h, d) ==
  /\ h \notin closed \cup broken
  /\ stream' = [stream EXCEPT ![h][d].written = @ + copier[h][d].holds]
  /\ copier' = [copier EXCEPT ![h][d] =
                  [@ EXCEPT !.at = IF copier[h][d].ended = "none" THEN "read" ELSE "ended",
                            !.holds = 0]]

WriteFails(h, d) ==
  /\ copier' = [copier EXCEPT ![h][d] =
                  [at |-> "ended", holds |-> 0,
                   ended |-> IF h \in closed THEN "closed" ELSE "io"]]
  /\ UNCHANGED stream

Rejected(d) ==
  /\ ~ Passthrough(Default)
  /\ ~ (IF d = "rx" THEN ProcessClientData(Default, Plain)
                    ELSE ProcessServerData(Default, Plain)).ok

ProcessFails(h, d) ==
  /\ copier' = [copier EXCEPT ![h][d] = [at |-> "ended", holds |-> 0, ended |-> "process"]]
  /\ UNCHANGED stream

CopyWrite(h, d) ==
  /\ copier[h][d].at = "write"
  /\ \/ Rejected(d) /\ ProcessFails(h, d)
     \/ ~ Rejected(d) /\ Written(h, d)
     \/ ~ Rejected(d) /\ h \in closed \cup broken /\ WriteFails(h, d)
  /\ UNCHANGED <<handler, broken, closed, firstErr, engineVars, recorderVars>>

(***************************************************************************)
(* The first copier to end closes both connections; the handler returns    *)
(* when the other has ended too.                                           *)
(***************************************************************************)
\* Mutant: the connections are closed when both copiers have ended.
MutantEndsOpen(h, d) ==
  /\ handler[h] = "proxying" /\ copier[h][d].at = "ended"
  /\ firstErr' = [firstErr EXCEPT ![h] = copier[h][d].ended]
  /\ handler' = [handler EXCEPT ![h] = "awaiting"]
  /\ UNCHANGED <<copier, stream, broken, closed, engineVars, recorderVars>>

FirstEnds(h, d) ==
  /\ handler[h] = "proxying" /\ copier[h][d].at = "ended"
  /\ firstErr' = [firstErr EXCEPT ![h] = copier[h][d].ended]
  /\ closed' = closed \cup {h}
  /\ handler' = [handler EXCEPT ![h] = "awaiting"]
  /\ UNCHANGED <<copier, stream, broken, engineVars, recorderVars>>

SecondEnds(h) ==
  /\ handler[h] = "awaiting"
  /\ \A d \in Directions : copier[h][d].at = "ended"
  /\ handler' = [handler EXCEPT ![h] = "done"]
  /\ UNCHANGED <<copier, stream, broken, closed, firstErr, engineVars, recorderVars>>

(***************************************************************************)
(* The client and the target send, finish and reset as they like.          *)
(***************************************************************************)
Peer(h, d) ==
  /\ handler[h] \in {"dialing", "proxying", "awaiting"}
  /\ \/ /\ stream[h][d].sent < MaxBytes /\ ~ stream[h][d].fin
        /\ stream' = [stream EXCEPT ![h][d].sent = @ + 1] /\ UNCHANGED broken
     \/ /\ ~ stream[h][d].fin
        /\ stream' = [stream EXCEPT ![h][d].fin = TRUE] /\ UNCHANGED broken
     \/ /\ h \notin broken
        /\ broken' = broken \cup {h} /\ UNCHANGED stream
  /\ UNCHANGED <<handler, copier, closed, firstErr, engineVars, recorderVars>>

(***************************************************************************)
(* Hijacked WebSocket sessions, started while the data server serves and   *)
(* ended by no one here, record their datagrams.                           *)
(***************************************************************************)
RecordDatagram ==
  /\ traffic = "udp"
  /\ \E w \in Writers :
       \/ SampleTime(w) /\ (datagrams[w] > 0 \/ http["data"] = "serving")
       \/ Record(w)
  /\ UNCHANGED <<engineVars, handlerVars>>

PassTime ==
  /\ traffic = "udp"
  /\ Tick
  /\ UNCHANGED <<engineVars, handlerVars>>

-----------------------------------------------------------------------------
MainStep ==
  \/ LoadPlugins \/ SetupRecorder \/ Listen \/ GoServe \/ SelectDone \/ SelectError
  \/ ShutdownListener \/ (\E s \in HTTPServers : ShutdownHTTP(s)) \/ ShutdownEnds \/ Return

AcceptGoroutine == AcceptReports \/ AcceptEnds

Next ==
  \/ MainStep \/ Cancel \/ AcceptFails \/ AcceptGoroutine \/ RecordDatagram \/ PassTime
  \/ \E s \in HTTPServers : ServeHTTP(s) \/ ListenFails(s)
  \/ \E h \in Handlers :
       \/ Accept(h) \/ DialTarget(h) \/ SecondEnds(h)
       \/ \E d \in Directions : CopyRead(h, d) \/ CopyWrite(h, d) \/ FirstEnds(h, d) \/ Peer(h, d)

(***************************************************************************)
(* Goroutines run.  A write to a peer that does not read may block for     *)
(* ever, so a copier is only sure to get on once its connection is closed. *)
(***************************************************************************)
Fairness ==
  /\ WF_vars(MainStep) /\ WF_vars(AcceptGoroutine)
  /\ \A s \in HTTPServers : WF_vars(ServeHTTP(s))
  /\ \A h \in Handlers :
       /\ WF_vars(SecondEnds(h))
       /\ \A d \in Directions :
            /\ WF_vars(FirstEnds(h, d)) /\ WF_vars(CopyRead(h, d))
            /\ WF_vars(h \in closed /\ CopyWrite(h, d))

Spec == Init /\ [][Next]_vars /\ Fairness

-----------------------------------------------------------------------------
(***************************************************************************)
(* When Start has returned, on whatever path, it has left nothing open: no *)
(* listener, no serving HTTP server, no recorder.  What it returned tells  *)
(* whether anything went wrong: nil only to a cancelled context.           *)
(***************************************************************************)
ReturnsReleased ==
  main = "returned" =>
    /\ listener # "open" /\ recorder # "open"
    /\ \A s \in HTTPServers : http[s] \notin {"starting", "serving"}
    /\ result = "nil" => cancelled /\ "shutdown" \notin failures
    /\ result = "error" => failures # {}

(***************************************************************************)
(* engine_regression_test.go:33.  When a direction is the first to end,    *)
(* and by end of stream, everything its sender sent was written to the     *)
(* other side; bytes are never written twice nor before they are read.     *)
(***************************************************************************)
CleanEndDelivers ==
  \A h \in Handlers, d \in Directions :
    LET s == stream[h][d]
    IN  /\ s.written + copier[h][d].holds <= s.read
        /\ copier[h][d].at = "ended" /\ copier[h][d].ended = "eof" => s.written = s.sent

(***************************************************************************)
(* A cancelled or failed Start returns, and none of its own goroutines is  *)
(* left behind, whoever was the first to fail.                             *)
(***************************************************************************)
EngineStops ==
  (cancelled \/ failures # {}) ~>
    /\ main = "returned"
    /\ accepting \in {"off", "ended"}
    /\ \A s \in HTTPServers : http[s] \in {"off", "ended", "failed"}

(***************************************************************************)
(* A handler ends once either of its directions has, even when the other   *)
(* peer neither reads nor sends.                                           *)
(***************************************************************************)
HandlerEnds ==
  \A h \in Handlers :
    (\E d \in Directions : copier[h][d].at = "ended") ~> handler[h] = "done"
=============================================================================

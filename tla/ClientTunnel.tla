---------------------------- MODULE ClientTunnel ----------------------------
(***************************************************************************)
(* The client from its preflight to the return of Tunnel.Start             *)
(* (cmd/client, internal/client/tunnel.go): the TCP accept loop with one   *)
(* handler per local connection and its two-way pump, the group of UDP     *)
(* listeners, and the retried WebSocket dial both share.                   *)
(*                                                                         *)
(* A worker is a TCP handler or a UDP listener.  What a UDP listener does  *)
(* with its sessions is UDPSessionTable; here it only binds, dials for a   *)
(* new source and ends.  Times are delays compared with each other.        *)
(***************************************************************************)
EXTENDS Naturals, Sequences

CONSTANTS
  Workers,           \* the local connections, or the configured UDP listeners
  Networks,          \* listen_network: "tcp", "udp"
  ConnectRetries,    \* connect_retries
  InitialDelays,     \* retry_initial_delay, in units of the 100 ms default
  MaxDelay,          \* retry_max_delay
  Pings,             \* ws_ping_interval > 0
  MaxDials           \* bound: dials of one worker

ASSUME RetriesAssumption == ConnectRetries \in Nat
ASSUME DelaysAssumption  == InitialDelays \subseteq Nat /\ MaxDelay \in Nat
ASSUME DialsAssumption   == MaxDials \in Nat \ {0}
ASSUME NetworkAssumption == Networks \subseteq {"tcp", "udp"}

VARIABLES
  network, initial,  \* what the configuration says
  cancelled,         \* Ctrl+C: the context of Start
  groupDone,         \* childCtx of the UDP group is cancelled
  main, result,      \* Start and what it returns
  recorder,          \* the UDP recorder
  socket,            \* the listening socket of Start (tcp) or of a worker (udp)
  errCh,             \* results the UDP listeners have sent and Start has not read
  failedAt,          \* a listener returned an error (history)
  worker,            \* where each worker is
  dial,              \* the dial a worker is in
  conn,              \* both connections of a TCP handler
  pump,              \* its goroutines
  pumpErr            \* the errors in its errCh

mainVars == <<network, initial, cancelled, groupDone, main, result, recorder, errCh, failedAt>>
pumpVars == <<conn, pump, pumpErr>>
vars == <<mainVars, socket, worker, dial, pumpVars>>

Ends       == {"local", "ws"}
Copiers    == {"up", "down"}          \* local to websocket, websocket to local
Goroutines == Copiers \cup {"ping"}
NoDial == [state |-> "none", attempt |-> 0, delay |-> 0, live |-> FALSE, dials |-> 0, late |-> 0]

Init ==
  /\ network \in Networks /\ initial \in InitialDelays
  /\ cancelled = FALSE /\ groupDone = FALSE
  /\ main = "preflight" /\ result = "none" /\ recorder = "none"
  /\ socket = [w \in Workers |-> "none"]
  /\ errCh = <<>> /\ failedAt = {}
  /\ worker = [w \in Workers |-> "none"]
  /\ dial = [w \in Workers |-> NoDial]
  /\ conn = [w \in Workers |-> [e \in Ends |-> "none"]]
  /\ pump = [w \in Workers |-> [g \in Goroutines |-> "none"]]
  /\ pumpErr = [w \in Workers |-> 0]

-----------------------------------------------------------------------------
(***************************************************************************)
(* main: the preflight asks the server who it is, and any doubt ends the   *)
(* client before it listens.                                               *)
(***************************************************************************)
Returns(r) == main' = "returned" /\ result' = r

Preflight ==
  /\ main = "preflight"
  /\ \/ main' = network /\ result' = result
     \/ Returns("error")
  /\ UNCHANGED <<network, initial, cancelled, groupDone, recorder, errCh, failedAt,
                 socket, worker, dial, pumpVars>>

Cancel ==
  /\ main # "preflight" /\ ~ cancelled
  /\ cancelled' = TRUE /\ groupDone' = TRUE
  /\ UNCHANGED <<network, initial, main, result, recorder, errCh, failedAt,
                 socket, worker, dial, pumpVars>>

(***************************************************************************)
(* startTCP.  All workers share the one listening socket.                  *)
(***************************************************************************)
ListenTCP ==
  /\ main = "tcp"
  /\ \/ /\ main' = "accept" /\ result' = result
        /\ socket' = [w \in Workers |-> "open"]
     \/ Returns("error") /\ UNCHANGED socket
  /\ UNCHANGED <<network, initial, cancelled, groupDone, recorder, errCh, failedAt,
                 worker, dial, pumpVars>>

CloseTCP ==
  /\ network = "tcp" /\ cancelled
  /\ \E w \in Workers : socket[w] = "open"
  /\ socket' = [w \in Workers |-> "closed"]
  /\ UNCHANGED <<mainVars, worker, dial, pumpVars>>

AcceptEnds ==
  /\ main = "accept" /\ \E w \in Workers : socket[w] = "closed"
  /\ Returns("nil")
  /\ UNCHANGED <<network, initial, cancelled, groupDone, recorder, errCh, failedAt,
                 socket, worker, dial, pumpVars>>

(***************************************************************************)
(* startUDP: the recorder, the group, the first result and the others.     *)
(***************************************************************************)
SetupUDP ==
  /\ main = "udp"
  /\ \/ /\ main' = "first" /\ result' = result
        /\ recorder' = "open"
        /\ worker' = [w \in Workers |-> "binding"]
     \/ Returns("error") /\ UNCHANGED <<recorder, worker>>
  /\ UNCHANGED <<network, initial, cancelled, groupDone, errCh, failedAt,
                 socket, dial, pumpVars>>

FirstResult ==
  /\ main = "first" /\ errCh # <<>>
  /\ result' = Head(errCh) /\ errCh' = Tail(errCh)
  /\ groupDone' = TRUE
  /\ main' = "drain"
  /\ UNCHANGED <<network, initial, cancelled, recorder, failedAt, socket, worker, dial, pumpVars>>

Returned == {w \in Workers : worker[w] = "returned"}
MutantHeardOne == Returned # {} /\ errCh = <<>>
AllHeard == Returned = Workers /\ errCh = <<>>

MutantLastResult(r) == r
AfterFirst(r) == result      \* the other results are only awaited

OtherResult ==
  /\ main = "drain" /\ errCh # <<>>
  /\ result' = AfterFirst(Head(errCh)) /\ errCh' = Tail(errCh)
  /\ UNCHANGED <<network, initial, cancelled, groupDone, main, recorder, failedAt,
                 socket, worker, dial, pumpVars>>

GroupEnds ==
  /\ main = "drain" /\ AllHeard
  /\ main' = "returned" /\ recorder' = "closed"
  /\ UNCHANGED <<network, initial, cancelled, groupDone, result, errCh, failedAt,
                 socket, worker, dial, pumpVars>>

-----------------------------------------------------------------------------
(***************************************************************************)
(* The dial (dialWebSocketWithRetry).  dial.live says the context was not  *)
(* done when the handshake began: with a context that is, DialContext      *)
(* fails.  late counts the handshakes begun after the cancellation.        *)
(***************************************************************************)
ContextDone == IF network = "tcp" THEN cancelled ELSE groupDone
Max2(a, b) == IF a > b THEN a ELSE b
Min2(a, b) == IF a < b THEN a ELSE b
FirstDelay == Max2(initial, 1)
LongestDelay == Max2(MaxDelay, FirstDelay)

Handshake(d, attempt, delay) ==
  [state |-> "handshake", attempt |-> attempt, delay |-> delay, live |-> ~ ContextDone,
   dials |-> IF attempt = 1 THEN d.dials + 1 ELSE d.dials,
   late |-> IF ContextDone THEN d.late + 1 ELSE d.late]
Over(d) == [d EXCEPT !.state = "none", !.live = FALSE]
StartDial(w) == dial' = [dial EXCEPT ![w] = Handshake([@ EXCEPT !.late = 0], 1, FirstDelay)]
DialOver(w) == dial' = [dial EXCEPT ![w] = Over(@)]

\* 401 and 403 are final: the same token would be refused again.
MutantRetriedDone(d, answer) == answer # "refused" /\ d.attempt < ConnectRetries + 1
Retried(d, answer) == answer # "refused" /\ d.attempt < ConnectRetries + 1 /\ ~ ContextDone

AfterFailure(w) == IF network = "udp" THEN "serving" ELSE "ended"
CloseLocal(w) == conn' = [conn EXCEPT ![w].local = IF network = "tcp" THEN "closed" ELSE @]

DialFails(w) ==
  /\ dial[w].state = "handshake"
  /\ \E answer \in {"none", "refused", "error"} :
       IF Retried(dial[w], answer)
       THEN /\ dial' = [dial EXCEPT ![w].state = "waiting"]
            /\ UNCHANGED <<worker, conn>>
       ELSE /\ DialOver(w) /\ CloseLocal(w)
            /\ worker' = [worker EXCEPT ![w] = AfterFailure(w)]
  /\ UNCHANGED <<mainVars, socket, pump, pumpErr>>

\* Both cases of the select may be ready: Go picks either.
DelayOver(w) ==
  /\ dial[w].state = "waiting"
  /\ dial' = [dial EXCEPT ![w] =
                Handshake(@, @.attempt + 1, Min2(@.delay * 2, LongestDelay))]
  /\ UNCHANGED <<mainVars, socket, worker, pumpVars>>

DelayCancelled(w) ==
  /\ dial[w].state = "waiting" /\ ContextDone
  /\ DialOver(w) /\ CloseLocal(w)
  /\ worker' = [worker EXCEPT ![w] = AfterFailure(w)]
  /\ UNCHANGED <<mainVars, socket, pump, pumpErr>>

DialOkTCP(w) ==
  /\ network = "tcp" /\ dial[w].state = "handshake" /\ dial[w].live
  /\ DialOver(w)
  /\ worker' = [worker EXCEPT ![w] = "pumping"]
  /\ conn' = [conn EXCEPT ![w].ws = "open"]
  /\ pump' = [pump EXCEPT ![w] = [g \in Goroutines |->
                 IF g = "ping" /\ ~ Pings THEN "ended" ELSE "on"]]
  /\ UNCHANGED <<mainVars, socket, pumpErr>>

DialOkUDP(w) ==
  /\ network = "udp" /\ dial[w].state = "handshake" /\ dial[w].live
  /\ DialOver(w)
  /\ worker' = [worker EXCEPT ![w] = "serving"]
  /\ UNCHANGED <<mainVars, socket, pumpVars>>

-----------------------------------------------------------------------------
(***************************************************************************)
(* A UDP listener: its read loop dials for each new source, and ends when  *)
(* the goroutine that waits for the context has closed its socket.         *)
(***************************************************************************)
SendResult(r) == errCh' = Append(errCh, r)

Bind(w) ==
  /\ worker[w] = "binding"
  /\ \/ /\ worker' = [worker EXCEPT ![w] = "serving"]
        /\ socket' = [socket EXCEPT ![w] = "open"]
        /\ UNCHANGED <<errCh, failedAt>>
     \/ /\ worker' = [worker EXCEPT ![w] = "returned"]
        /\ SendResult("error") /\ failedAt' = failedAt \cup {w}
        /\ UNCHANGED socket
  /\ UNCHANGED <<network, initial, cancelled, groupDone, main, result, recorder, dial, pumpVars>>

MutantRootOnly == cancelled
GroupCancelled == groupDone
CloseUDP(w) ==
  /\ network = "udp" /\ GroupCancelled /\ socket[w] = "open"
  /\ socket' = [socket EXCEPT ![w] = "closed"]
  /\ UNCHANGED <<mainVars, worker, dial, pumpVars>>

NewSource(w) ==
  /\ worker[w] = "serving" /\ socket[w] = "open" /\ dial[w].dials < MaxDials
  /\ worker' = [worker EXCEPT ![w] = "dialing"]
  /\ StartDial(w)
  /\ UNCHANGED <<mainVars, socket, pumpVars>>

ListenerEnds(w) ==
  /\ worker[w] = "serving" /\ socket[w] = "closed"
  /\ worker' = [worker EXCEPT ![w] = "returned"]
  /\ SendResult("nil")
  /\ UNCHANGED <<network, initial, cancelled, groupDone, main, result, recorder, failedAt,
                 socket, dial, pumpVars>>

-----------------------------------------------------------------------------
(***************************************************************************)
(* A TCP handler and its pump.  A write to the local application has no    *)
(* deadline: while the application does not read, the copier "down" is     *)
(* stuck in it and notices nothing else.                                   *)
(***************************************************************************)
Accept(w) ==
  /\ main = "accept" /\ socket[w] = "open" /\ worker[w] = "none"
  /\ worker' = [worker EXCEPT ![w] = "dialing"]
  /\ conn' = [conn EXCEPT ![w].local = "open"]
  /\ StartDial(w)
  /\ UNCHANGED <<mainVars, socket, pump, pumpErr>>

Break(w, e) ==
  /\ worker[w] = "pumping" /\ conn[w][e] = "open"
  /\ conn' = [conn EXCEPT ![w][e] = "broken"]
  /\ UNCHANGED <<mainVars, socket, worker, dial, pump, pumpErr>>

Stall(w) ==
  /\ pump[w]["down"] = "on" /\ conn[w].local = "open"
  /\ pump' = [pump EXCEPT ![w]["down"] = "stuck"]
  /\ UNCHANGED <<mainVars, socket, worker, dial, conn, pumpErr>>

Resume(w) ==
  /\ pump[w]["down"] = "stuck" /\ conn[w].local = "open"
  /\ pump' = [pump EXCEPT ![w]["down"] = "on"]
  /\ UNCHANGED <<mainVars, socket, worker, dial, conn, pumpErr>>

\* "up" reads the local connection and writes the other only when it has data.
Gone(w, e) == conn[w][e] \in {"broken", "closed"}
Notices(w, c) == \/ pump[w][c] = "on"    /\ \E e \in Ends : Gone(w, e)
                 \/ pump[w][c] = "stuck" /\ Gone(w, "local")
MustNotice(w, c) == \/ c = "up"   /\ Gone(w, "local")
                    \/ c = "down" /\ Gone(w, IF pump[w][c] = "stuck" THEN "local" ELSE "ws")

ErrChCap == 3
CopierFails(w, c) ==
  /\ Notices(w, c) /\ pumpErr[w] < ErrChCap
  /\ pumpErr' = [pumpErr EXCEPT ![w] = @ + 1]
  /\ pump' = [pump EXCEPT ![w][c] = "ended"]
  /\ UNCHANGED <<mainVars, socket, worker, dial, conn>>

MutantUnreported(n) == n
Reported(n) == n + 1

PingFails(w) ==
  /\ pump[w]["ping"] = "on" /\ Gone(w, "ws")
  /\ pumpErr' = [pumpErr EXCEPT ![w] = IF @ < ErrChCap THEN Reported(@) ELSE @]
  /\ pump' = [pump EXCEPT ![w]["ping"] = "ended"]
  /\ UNCHANGED <<mainVars, socket, worker, dial, conn>>

PingStops(w) ==
  /\ pump[w]["ping"] = "on" /\ worker[w] \in {"awaiting", "ended"}
  /\ pump' = [pump EXCEPT ![w]["ping"] = "ended"]
  /\ UNCHANGED <<mainVars, socket, worker, dial, conn, pumpErr>>

BothClosed(w) == [e \in Ends |-> "closed"]

FirstError(w) ==
  /\ worker[w] = "pumping" /\ pumpErr[w] > 0
  /\ pumpErr' = [pumpErr EXCEPT ![w] = @ - 1]
  /\ conn' = [conn EXCEPT ![w] = BothClosed(w)]
  /\ worker' = [worker EXCEPT ![w] = "awaiting"]
  /\ UNCHANGED <<mainVars, socket, dial, pump>>

SecondError(w) ==
  /\ worker[w] = "awaiting" /\ pumpErr[w] > 0
  /\ pumpErr' = [pumpErr EXCEPT ![w] = @ - 1]
  /\ worker' = [worker EXCEPT ![w] = "ended"]
  /\ UNCHANGED <<mainVars, socket, dial, conn, pump>>

-----------------------------------------------------------------------------
Dialing(w) == DialFails(w) \/ DelayOver(w) \/ DelayCancelled(w) \/ DialOkTCP(w) \/ DialOkUDP(w)
Listener(w) == Bind(w) \/ CloseUDP(w) \/ NewSource(w) \/ ListenerEnds(w)
Pump(w) ==
  \/ \E c \in Copiers : CopierFails(w, c)
  \/ PingFails(w) \/ PingStops(w) \/ FirstError(w) \/ SecondError(w)
Environment(w) == Stall(w) \/ Resume(w) \/ \E e \in Ends : Break(w, e)
Start == Preflight \/ ListenTCP \/ AcceptEnds \/ SetupUDP \/ FirstResult \/ OtherResult \/ GroupEnds

Next ==
  \/ Start \/ Cancel \/ CloseTCP
  \/ \E w \in Workers :
       Dialing(w) \/ Listener(w) \/ Accept(w) \/ Pump(w) \/ Environment(w)

Spec == Init /\ [][Next]_vars

\* The steps of a worker's own goroutine, and those of its pinger.
WorkerStep(w) ==
  \/ Dialing(w) \/ Bind(w) \/ ListenerEnds(w) \/ FirstError(w) \/ SecondError(w)
PingStep(w) == PingFails(w) \/ PingStops(w)

\* The goroutines run; a handshake ends (handshake_timeout) and so does a delay.
\* Nothing is assumed of the user, the peers or the local application, except
\* that a read of a dead connection fails, and that a ping is sent in turn.
Fairness ==
  /\ WF_vars(Start) /\ WF_vars(CloseTCP)
  /\ \A w \in Workers :
       /\ WF_vars(WorkerStep(w)) /\ WF_vars(PingStep(w)) /\ WF_vars(CloseUDP(w))
       /\ \A c \in Copiers : WF_vars(MustNotice(w, c) /\ CopierFails(w, c))
FairSpec == Spec /\ Fairness

-----------------------------------------------------------------------------
(***************************************************************************)
(* Properties.                                                             *)
(***************************************************************************)
TypeOK ==
  /\ main \in {"preflight", "tcp", "udp", "accept", "first", "drain", "returned"}
  /\ result \in {"none", "nil", "error"} /\ recorder \in {"none", "open", "closed"}
  /\ errCh \in Seq({"nil", "error"})
  /\ worker \in [Workers -> {"none", "binding", "serving", "dialing", "pumping", "awaiting",
                             "ended", "returned"}]
  /\ \A w \in Workers : pumpErr[w] \in 0 .. ErrChCap

\* A cancellation ends a dial: at most one handshake begins after it, the one
\* whose delay ran out at the same moment, and that one cannot succeed.
OneLateHandshake == \A w \in Workers : dial[w].late <= 1

\* Start returns from the UDP group when no listener is left, so that the
\* recorder is closed with no read loop still recording.
GroupOutlivesListeners ==
  recorder = "closed" => \A w \in Workers : worker[w] = "returned"

\* What Start returns for the group tells why: an error when a listener failed
\* with nobody having asked for the end, nil only after somebody has.
ResultTellsWhy ==
  (main = "returned" /\ recorder = "closed") =>
     /\ (result = "nil") => cancelled
     /\ (result = "error") => failedAt # {}

\* One listener's failure ends them all, and Ctrl+C ends the client, from any
\* dial or delay its workers are in.
StopReturns == (cancelled \/ failedAt # {}) ~> (main = "returned")

\* A handler whose server connection is gone ends, even while its local
\* application does not read (the pinger finds out), and so does one that has
\* had a first error; none of its goroutines outlives it for ever.
HandlerEndsOf(w) ==
  ((worker[w] = "pumping" /\ Gone(w, "ws")) \/ worker[w] \in {"awaiting", "ended"})
    ~> (worker[w] = "ended" /\ \A g \in Goroutines : pump[w][g] \in {"none", "ended"})
=============================================================================

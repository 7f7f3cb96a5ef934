--------------------------- MODULE ServerSession ---------------------------
(***************************************************************************)
(* One WebSocket request on the server from admission to release:          *)
(* handleWebSocket and proxyWebSocket (internal/engine/http.go) with the   *)
(* session statistics they keep (internal/engine/stats.go).                *)
(*                                                                         *)
(* A handler takes a lease, upgrades, starts a session in the statistics,  *)
(* dials the target and pumps: two copier goroutines, "rx" (WebSocket to   *)
(* target) and "tx" (target to WebSocket), and a pinger report their first *)
(* error on errCh.  The handler waits for one error, closes both           *)
(* connections, waits for ONE more, and returns through its defers:        *)
(* EndSession, then the release of the lease.  proxyWebSocketUDP has the   *)
(* same shape.                                                             *)
(*                                                                         *)
(* Admission is the abstract LeasePool, which AdmissionControl implements. *)
(* Payloads are counted, not carried; error counters and per-session byte  *)
(* counts are left out.                                                    *)
(***************************************************************************)
EXTENDS Integers, FiniteSets, Sequences, Functions

CONSTANTS
    Handlers, IPs, Plugins,
    MaxConnections, MaxConnectionsPerIP,
    Pings,               \* ws_ping_interval > 0
    MaxSessions,         \* bound: sessions started in all
    MaxTransfers,        \* bound: payloads counted in all
    NoPlugin

ASSUME SessionAssumption ==
    /\ IsFiniteSet(Handlers) /\ IsFiniteSet(Plugins) /\ NoPlugin \notin Plugins
    /\ MaxConnections \in Nat /\ MaxConnectionsPerIP \in Nat
    /\ MaxSessions \in Nat /\ MaxTransfers \in Nat /\ Pings \in BOOLEAN

Copiers == {"rx", "tx"}
Goroutines == Copiers \cup {"ping"}
ErrChCap == 3

VARIABLES
    leases,              \* the admission leases held
    pc,                  \* where the handler is
    plugin,              \* the plugin the handler resolved
    sessions,            \* stats.sessions: the handlers with an entry
    active, total,       \* stats.activeConnections, totalConnections
    pluginActive, pluginTotal,
    bytes,               \* stats.totalBytesRx + totalBytesTx, in payloads
    pluginBytes,
    connOpen,            \* the handler's two connections are open
    done,                \* the channel done is closed
    errCh,               \* buffered channel of errors, each named by its sender
    gor,                 \* where each goroutine of the pump is
    found,               \* what a copier's session lookup returned
    late,                \* history: payloads counted after the session had ended
    received             \* history: whose errors the handler has received

Pool == INSTANCE LeasePool WITH
    Holders <- Handlers, Peers <- IPs,
    Capacity <- MaxConnections, PeerCapacity <- MaxConnectionsPerIP

statVars == <<sessions, active, total, pluginActive, pluginTotal>>
byteVars == <<bytes, pluginBytes, late>>
pumpVars == <<connOpen, done, errCh, gor, found, received>>
vars == <<leases, pc, plugin, statVars, byteVars, pumpVars>>

Labels == {"idle", "resolve", "upgrade", "startGlobal", "startPlugin", "startSession", "dial",
           "pump", "close", "drain", "endSession", "endGlobal", "endPlugin", "release"}

TypeOK ==
    /\ leases \subseteq [holder : Handlers, peer : IPs]
    /\ pc \in [Handlers -> Labels]
    /\ plugin \in [Handlers -> Plugins \cup {NoPlugin}]
    /\ sessions \subseteq Handlers
    /\ active \in Nat /\ total \in Nat
    /\ pluginActive \in [Plugins -> Nat] /\ pluginTotal \in [Plugins -> Nat]
    /\ bytes \in Nat /\ pluginBytes \in [Plugins -> Nat] /\ late \in Nat
    /\ connOpen \in [Handlers -> BOOLEAN] /\ done \in [Handlers -> BOOLEAN]
    /\ \A h \in Handlers : errCh[h] \in Seq(Goroutines)
    /\ gor \in [Handlers -> [Goroutines -> {"none", "run", "lookup", "global", "plugin", "send", "done"}]]
    /\ found \in [Handlers -> [Copiers -> BOOLEAN]]
    /\ received \in [Handlers -> SUBSET Goroutines]

Init ==
    /\ leases = {}
    /\ pc = [h \in Handlers |-> "idle"]
    /\ plugin = [h \in Handlers |-> NoPlugin]
    /\ sessions = {} /\ active = 0 /\ total = 0
    /\ pluginActive = [p \in Plugins |-> 0] /\ pluginTotal = [p \in Plugins |-> 0]
    /\ bytes = 0 /\ pluginBytes = [p \in Plugins |-> 0] /\ late = 0
    /\ connOpen = [h \in Handlers |-> FALSE] /\ done = [h \in Handlers |-> FALSE]
    /\ errCh = [h \in Handlers |-> << >>]
    /\ gor = [h \in Handlers |-> [g \in Goroutines |-> "none"]]
    /\ found = [h \in Handlers |-> [g \in Copiers |-> FALSE]]
    /\ received = [h \in Handlers |-> {}]

At(h, label) == pc[h] = label
Goto(h, label) == pc' = [pc EXCEPT ![h] = label]
Step(h, g, label) == gor' = [gor EXCEPT ![h][g] = label]
Finished(h) == \A g \in Goroutines : gor[h][g] \in {"none", "done"}

-----------------------------------------------------------------------------
(* handleWebSocket. *)

\* A request is admitted.  A handler's slot is reused when its goroutines ended.
Admit(h, i) ==
    /\ At(h, "idle") /\ Finished(h)
    /\ total < MaxSessions
    /\ Pool!Grant(h, i)
    /\ Goto(h, "resolve")
    /\ plugin' = [plugin EXCEPT ![h] = NoPlugin]
    /\ done' = [done EXCEPT ![h] = FALSE]
    /\ errCh' = [errCh EXCEPT ![h] = << >>]
    /\ gor' = [gor EXCEPT ![h] = [g \in Goroutines |-> "none"]]
    /\ received' = [received EXCEPT ![h] = {}]
    /\ UNCHANGED <<statVars, byteVars, connOpen, found>>

\* The plugin and the target are resolved.
Resolve(h, p) ==
    /\ At(h, "resolve")
    /\ plugin' = [plugin EXCEPT ![h] = p]
    /\ Goto(h, "upgrade")
    /\ UNCHANGED <<leases, statVars, byteVars, pumpVars>>

\* No such plugin or target (400, 502), or the upgrade fails: no session starts.
Abandon(h) ==
    /\ At(h, "resolve") \/ At(h, "upgrade")
    /\ Goto(h, "release")
    /\ UNCHANGED <<leases, plugin, statVars, byteVars, pumpVars>>

Upgrade(h) ==
    /\ At(h, "upgrade")
    /\ connOpen' = [connOpen EXCEPT ![h] = TRUE]
    /\ Goto(h, "startGlobal")
    /\ UNCHANGED <<leases, plugin, statVars, byteVars, done, errCh, gor, found, received>>

\* StartSession: the atomics, then the plugin's counters under pluginsMu, then
\* the entry under sessionsMu.
StartGlobal(h) ==
    /\ At(h, "startGlobal")
    /\ active' = active + 1 /\ total' = total + 1
    /\ Goto(h, "startPlugin")
    /\ UNCHANGED <<leases, plugin, sessions, pluginActive, pluginTotal, byteVars, pumpVars>>

StartPlugin(h) ==
    /\ At(h, "startPlugin")
    /\ pluginActive' = [pluginActive EXCEPT ![plugin[h]] = @ + 1]
    /\ pluginTotal' = [pluginTotal EXCEPT ![plugin[h]] = @ + 1]
    /\ Goto(h, "startSession")
    /\ UNCHANGED <<leases, plugin, sessions, active, total, byteVars, pumpVars>>

StartSession(h) ==
    /\ At(h, "startSession")
    /\ sessions' = sessions \cup {h}
    /\ Goto(h, "dial")
    /\ UNCHANGED <<leases, plugin, active, total, pluginActive, pluginTotal, byteVars, pumpVars>>

\* The target is dialled and the pump's goroutines start, or the dial fails.
Dial(h) ==
    /\ At(h, "dial")
    /\ Goto(h, "pump")
    /\ gor' = [gor EXCEPT ![h] = [g \in Goroutines |-> IF g = "ping" /\ ~Pings THEN "none" ELSE "run"]]
    /\ UNCHANGED <<leases, plugin, statVars, byteVars, connOpen, done, errCh, found, received>>

DialFail(h) ==
    /\ At(h, "dial")
    /\ Goto(h, "endSession")
    /\ UNCHANGED <<leases, plugin, statVars, byteVars, pumpVars>>

\* firstErr := <-errCh; close(done); both connections are closed; <-errCh
Receive(h) ==
    /\ errCh[h] # << >>
    /\ received' = [received EXCEPT ![h] = @ \cup {Head(errCh[h])}]
    /\ errCh' = [errCh EXCEPT ![h] = Tail(@)]

\* Mutants: the channel done stays open; the connections stay open; only one
\* error is waited for.
MutantDoneOpen(h) ==
    /\ At(h, "pump")
    /\ Receive(h)
    /\ Goto(h, "close")
    /\ UNCHANGED <<leases, plugin, statVars, byteVars, connOpen, done, gor, found>>
MutantConnsOpen(h) ==
    /\ At(h, "close")
    /\ Goto(h, "drain")
    /\ UNCHANGED <<leases, plugin, statVars, byteVars, pumpVars>>
FirstError(h) ==
    /\ At(h, "pump")
    /\ Receive(h)
    /\ done' = [done EXCEPT ![h] = TRUE]
    /\ Goto(h, "close")
    /\ UNCHANGED <<leases, plugin, statVars, byteVars, connOpen, gor, found>>

CloseConns(h) ==
    /\ At(h, "close")
    /\ connOpen' = [connOpen EXCEPT ![h] = FALSE]
    /\ Goto(h, "drain")
    /\ UNCHANGED <<leases, plugin, statVars, byteVars, done, errCh, gor, found, received>>

SecondError(h) ==
    /\ At(h, "drain")
    /\ Receive(h)
    /\ Goto(h, "endSession")
    /\ UNCHANGED <<leases, plugin, statVars, byteVars, connOpen, done, gor, found>>

\* Mutant: the counters are not decreased.
MutantEndUncounted(h) ==
    /\ At(h, "endSession")
    /\ sessions' = sessions \ {h}
    /\ Goto(h, "release")
    /\ UNCHANGED <<leases, plugin, active, total, pluginActive, pluginTotal, byteVars, pumpVars>>

\* The deferred EndSession: the entry, the atomic, the plugin's counter.
EndSession(h) ==
    /\ At(h, "endSession")
    /\ sessions' = sessions \ {h}
    /\ Goto(h, IF h \in sessions THEN "endGlobal" ELSE "release")
    /\ UNCHANGED <<leases, plugin, active, total, pluginActive, pluginTotal, byteVars, pumpVars>>

EndGlobal(h) ==
    /\ At(h, "endGlobal")
    /\ active' = active - 1
    /\ Goto(h, "endPlugin")
    /\ UNCHANGED <<leases, plugin, sessions, total, pluginActive, pluginTotal, byteVars, pumpVars>>

EndPlugin(h) ==
    /\ At(h, "endPlugin")
    /\ pluginActive' = [pluginActive EXCEPT ![plugin[h]] = IF @ > 0 THEN @ - 1 ELSE @]
    /\ Goto(h, "release")
    /\ UNCHANGED <<leases, plugin, sessions, active, total, pluginTotal, byteVars, pumpVars>>

\* The deferred wsConn.Close and release.
Release(h) ==
    /\ At(h, "release")
    /\ \E i \in IPs : Pool!Return(h, i)
    /\ connOpen' = [connOpen EXCEPT ![h] = FALSE]
    /\ Goto(h, "idle")
    /\ UNCHANGED <<plugin, statVars, byteVars, done, errCh, gor, found, received>>

-----------------------------------------------------------------------------
(* The goroutines of the pump. *)

Counting == {"lookup", "global", "plugin"}
InFlight == {hg \in Handlers \X Copiers : gor[hg[1]][hg[2]] \in Counting}

\* A copier moves a payload from one connection to the other ...
Transfer(h, g) ==
    /\ gor[h][g] = "run" /\ connOpen[h]
    /\ bytes + Cardinality(InFlight) < MaxTransfers
    /\ Step(h, g, "lookup")
    /\ UNCHANGED <<leases, pc, plugin, statVars, byteVars, connOpen, done, errCh, found, received>>

\* ... and counts it (AddSessionRx, AddSessionTx): the session's entry is looked
\* up under sessionsMu, the global atomic is increased, and, if the entry was
\* there, the plugin's counter under pluginsMu.
CountSession(h, g) ==
    /\ gor[h][g] = "lookup"
    /\ found' = [found EXCEPT ![h][g] = h \in sessions]
    /\ Step(h, g, "global")
    /\ UNCHANGED <<leases, pc, plugin, statVars, byteVars, connOpen, done, errCh, received>>

\* Mutant: the plugin's bytes are not counted.
MutantGlobalOnly(h, g) ==
    /\ gor[h][g] = "global"
    /\ bytes' = bytes + 1
    /\ Step(h, g, "run")
    /\ UNCHANGED <<leases, pc, plugin, statVars, pluginBytes, late, connOpen, done, errCh, found, received>>

CountGlobal(h, g) ==
    /\ gor[h][g] = "global"
    /\ bytes' = bytes + 1
    /\ late' = IF found[h][g] THEN late ELSE late + 1
    /\ Step(h, g, IF found[h][g] THEN "plugin" ELSE "run")
    /\ UNCHANGED <<leases, pc, plugin, statVars, pluginBytes, connOpen, done, errCh, found, received>>

CountPlugin(h, g) ==
    /\ gor[h][g] = "plugin"
    /\ pluginBytes' = [pluginBytes EXCEPT ![plugin[h]] = @ + 1]
    /\ Step(h, g, "run")
    /\ UNCHANGED <<leases, pc, plugin, statVars, bytes, late, connOpen, done, errCh, found, received>>

\* A read, a write or the plugin's pipeline fails: at any time while the
\* connections are open, and for certain once they are closed.
Fail(h, g) ==
    /\ gor[h][g] = "run"
    /\ Step(h, g, "send")
    /\ UNCHANGED <<leases, pc, plugin, statVars, byteVars, connOpen, done, errCh, found, received>>

\* errCh <- err blocks while the buffer is full; the copier then ends.
Send(h, g) ==
    /\ gor[h][g] = "send"
    /\ Len(errCh[h]) < ErrChCap
    /\ errCh' = [errCh EXCEPT ![h] = Append(@, g)]
    /\ Step(h, g, "done")
    /\ UNCHANGED <<leases, pc, plugin, statVars, byteVars, connOpen, done, found, received>>

\* A ping fails; the pinger never waits to report it.
PingFail(h) ==
    /\ gor[h]["ping"] = "run"
    /\ errCh' = [errCh EXCEPT ![h] = IF Len(@) < ErrChCap THEN Append(@, "ping") ELSE @]
    /\ Step(h, "ping", "done")
    /\ UNCHANGED <<leases, pc, plugin, statVars, byteVars, connOpen, done, found, received>>

PingStop(h) ==
    /\ gor[h]["ping"] = "run"
    /\ done[h]
    /\ Step(h, "ping", "done")
    /\ UNCHANGED <<leases, pc, plugin, statVars, byteVars, connOpen, done, errCh, found, received>>

-----------------------------------------------------------------------------
HandlerStep(h) ==
    \/ \E p \in Plugins : Resolve(h, p)
    \/ Abandon(h) \/ Upgrade(h) \/ StartGlobal(h) \/ StartPlugin(h) \/ StartSession(h)
    \/ Dial(h) \/ DialFail(h) \/ FirstError(h) \/ CloseConns(h) \/ SecondError(h)
    \/ EndSession(h) \/ EndGlobal(h) \/ EndPlugin(h) \/ Release(h)

CopierStep(h, g) ==
    \/ Transfer(h, g) \/ CountSession(h, g) \/ CountGlobal(h, g) \/ CountPlugin(h, g)
    \/ Fail(h, g) \/ Send(h, g)

PingStep(h) == PingFail(h) \/ PingStop(h)

Next == \E h \in Handlers :
    \/ \E i \in IPs : Admit(h, i)
    \/ HandlerStep(h)
    \/ \E g \in Copiers : CopierStep(h, g)
    \/ PingStep(h)

Spec == Init /\ [][Next]_vars

\* Every goroutine that can run does.  A copier fails for certain only when its
\* connections have been closed; the failures of an open connection, the
\* arrivals and the payloads are the environment's.
Fairness == \A h \in Handlers :
    /\ WF_vars(HandlerStep(h))
    /\ WF_vars(PingStop(h))
    /\ \A g \in Copiers :
          /\ WF_vars(CountSession(h, g) \/ CountGlobal(h, g) \/ CountPlugin(h, g) \/ Send(h, g))
          /\ WF_vars(Fail(h, g) /\ ~connOpen[h])

FairSpec == Spec /\ Fairness

-----------------------------------------------------------------------------
(* Properties. *)

HoldsLease(h) == \E l \in leases : l.holder = h
Inside == {h \in Handlers : ~At(h, "idle")}

\* The statistics never show more sessions than admission let in, and no
\* session outlives its lease: EndSession is deferred after release and so
\* runs before it.
SessionsWithinLeases ==
    /\ \A h \in Handlers : HoldsLease(h) <=> h \in Inside
    /\ sessions \subseteq Inside
    /\ MaxConnections > 0 => Cardinality(sessions) <= MaxConnections

SumOf(f) == SumFunction(f)
Counted(labels) == Cardinality({h \in Handlers : pc[h] \in labels})

\* The three views of "active" are updated apart and agree up to the handlers
\* that are between two of the updates, so they agree exactly at rest: the
\* global counter, the plugins' counters and the table of sessions, whose members
\* all hold a lease.
ActiveViewsAgree ==
    /\ active = Cardinality(sessions) + Counted({"startPlugin", "startSession", "endGlobal"})
    /\ active = SumOf(pluginActive) + Counted({"startPlugin"}) - Counted({"endPlugin"})
    /\ total = SumOf(pluginTotal) + Counted({"startPlugin"})
    /\ SessionsWithinLeases

\* Every payload counted globally is counted for its plugin too, except those
\* whose session had ended when the copier looked it up.
BytesConserved ==
    bytes = SumOf(pluginBytes) + late
            + Cardinality({hg \in Handlers \X Copiers : gor[hg[1]][hg[2]] = "plugin"})

\* The first error ends the connection: the lease comes back, whatever the
\* other goroutines are doing.
ErrorReleasesLeaseOf(h) == (At(h, "pump") /\ errCh[h] # << >>) ~> At(h, "idle")

\* No goroutine outlives the handler for ever.
GoroutinesEndOf(h) == At(h, "endSession") ~> Finished(h)
=============================================================================

---------------------------- MODULE UDPPeerRelay ----------------------------
(***************************************************************************)
(* The server's UDP pump with the peer broadcast: proxyWebSocketUDP in     *)
(* internal/engine/http.go and internal/engine/udp_peer_hub.go.            *)
(*                                                                         *)
(* A session has a handler and three goroutines: rx reads the client's     *)
(* packets, writes them to the target and, for a plugin with               *)
(* udp_peer_broadcast, to every other session of the plugin, one after the *)
(* other; tx writes the target's replies to the client; the pinger pings.  *)
(* All writes to a session's WebSocket take its wsWriteMu, so the rx       *)
(* goroutine of one session may wait for the connection of another.        *)
(*                                                                         *)
(* The peers are listed under the hub's lock and written to after it is    *)
(* released.  A packet is its number in its sender's stream; the reply     *)
(* policy, the size guards and the pipeline only decide which packets get  *)
(* here at all.                                                            *)
(***************************************************************************)
EXTENDS Naturals, FiniteSets, Functions

CONSTANTS
    Sessions,
    Plugins, NoPlugin,
    PeerBroadcast,      \* the plugins with udp_peer_broadcast
    NoSession,
    Pings,              \* ws_ping_interval > 0
    Deadlines,          \* ws_idle_timeout > 0: writes have a deadline
    MaxPackets, MaxSent, \* bounds: packets a client sends, and all clients together
    MaxReplies          \* bound: replies the targets send, together

ASSUME RelayAssumption ==
    /\ IsFiniteSet(Sessions) /\ NoSession \notin Sessions
    /\ PeerBroadcast \subseteq Plugins /\ NoPlugin \notin Plugins
    /\ Pings \in BOOLEAN /\ Deadlines \in BOOLEAN
    /\ MaxPackets \in Nat /\ MaxSent \in Nat /\ MaxReplies \in Nat

Goroutines == {"rx", "tx", "ping"}

VARIABLES
    hub,                \* udpPeers.sessions: plugin -> its sessions
    pc,                 \* where the handler of a session is
    plugin,
    gor,                \* where its three goroutines are
    todo,               \* the peers a broadcast has still to write to
    peer,               \* the peer a broadcast is writing to
    sends,              \* how many writes of a broadcast have succeeded
    writer,             \* which session's goroutine holds the wsWriteMu: <<session, goroutine>>
    wire,               \* the WebSocket: "up", "stalled", "broken" for writes, or "lost"
    errors,             \* errors in errCh
    sent,               \* packets the client has sent
    replies,            \* replies the targets have sent
    counted,            \* the statistics' packets to clients, all sessions together
    got,                \* history: got[p][s] packets of s delivered to p
    answered,           \* history: replies delivered
    before              \* history: before[p][s] packets of s listed before p registered

goVars == <<gor, todo, peer, sends>>
inVars == <<sent, replies>>
histVars == <<counted, got, answered, before>>
vars == <<hub, pc, plugin, goVars, writer, wire, errors, inVars, histVars>>

NoWriter == <<NoSession, "none">>
Pairs == [Sessions -> Nat]

TypeOK ==
    /\ DOMAIN hub \subseteq Plugins
    /\ \A p \in DOMAIN hub : hub[p] \subseteq Sessions
    /\ pc \in [Sessions -> {"idle", "pump", "drain", "unregister", "over"}]
    /\ plugin \in [Sessions -> Plugins \cup {NoPlugin}]
    /\ gor \in [Sessions -> [Goroutines -> {"none", "read", "list", "lock", "write", "done"}]]
    /\ todo \in [Sessions -> SUBSET Sessions]
    /\ peer \in [Sessions -> Sessions \cup {NoSession}]
    /\ sends \in [Sessions -> Nat]
    /\ writer \in [Sessions -> (Sessions \X {"rx", "tx"}) \cup {NoWriter}]
    /\ wire \in [Sessions -> {"up", "stalled", "broken", "lost"}]
    /\ errors \in [Sessions -> 0 .. 3]
    /\ sent \in Pairs /\ replies \in Nat /\ counted \in Nat /\ answered \in Nat
    /\ got \in [Sessions -> Pairs] /\ before \in [Sessions -> Pairs]

Init ==
    /\ hub = << >>
    /\ pc = [s \in Sessions |-> "idle"]
    /\ plugin = [s \in Sessions |-> NoPlugin]
    /\ gor = [s \in Sessions |-> [g \in Goroutines |-> "none"]]
    /\ todo = [s \in Sessions |-> {}]
    /\ peer = [s \in Sessions |-> NoSession]
    /\ sends = [s \in Sessions |-> 0]
    /\ writer = [s \in Sessions |-> NoWriter]
    /\ wire = [s \in Sessions |-> "lost"]
    /\ errors = [s \in Sessions |-> 0]
    /\ sent = [s \in Sessions |-> 0] /\ replies = 0
    /\ counted = 0 /\ answered = 0
    /\ got = [p \in Sessions |-> [s \in Sessions |-> 0]]
    /\ before = [p \in Sessions |-> [s \in Sessions |-> 0]]

At(s, g, label) == gor[s][g] = label
Step(s, g, label) == gor' = [gor EXCEPT ![s][g] = label]
Goto(s, label) == pc' = [pc EXCEPT ![s] = label]
Registered(p) == IF p \in DOMAIN hub THEN hub[p] ELSE {}
Hears(s) == plugin[s] \in PeerBroadcast

-----------------------------------------------------------------------------
(* The handler. *)

\* The session registers with the hub and its goroutines start.
Start(s, p) ==
    /\ pc[s] = "idle"
    /\ Goto(s, "pump")
    /\ plugin' = [plugin EXCEPT ![s] = p]
    /\ wire' = [wire EXCEPT ![s] = "up"]
    /\ gor' = [gor EXCEPT ![s] = [rx |-> "read", tx |-> "read", ping |-> IF Pings THEN "read" ELSE "none"]]
    /\ hub' = IF p \in PeerBroadcast
              THEN [q \in DOMAIN hub \cup {p} |-> Registered(q) \cup (IF q = p THEN {s} ELSE {})]
              ELSE hub
    /\ before' = [before EXCEPT ![s] = [o \in Sessions |->
                     IF At(o, "rx", "list") THEN sent[o] - 1 ELSE sent[o]]]
    /\ UNCHANGED <<todo, peer, sends, writer, errors, inVars, counted, got, answered>>

\* Mutant: the connections are left open.
MutantConnsOpen(s) ==
    /\ pc[s] = "pump" /\ errors[s] > 0
    /\ errors' = [errors EXCEPT ![s] = @ - 1]
    /\ Goto(s, "drain")
    /\ UNCHANGED <<hub, plugin, goVars, writer, wire, inVars, histVars>>

\* firstErr := <-errCh; done and both connections are closed.  A closed
\* connection is kept as a lost one.
FirstError(s) ==
    /\ pc[s] = "pump"
    /\ errors[s] > 0
    /\ errors' = [errors EXCEPT ![s] = @ - 1]
    /\ wire' = [wire EXCEPT ![s] = "lost"]
    /\ Goto(s, "drain")
    /\ UNCHANGED <<hub, plugin, goVars, writer, inVars, histVars>>

SecondError(s) ==
    /\ pc[s] = "drain"
    /\ errors[s] > 0
    /\ errors' = [errors EXCEPT ![s] = @ - 1]
    /\ Goto(s, "unregister")
    /\ UNCHANGED <<hub, plugin, goVars, writer, wire, inVars, histVars>>

\* Mutant: the last session leaves an empty entry.
MutantEntryKept(s) ==
    /\ pc[s] = "unregister"
    /\ hub' = [p \in DOMAIN hub |-> hub[p] \ {s}]
    /\ Goto(s, "over")
    /\ UNCHANGED <<plugin, goVars, writer, wire, errors, inVars, histVars>>

Unregister(s) ==
    /\ pc[s] = "unregister"
    /\ hub' = [p \in {p \in DOMAIN hub : hub[p] # {s}} |-> hub[p] \ {s}]
    /\ Goto(s, "over")
    /\ UNCHANGED <<plugin, goVars, writer, wire, errors, inVars, histVars>>

-----------------------------------------------------------------------------
(* rx: from the client to the target and to the peers. *)

\* A packet of the client has been written to the target.
ReadPacket(s) ==
    /\ At(s, "rx", "read") /\ wire[s] # "lost"
    /\ sent[s] < MaxPackets /\ FoldFunction(+, 0, sent) < MaxSent
    /\ sent' = [sent EXCEPT ![s] = @ + 1]
    /\ Step(s, "rx", IF Hears(s) THEN "list" ELSE "read")
    /\ UNCHANGED <<hub, pc, plugin, todo, peer, sends, writer, wire, errors, replies, histVars>>

\* The bytes sent to the peers are credited to the sender's session.
CountSends(s, ok) == counted' = counted + ok

\* The broadcast, ok writes of which have succeeded, goes on with one of the
\* peers left, or is over.
GoOn(s, left, ok) ==
    \/ /\ left = {}
       /\ todo' = [todo EXCEPT ![s] = {}]
       /\ peer' = [peer EXCEPT ![s] = NoSession]
       /\ sends' = [sends EXCEPT ![s] = 0]
       /\ CountSends(s, ok)
       /\ Step(s, "rx", "read")
    \/ \E p \in left :
          /\ todo' = [todo EXCEPT ![s] = left \ {p}]
          /\ peer' = [peer EXCEPT ![s] = p]
          /\ sends' = [sends EXCEPT ![s] = ok]
          /\ Step(s, "rx", "lock")
          /\ UNCHANGED counted

ListPeers(s) ==
    /\ At(s, "rx", "list")
    /\ GoOn(s, Registered(plugin[s]) \ {s}, 0)
    /\ UNCHANGED <<hub, pc, plugin, writer, wire, errors, inVars, got, answered, before>>

LockPeer(s) ==
    /\ At(s, "rx", "lock")
    /\ writer[peer[s]] = NoWriter
    /\ writer' = [writer EXCEPT ![peer[s]] = <<s, "rx">>]
    /\ Step(s, "rx", "write")
    /\ UNCHANGED <<hub, pc, plugin, todo, peer, sends, wire, errors, inVars, histVars>>

\* Mutant: a write waits for a stalled client for ever.
MutantNoDeadline(p) ==
    /\ wire[p] \in {"broken", "lost"}
    /\ UNCHANGED wire

\* A write to session p fails: its connection is gone or failed before, or the
\* write deadline passes, after which the connection takes no more writes.
WriteFails(p) ==
    /\ wire[p] \in {"broken", "lost"} \/ (wire[p] = "stalled" /\ Deadlines)
    /\ wire' = [wire EXCEPT ![p] = IF @ = "stalled" THEN "broken" ELSE @]

WriteToPeer(s) ==
    /\ At(s, "rx", "write") /\ wire[peer[s]] = "up"
    /\ got' = [got EXCEPT ![peer[s]][s] = @ + 1]
    /\ writer' = [writer EXCEPT ![peer[s]] = NoWriter]
    /\ GoOn(s, todo[s], sends[s] + 1)
    /\ UNCHANGED <<hub, pc, plugin, wire, errors, inVars, answered, before>>

\* Mutant: the broadcast ends at the first peer that fails.
MutantStopAtFailure(s) ==
    /\ At(s, "rx", "write")
    /\ WriteFails(peer[s])
    /\ writer' = [writer EXCEPT ![peer[s]] = NoWriter]
    /\ GoOn(s, {}, sends[s])
    /\ UNCHANGED <<hub, pc, plugin, errors, inVars, got, answered, before>>

\* A peer that fails is skipped, and its own session is not told.
PeerFails(s) ==
    /\ At(s, "rx", "write")
    /\ WriteFails(peer[s])
    /\ writer' = [writer EXCEPT ![peer[s]] = NoWriter]
    /\ GoOn(s, todo[s], sends[s])
    /\ UNCHANGED <<hub, pc, plugin, errors, inVars, got, answered, before>>

-----------------------------------------------------------------------------
(* tx: from the target to the client; the pinger; errors. *)

\* errCh <- err: the channel has room for all three.
Report(s, g) ==
    /\ errors' = [errors EXCEPT ![s] = @ + 1]
    /\ Step(s, g, "done")

ReadReply(s) ==
    /\ At(s, "tx", "read") /\ pc[s] = "pump"
    /\ replies < MaxReplies
    /\ replies' = replies + 1
    /\ Step(s, "tx", "lock")
    /\ UNCHANGED <<hub, pc, plugin, todo, peer, sends, writer, wire, errors, sent, histVars>>

LockOwn(s) ==
    /\ At(s, "tx", "lock")
    /\ writer[s] = NoWriter
    /\ writer' = [writer EXCEPT ![s] = <<s, "tx">>]
    /\ Step(s, "tx", "write")
    /\ UNCHANGED <<hub, pc, plugin, todo, peer, sends, wire, errors, inVars, histVars>>

WriteReply(s) ==
    /\ At(s, "tx", "write") /\ wire[s] = "up"
    /\ answered' = answered + 1 /\ counted' = counted + 1
    /\ writer' = [writer EXCEPT ![s] = NoWriter]
    /\ Step(s, "tx", "read")
    /\ UNCHANGED <<hub, pc, plugin, todo, peer, sends, wire, errors, inVars, got, before>>

ReplyFails(s) ==
    /\ At(s, "tx", "write")
    /\ WriteFails(s)
    /\ writer' = [writer EXCEPT ![s] = NoWriter]
    /\ Report(s, "tx")
    /\ UNCHANGED <<hub, pc, plugin, todo, peer, sends, inVars, histVars>>

\* A read fails, or the pipeline or the write to the target does: at any time,
\* and for certain once the connection is lost or closed.
ReadFails(s, g) ==
    /\ g \in {"rx", "tx"} /\ At(s, g, "read")
    /\ Report(s, g)
    /\ UNCHANGED <<hub, pc, plugin, todo, peer, sends, writer, wire, inVars, histVars>>

\* A ping that cannot be written ends the pinger; it needs the write mutex.
PingFails(s) ==
    /\ At(s, "ping", "read")
    /\ writer[s] = NoWriter
    /\ wire[s] # "up"
    /\ wire' = [wire EXCEPT ![s] = IF @ = "stalled" THEN "broken" ELSE @]
    /\ Report(s, "ping")
    /\ UNCHANGED <<hub, pc, plugin, todo, peer, sends, writer, inVars, histVars>>

PingStops(s) ==
    /\ At(s, "ping", "read")
    /\ pc[s] \notin {"idle", "pump"}
    /\ Step(s, "ping", "done")
    /\ UNCHANGED <<hub, pc, plugin, todo, peer, sends, writer, wire, errors, inVars, histVars>>

\* A client stops reading or catches up, or its connection is lost.
Degrade(s) ==
    /\ \/ wire[s] = "up" /\ wire' = [wire EXCEPT ![s] = "stalled"]
       \/ wire[s] = "stalled" /\ wire' = [wire EXCEPT ![s] = "up"]
       \/ wire[s] # "lost" /\ wire' = [wire EXCEPT ![s] = "lost"]
    /\ UNCHANGED <<hub, pc, plugin, goVars, writer, errors, inVars, histVars>>

-----------------------------------------------------------------------------
HandlerStep(s) == FirstError(s) \/ SecondError(s) \/ Unregister(s)
RxStep(s) ==
    \/ ListPeers(s) \/ LockPeer(s) \/ WriteToPeer(s) \/ PeerFails(s)
TxStep(s) == LockOwn(s) \/ WriteReply(s) \/ ReplyFails(s)
PingStep(s) == PingFails(s) \/ PingStops(s)

Next == \E s \in Sessions :
    \/ \E p \in Plugins : Start(s, p)
    \/ HandlerStep(s) \/ RxStep(s) \/ TxStep(s) \/ PingStep(s)
    \/ ReadPacket(s) \/ ReadReply(s) \/ Degrade(s)
    \/ \E g \in Goroutines : ReadFails(s, g)

Spec == Init /\ [][Next]_vars

\* Every goroutine that can run does.  Packets, replies and failures are the
\* environment's, except that a read of a lost or closed connection fails.
Fairness == \A s \in Sessions :
    /\ WF_vars(HandlerStep(s)) /\ WF_vars(RxStep(s)) /\ WF_vars(TxStep(s)) /\ WF_vars(PingStep(s))
    /\ WF_vars(wire[s] = "lost" /\ ReadFails(s, "rx"))
    /\ WF_vars(pc[s] \notin {"idle", "pump"} /\ ReadFails(s, "tx"))

FairSpec == Spec /\ Fairness

-----------------------------------------------------------------------------
(* Properties. *)

Listens(s) == pc[s] \in {"pump", "drain", "unregister"} /\ Hears(s)

\* The hub holds exactly the sessions between their registration and the end of
\* their handler, each under its plugin, and no empty entry: it neither leaks
\* sessions nor grows with the plugins ever used.
HubIsWhoListens ==
    /\ \A p \in DOMAIN hub : hub[p] # {} /\ hub[p] = {s \in Sessions : Listens(s) /\ plugin[s] = p}
    /\ \A s \in Sessions : Listens(s) => plugin[s] \in DOMAIN hub

Underway(s, p) == At(s, "rx", "list") \/ p \in todo[s] \/ peer[s] = p

\* A peer whose connection is up gets every packet its fellows send from the
\* moment it has registered, exactly once, whatever happens to other peers; and
\* nobody gets its own packets nor those of another plugin.
BroadcastExact ==
    \A s, p \in Sessions :
        /\ s = p \/ ~Hears(s) \/ plugin[s] # plugin[p] => got[p][s] = 0
        /\ s # p /\ Listens(p) /\ wire[p] = "up" /\ plugin[s] = plugin[p] =>
              got[p][s] + before[p][s] + (IF Underway(s, p) THEN 1 ELSE 0) = sent[s]

\* A slow peer holds its sender up, but not for good: the write deadline of the
\* slow peer's connection, or its end, brings the sender's read loop back.
BroadcastReturns ==
    \A s \in Sessions : At(s, "rx", "list") ~> gor[s]["rx"] \in {"read", "done"}

\* A session whose error is reported ends, also while its own read loop is
\* writing to the connection of a slow peer.
ErrorEndsSession == \A s \in Sessions : (pc[s] = "pump" /\ errors[s] > 0) ~> (pc[s] = "over")
=============================================================================

-------------------------- MODULE UDPSessionTable --------------------------
(***************************************************************************)
(* The UDP listener of the client: internal/client/tunnel.go,              *)
(* startUDPListener, readFromUDPSession and writeUDPSession.               *)
(*                                                                         *)
(* One goroutine (Main) reads datagrams from the local socket and forwards *)
(* each over the WebSocket session of its source address, dialling the     *)
(* session on the first datagram.  Each session has a reader goroutine     *)
(* (the WebSocket's replies to the local socket) and, when pings are on, a *)
(* pinger.  A sweeper closes sessions that have been idle too long.  All   *)
(* of them remove sessions from one table, by KEY: removeSession(key)      *)
(* takes out and closes whatever session the key has when the table's      *)
(* mutex is taken.                                                         *)
(*                                                                         *)
(* A session object is a slot; slots are reused once nothing refers to     *)
(* them.  Payloads, metrics and the recorder are left out.                 *)
(***************************************************************************)
EXTENDS FiniteSets, Functions

CONSTANTS
    Sources,            \* local UDP source addresses, the table's keys
    Slots,              \* bound: session objects alive at one time
    NoSource, NoSlot,
    Main, Sweeper,
    Sweeps,             \* udp_session_idle_timeout > 0
    Pinging,            \* ws_ping_interval > 0
    Deadlines,          \* ws_idle_timeout > 0: reads and writes time out
    Stalls,             \* the environment may stop reading from a connection
    LocalFaults         \* writing a reply to the local socket may fail

ASSUME ConfigAssumption ==
    /\ NoSource \notin Sources /\ NoSlot \notin Slots
    /\ Main \notin Slots /\ Sweeper \notin Slots /\ Main # Sweeper
    /\ {Sweeps, Pinging, Deadlines, Stalls, LocalFaults} \subseteq BOOLEAN

Actors == Slots \cup {Main, Sweeper}    \* a slot stands for its reader

VARIABLES
    ctxDone,            \* the context has been cancelled
    sockOpen,           \* the local packet socket is open
    table,              \* the map sessions: source -> slot
    key,                \* session.key; NoSource when the slot is free
    open,               \* session.close has not run yet
    wire,               \* the connection below: "up", "stalled" or "lost"
    idle,               \* lastActivity is more than udpIdle ago
    at,                 \* where each actor is
    pinger,             \* where each session's ping goroutine is
    closing,            \* sessions an actor took out of the table and must close
    cur, ses,           \* Main's datagram source and session
    expired             \* the sweeper's list of keys

sessionVars == <<key, open, wire, idle, pinger>>
tableVars == <<ctxDone, sockOpen, table, sessionVars, at, closing, cur, ses, expired>>

TableTypeOK ==
    /\ ctxDone \in BOOLEAN /\ sockOpen \in BOOLEAN
    /\ DOMAIN table \subseteq Sources /\ Range(table) \subseteq Slots
    /\ key \in [Slots -> Sources \cup {NoSource}]
    /\ open \in [Slots -> BOOLEAN]
    /\ wire \in [Slots -> {"up", "stalled", "lost"}]
    /\ idle \in [Slots -> BOOLEAN]
    /\ at \in [Actors -> {"none", "read", "dial", "insert", "touch", "write", "remove",
                          "close", "closeAll", "wait", "sweep", "done"}]
    /\ pinger \in [Slots -> {"none", "running", "done"}]
    /\ closing \in [Actors -> SUBSET Slots]
    /\ cur \in Sources \cup {NoSource}
    /\ ses \in Slots \cup {NoSlot}
    /\ expired \subseteq Sources

TableInit ==
    /\ ctxDone = FALSE /\ sockOpen = TRUE
    /\ table = << >>
    /\ key = [s \in Slots |-> NoSource]
    /\ open = [s \in Slots |-> FALSE]
    /\ wire = [s \in Slots |-> "lost"]
    /\ idle = [s \in Slots |-> FALSE]
    /\ at = [a \in Actors |-> IF a = Main THEN "read"
                              ELSE IF a = Sweeper /\ Sweeps THEN "wait" ELSE "none"]
    /\ pinger = [s \in Slots |-> "none"]
    /\ closing = [a \in Actors |-> {}]
    /\ cur = NoSource /\ ses = NoSlot
    /\ expired = {}

Goto(a, label) == at' = [at EXCEPT ![a] = label]

-----------------------------------------------------------------------------
(* removeSession(key), on behalf of actor a: the entry leaves the table in  *)
(* one critical section; what it held is closed afterwards.                 *)

\* Mutant: removeSession forgets session.close().
MutantRemoveUnclosed(a, k) ==
    /\ table' = Restrict(table, DOMAIN table \ {k})
    /\ UNCHANGED closing

RemoveKey(a, k) ==
    /\ table' = Restrict(table, DOMAIN table \ {k})
    /\ closing' = [closing EXCEPT ![a] = IF k \in DOMAIN table THEN {table[k]} ELSE {}]

\* A closed connection is as good as a lost one, and is idle no more.
Shut(S) ==
    /\ open' = [s \in Slots |-> open[s] /\ s \notin S]
    /\ wire' = [s \in Slots |-> IF s \in S THEN "lost" ELSE wire[s]]
    /\ idle' = [s \in Slots |-> idle[s] /\ s \notin S]

\* session.close(): the first caller closes the connection.  When nothing is
\* left to close the actor goes on: Main to its next datagram, a reader to its
\* end, the sweeper to its next key.
CloseHeld(a) ==
    /\ at[a] \in {"close", "closeAll"}
    /\ \E S \in {{}} \cup {{s} : s \in closing[a]} :
          /\ S = {} => closing[a] = {}
          /\ Shut(S)
          /\ closing' = [closing EXCEPT ![a] = @ \ S]
    /\ IF closing'[a] = {}
       THEN /\ Goto(a, IF a = Sweeper THEN "sweep"
                       ELSE IF a = Main /\ at[a] = "close" THEN "read" ELSE "done")
            /\ IF a = Main THEN cur' = NoSource /\ ses' = NoSlot ELSE UNCHANGED <<cur, ses>>
       ELSE UNCHANGED <<at, cur, ses>>
    /\ UNCHANGED <<ctxDone, sockOpen, table, key, pinger, expired>>

-----------------------------------------------------------------------------
(* Main: the read loop and getOrCreateSession. *)

\* A datagram arrives and the table is looked up.
Receive(src) ==
    /\ at[Main] = "read"
    /\ sockOpen
    /\ cur' = src
    /\ IF src \in DOMAIN table
       THEN ses' = table[src] /\ Goto(Main, "touch")
       ELSE ses' = NoSlot /\ Goto(Main, "dial")
    /\ UNCHANGED <<ctxDone, sockOpen, table, sessionVars, closing, expired>>

\* The dial (with its retries) succeeds.
DialOk(s) ==
    /\ at[Main] = "dial"
    /\ ~ctxDone
    /\ key[s] = NoSource
    /\ ses' = s
    /\ key' = [key EXCEPT ![s] = cur]
    /\ open' = [open EXCEPT ![s] = TRUE]
    /\ wire' = [wire EXCEPT ![s] = "up"]
    /\ idle' = [idle EXCEPT ![s] = FALSE]
    /\ Goto(Main, "insert")
    /\ UNCHANGED <<ctxDone, sockOpen, table, pinger, closing, cur, expired>>

\* Every attempt failed, or the context ended: the datagram is dropped.
DialFail ==
    /\ at[Main] = "dial"
    /\ cur' = NoSource
    /\ Goto(Main, "read")
    /\ UNCHANGED <<ctxDone, sockOpen, table, sessionVars, closing, ses, expired>>

\* The session enters the table and its goroutines start, unless the second
\* lookup finds one there already: then the new one is closed and dropped.
Insert ==
    /\ at[Main] = "insert"
    /\ IF cur \in DOMAIN table
       THEN /\ Shut({ses})
            /\ key' = [key EXCEPT ![ses] = NoSource]
            /\ ses' = table[cur]
            /\ Goto(Main, "touch")
            /\ UNCHANGED <<table, pinger>>
       ELSE /\ table' = [k \in DOMAIN table \cup {cur} |-> IF k = cur THEN ses ELSE table[k]]
            /\ pinger' = [pinger EXCEPT ![ses] = IF Pinging THEN "running" ELSE "none"]
            /\ at' = [at EXCEPT ![Main] = "touch", ![ses] = "read"]
            /\ UNCHANGED <<key, open, wire, idle, ses>>
    /\ UNCHANGED <<ctxDone, sockOpen, closing, cur, expired>>

\* session.touch, outside the table's mutex.
Touch ==
    /\ at[Main] = "touch"
    /\ idle' = [idle EXCEPT ![ses] = FALSE]
    /\ Goto(Main, "write")
    /\ UNCHANGED <<ctxDone, sockOpen, table, key, open, wire, pinger, closing, cur, ses, expired>>

\* writeUDPSession succeeds; on a lost connection the kernel may still take it.
WriteOk ==
    /\ at[Main] = "write"
    /\ open[ses] /\ wire[ses] # "stalled"
    /\ idle' = [idle EXCEPT ![ses] = FALSE]
    /\ cur' = NoSource /\ ses' = NoSlot
    /\ Goto(Main, "read")
    /\ UNCHANGED <<ctxDone, sockOpen, table, key, open, wire, pinger, closing, expired>>

\* Mutant: a payload the connection will not take counts as a failed session.
MutantWriteRefused ==
    /\ at[Main] = "write"
    /\ Goto(Main, "remove")
    /\ UNCHANGED <<ctxDone, sockOpen, table, sessionVars, closing, cur, ses, expired>>

\* writeUDPSession fails.  On a stalled connection it blocks, holding the
\* session's writeMu, until its deadline if it has one or until it is closed.
WriteFail ==
    /\ at[Main] = "write"
    /\ ~open[ses] \/ wire[ses] = "lost" \/ (wire[ses] = "stalled" /\ Deadlines)
    /\ Goto(Main, "remove")
    /\ UNCHANGED <<ctxDone, sockOpen, table, sessionVars, closing, cur, ses, expired>>

MainRemove ==
    /\ at[Main] = "remove"
    /\ RemoveKey(Main, key[ses])
    /\ Goto(Main, "close")
    /\ UNCHANGED <<ctxDone, sockOpen, sessionVars, cur, ses, expired>>

\* Mutant: closeAllSessions empties the table and closes nothing.
MutantReturnUnclosed ==
    /\ at[Main] = "read" /\ ~sockOpen
    /\ table' = << >>
    /\ Goto(Main, "closeAll")
    /\ UNCHANGED <<ctxDone, sockOpen, sessionVars, closing, cur, ses, expired>>

\* The read fails on the closed socket: Main returns and the deferred
\* closeAllSessions empties the table.
ListenerReturns ==
    /\ at[Main] = "read"
    /\ ~sockOpen
    /\ closing' = [closing EXCEPT ![Main] = Range(table)]
    /\ table' = << >>
    /\ Goto(Main, "closeAll")
    /\ UNCHANGED <<ctxDone, sockOpen, sessionVars, cur, ses, expired>>

-----------------------------------------------------------------------------
(* A session's reader and pinger. *)

\* A reply is written to the local socket.
Reply(s) ==
    /\ at[s] = "read"
    /\ open[s] /\ wire[s] # "lost" /\ sockOpen
    /\ idle' = [idle EXCEPT ![s] = FALSE]
    /\ UNCHANGED <<ctxDone, sockOpen, table, key, open, wire, pinger, at, closing, cur, ses, expired>>

\* ReadMessage fails because the connection is closed or lost.
ReaderFail(s) ==
    /\ at[s] = "read"
    /\ ~open[s] \/ wire[s] = "lost"
    /\ Goto(s, "remove")
    /\ UNCHANGED <<ctxDone, sockOpen, table, sessionVars, closing, cur, ses, expired>>

\* The reader also stops when its read deadline passes without a message or a
\* pong, and when a reply that arrives cannot be written to the local socket.
ReaderGiveUp(s) ==
    /\ at[s] = "read"
    /\ \/ wire[s] = "stalled" /\ Deadlines
       \/ /\ open[s] /\ wire[s] # "lost"
          /\ ~sockOpen \/ LocalFaults
    /\ Goto(s, "remove")
    /\ UNCHANGED <<ctxDone, sockOpen, table, sessionVars, closing, cur, ses, expired>>

ReaderRemove(s) ==
    /\ at[s] = "remove"
    /\ RemoveKey(s, key[s])
    /\ Goto(s, "close")
    /\ UNCHANGED <<ctxDone, sockOpen, sessionVars, cur, ses, expired>>

\* A failed ping closes the session but leaves it in the table for the reader.
\* The ping needs writeMu, so it waits while Main's write is blocked.
PingFail(s) ==
    /\ pinger[s] = "running"
    /\ ~(at[Main] = "write" /\ ses = s)
    /\ ~open[s] \/ wire[s] # "up"
    /\ Shut({s})
    /\ pinger' = [pinger EXCEPT ![s] = "done"]
    /\ UNCHANGED <<ctxDone, sockOpen, table, key, at, closing, cur, ses, expired>>

PingerExit(s) ==
    /\ pinger[s] = "running"
    /\ ~open[s]
    /\ pinger' = [pinger EXCEPT ![s] = "done"]
    /\ UNCHANGED <<ctxDone, sockOpen, table, key, open, wire, idle, at, closing, cur, ses, expired>>

-----------------------------------------------------------------------------
(* The sweeper. *)

\* Under the mutex it only lists the keys of the sessions idle for too long.
SweepCollect ==
    /\ at[Sweeper] = "wait"
    /\ ~ctxDone
    /\ expired' = {k \in DOMAIN table : idle[table[k]]}
    /\ expired' # {}
    /\ Goto(Sweeper, "sweep")
    /\ UNCHANGED <<ctxDone, sockOpen, table, sessionVars, closing, cur, ses>>

SweepRemove ==
    /\ at[Sweeper] = "sweep"
    /\ \E k \in expired :
          /\ RemoveKey(Sweeper, k)
          /\ expired' = expired \ {k}
    /\ Goto(Sweeper, "close")
    /\ UNCHANGED <<ctxDone, sockOpen, sessionVars, cur, ses>>

\* Mutant: the sweeper sweeps once.
MutantSweepOnce ==
    /\ at[Sweeper] = "sweep" /\ expired = {}
    /\ Goto(Sweeper, "done")
    /\ UNCHANGED <<ctxDone, sockOpen, table, sessionVars, closing, cur, ses, expired>>

SweepEnd ==
    /\ at[Sweeper] = "sweep"
    /\ expired = {}
    /\ Goto(Sweeper, "wait")
    /\ UNCHANGED <<ctxDone, sockOpen, table, sessionVars, closing, cur, ses, expired>>

SweeperExit ==
    /\ at[Sweeper] = "wait"
    /\ ctxDone
    /\ Goto(Sweeper, "done")
    /\ UNCHANGED <<ctxDone, sockOpen, table, sessionVars, closing, cur, ses, expired>>

-----------------------------------------------------------------------------
(* The environment. *)

CancelTunnel ==
    /\ ~ctxDone
    /\ ctxDone' = TRUE
    /\ UNCHANGED <<sockOpen, table, sessionVars, at, closing, cur, ses, expired>>

\* The goroutine that waits for the context closes the local socket.
CloseSocket ==
    /\ ctxDone /\ sockOpen
    /\ sockOpen' = FALSE
    /\ UNCHANGED <<ctxDone, table, sessionVars, at, closing, cur, ses, expired>>

Degrade(s) ==
    /\ open[s]
    /\ \/ wire[s] # "lost" /\ wire' = [wire EXCEPT ![s] = "lost"]
       \/ Stalls /\ wire[s] = "up" /\ wire' = [wire EXCEPT ![s] = "stalled"]
    /\ UNCHANGED <<ctxDone, sockOpen, table, key, open, idle, pinger, at, closing, cur, ses, expired>>

\* More than udp_session_idle_timeout passes since the last touch.
GoIdle(s) ==
    /\ Sweeps /\ open[s] /\ s \in Range(table) /\ ~idle[s]
    /\ idle' = [idle EXCEPT ![s] = TRUE]
    /\ UNCHANGED <<ctxDone, sockOpen, table, key, open, wire, pinger, at, closing, cur, ses, expired>>

\* A closed session that nothing refers to any more.
Garbage(s) ==
    /\ key[s] # NoSource /\ ~open[s]
    /\ at[s] = "done" /\ pinger[s] \in {"none", "done"}
    /\ s \notin Range(table) /\ s # ses /\ \A a \in Actors : s \notin closing[a]

\* Its slot is free again.
Recycle(s) ==
    /\ Garbage(s)
    /\ key' = [key EXCEPT ![s] = NoSource]
    /\ pinger' = [pinger EXCEPT ![s] = "none"]
    /\ Goto(s, "none")
    /\ UNCHANGED <<ctxDone, sockOpen, table, open, wire, idle, closing, cur, ses, expired>>

-----------------------------------------------------------------------------
MainStep ==
    \/ DialFail \/ Insert \/ Touch \/ WriteOk \/ WriteFail \/ MainRemove \/ ListenerReturns
    \/ CloseHeld(Main)
    \/ \E s \in Slots : DialOk(s)
ReaderStep(s) == ReaderFail(s) \/ ReaderRemove(s) \/ CloseHeld(s)
PingerStep(s) == PingFail(s) \/ PingerExit(s)
SweeperStep ==
    \/ SweepCollect \/ SweepRemove \/ SweepEnd \/ SweeperExit
    \/ CloseHeld(Sweeper)

TableNext ==
    \/ MainStep \/ SweeperStep \/ CancelTunnel \/ CloseSocket
    \/ \E src \in Sources : Receive(src)
    \/ \E s \in Slots : ReaderStep(s) \/ PingerStep(s) \/ Reply(s) \/ ReaderGiveUp(s)
                          \/ Degrade(s) \/ GoIdle(s) \/ Recycle(s)

TableSpec == TableInit /\ [][TableNext]_tableVars

\* The Go scheduler runs every goroutine that can run; reads and writes on a
\* connection that is closed or lost return.  Datagrams, replies, failures and
\* the cancellation are the environment's: no fairness.
TableFairness ==
    /\ WF_tableVars(MainStep) /\ WF_tableVars(SweeperStep) /\ WF_tableVars(CloseSocket)
    /\ \A s \in Slots : WF_tableVars(ReaderStep(s)) /\ WF_tableVars(PingerStep(s))

FairTableSpec == TableSpec /\ TableFairness

-----------------------------------------------------------------------------
(* Properties. *)

Tabled(s) == s \in Range(table)

\* No connection leaks: a session that is still open is in the table, or is
\* about to be put there, or is in the hands of an actor that will close it.
\* removeSession takes the entry out first and closes it after the unlock, and
\* five actors do so at once.
NoOrphanSession ==
    \A s \in Slots : open[s] =>
        \/ Tabled(s)
        \/ at[Main] = "insert" /\ ses = s
        \/ \E a \in Actors : s \in closing[a]

\* Once the listener has returned, nothing enters the table again and what is
\* still open is being closed by an actor that took it out before.
QuietAfterReturn ==
    at[Main] = "done" =>
        /\ table = << >>
        /\ \A s \in Slots : open[s] => \E a \in Actors \ {Main} : s \in closing[a]

\* Who can close a healthy session.  Removal goes by key, and a key may have
\* been given to a new session since the remover looked: the sweeper (it listed
\* an idle session, which has been used or replaced since) and the reader of the
\* source's previous session can.  Nobody else does: a session whose connection
\* is up, that is not idle and whose own reader has not failed stays open until
\* the shutdown.  Main in particular removes no session but the one it has
\* failed to write to.
HealthyClosedOnlyByKey ==
    [][\A s \in Slots : open[s] /\ ~open'[s] =>
          \/ idle[s] \/ wire[s] # "up" \/ ctxDone
          \/ s \in closing[s]
          \/ s \in closing[Sweeper]
          \/ \E a \in Slots \ {s} : s \in closing[a] /\ key[a] = key[s]]_tableVars

\* An idle session is closed unless it is used again (or the client stops).
IdleSessionSweptOf(s) == (Tabled(s) /\ idle[s]) ~> (~open[s] \/ ~idle[s] \/ ctxDone)

\* Cancelling the context ends the listener: Main returns, and every session is
\* closed and drained.
ShutdownCompletes ==
    ctxDone ~> (/\ at[Main] = "done"
                /\ at[Sweeper] \in {"none", "done"}
                /\ \A s \in Slots : key[s] = NoSource \/ Garbage(s))
=============================================================================

# A formal model of ROAD Proxy v3

TLA+ modules, TLC configurations and TLAPS proofs about the program in this
repository: a tunnel that carries TCP and UDP traffic of games and local
services over WebSocket connections. All line numbers refer to the source tree.

## The system

```
 game/client --TCP/UDP--> road-client --WebSocket--> road-server --TCP/UDP--> game server
                          internal/client            internal/engine
                               ^                          ^
                               |  configs/, configs/.generated/ (files)
                               +---- cmd/road: menu, settings, wizard ----+---- cloudflared
```

| Component | State it keeps | Operations | Hard behaviour |
| --- | --- | --- | --- |
| **WebSocket admission** `engine/security.go` | `active`, `activeByIP`, `rateByIP`, `lastRatePrune` under one mutex | `admitWebSocket`, the release closure, pruning | the clock is read before the lock; fixed windows; counters that must track goroutines |
| **Server session** `engine/http.go`, `engine/stats.go` | per handler: two connections, `errCh`, `done`; shared: atomics, `plugins` map, `sessions` map | upgrade, start/end session, dial, two copiers, pinger | three sources of error and two receives; three views of "active" updated apart |
| **UDP relay and peer hub** `engine/http.go`, `engine/udp_peer_hub.go` | sessions by plugin; per session a WebSocket, its write mutex, `errCh` | register, unregister, broadcast, the three goroutines of the UDP pump | peers listed under a lock, written to after it; a slow peer holds the sender |
| **Engine lifecycle** `engine/engine.go` | listeners, servers, recorder, plugins | `New`, `Start`, startup cleanup, shutdown, TCP handlers | handlers are not awaited; a failed server ends the others |
| **UDP session table** `client/tunnel.go` | `sessions` by source address under one mutex; per session a WebSocket, a write mutex, `closed` | read loop, `getOrCreateSession`, `removeSession`, readers, pingers, sweeper, `closeAllSessions` | removal by key by five kinds of actor, close after unlock, blocking dial and writes in the read loop |
| **Client dial and TCP** `client/tunnel.go`, `cmd/client` | retry state, TCP pump, listener group | `dialWebSocketWithRetry`, accept loop, pump, the UDP listeners | cancellation during a retry, first error cancels the group |
| **UDP metrics and recorder** `udputil`, `udprecord`, `engine/stats.go` | per-flow counters in three places; file, count, end | `ObservePacket`, `Snapshot`, `RecordPacket`, `Close` | sequence numbers modulo 2^24; ends by time, count and close; counted under three mutexes |
| **Configuration, plugins** `internal/config`, `internal/plugin` | files as decoded | defaults, validation, secrets of the environment, pipelines | rules with many cases; a secret without a value |
| **Control API** `engine/http.go`, `engine/security.go` | none | who is answered what on the data and the control plane | hosts, origins, tokens, headers built in three places |
| **Menu, settings, entry points** `cmd/road`, `cmd/server`, `cmd/client`, `internal/app` | files under `configs`, in place | seed, generate, read back, edit, preflight, run | several processes on one directory, crashes between steps, torn files |
| **Public server lock** `cmd/road/wizard_lock.go` | one file: absent, empty or with a pid | acquire (create, read, check, remove, again), release | several processes, crashes, check-then-remove on a path |
| **Public Server Wizard** `cmd/road/wizard.go`, `tunnel_*.go` | child process, `done` channel, context, engine goroutine; the downloaded binary, the Cloudflare account | download, login, create, route, run until stopped, `Stop` twice | several receivers of one value; a wizard that died half-way |
| **UDP check** `cmd/road/udp_check.go` | sequence maps | synthetic client and server | late, lost, duplicated datagrams |
| **Plugin Studio, dashboard, logging** | none across runs | one-shot analysis, pages, formatting | none over time |

The parts meet in few places: a server session starts only with a lease of the
admission and returns it last; a client's UDP session is one such session on
the server; what the menu and the wizard write is what the engine and the client
start from; the wizard holds the lock while it runs the engine and cloudflared.

The correctness of each part, in one line: leases and counters agree and limits
bound what is inside; every session that starts ends, everywhere it was
counted; no connection and no goroutine is left behind; a live rate window is
never forgotten; the read loop of the client always comes back; what is shown of
the traffic is what happened; no public server runs without its token, whatever
the files went through; no two wizards hold the lock; no cloudflared outlives
its wizard and Ctrl+C ends both.

## Modules

| Module | Models | Role |
| --- | --- | --- |
| `LeasePool` | what admission promises: leases with a capacity and a share per peer | abstract specification |
| `AdmissionControl` | `admitWebSocket`, prune, release | implements `LeasePool` |
| `ServerSession` | `handleWebSocket`, `proxyWebSocket`, `Stats` | composes with `LeasePool` |
| `UDPPeerRelay` | `proxyWebSocketUDP`, `udpPeerHub` | |
| `FlowMetrics`, `UDPStats` | `ObservePacket`; the three places a datagram is counted and `Snapshot` | operators, and the machine that uses them |
| `UDPRecorder`, `EngineLifecycle` | the recorder; `New`, `Start`, its servers, the TCP handlers | the engine extends the recorder and `PluginRules` |
| `UDPSessionTable` | `startUDPListener` and its goroutines | |
| `ClientTunnel` | `Tunnel.Start`, the dial, the TCP pump, the listener group | |
| `Text`, `ConfigRules`, `PluginRules` | strings; what the two packages accept and fill in | operators |
| `ControlAPI` | what a running engine answers, what headers clients send | operators on the two above |
| `MenuRules`, `Console` | what the menu computes; the processes of one machine and their files | `Console` composes all the operators |
| `PublicServerLock` | `acquirePublicServerLock`, `Release` | |
| `PublicServerWizard`, `CloudflaredSetup` | one run of the wizard; the binary, the tunnel and the DNS record it needs | |
| `UDPCheck` | the synthetic client and server | |
| `AdmissionControl_proofs`, `ServerSession_proofs`, `EngineLifecycle_proofs` | | theorems about the module of that name |
| `ServerUDP_proofs` | | theorems about `UDPPeerRelay` and `UDPStats` |
| `Client_proofs` | | theorems about `ClientTunnel`, `UDPSessionTable` and `UDPCheck` |
| `PublicServer_proofs` | | theorems about `PublicServerLock`, `PublicServerWizard` and `CloudflaredSetup` |
| `Console_proofs` | | theorems about `Console`, with the lemmas on `ConfigRules`, `MenuRules` and `ControlAPI` they need |
| `FiniteSums` | | lemmas about sums over a finite set |
| `MC...` | constants, symmetry, and which of several models is run | |

Models that do not interact share a run: the module `MCTables`, `MCServerUDP`,
`MCClient` or `MCRoad` has a variable `which`, chosen at the start, that says which
one of its models moves while the others stand still. The states of such a run
are the sum of those of its models, not their product. Such a module extends its models, so that
what a run checks and what the proofs are about are the same definitions.

### AdmissionControl

A *handler* is the goroutine of one HTTP request. `Arrive` reads the clock
(security.go:30), `Admit` and `Reject` are the critical section (33-75) with its
two outcomes, `Release` is the deferred closure. The critical section is one
action because nothing else can be seen of it; the time between the clock and
the mutex is `MaxSkew` ticks at most. `clock` advances by `Tick`; `Minute` is the
number of ticks in a rate window. `passed` is a history variable: the attempts
let through, by age, against which the fixed window is judged. Which address
`clientIP` finds is a free choice. The limits are read as in the code: 0 is
"no limit".

`ServerSession` uses `LeasePool`'s `Grant` and `Return` for the admission it
runs under, which is justified by `ImplementsLeasePool`.

### ServerSession

Each handler walks through `handleWebSocket` with a program counter; its two
copiers and its pinger walk through theirs. The three updates of `StartSession`
and of `EndSession` and those of `AddSessionRx`/`AddSessionTx` are separate
actions, because other goroutines run between them. `errCh` is the buffered
channel, each error named by its sender. A payload counts as one byte, in
either direction. A copier may fail at any time and surely does once its
connections are closed.

### UDPPeerRelay

The UDP counterpart of the pump in `ServerSession`, with what is new in it: the
hub and the write mutex. A session's `rx` goroutine goes from reading a packet
to listing the peers (under the hub's lock, one action), then for each peer
waits for that peer's `wsWriteMu` and writes. The peers are taken in any order,
as Go ranges over a map. `writer` says whose goroutine holds a connection's mutex;
`wire` is what a connection does to a write: it takes it ("up"), blocks
("stalled"), has failed a write already and fails the next ("broken"), or is
gone ("lost"). A packet is a number in its sender's stream, so `sent` and `got` are
counters; `before` remembers how many packets were listed before a peer came.

### UDPSessionTable

A session object is a *slot*, and its reader goroutine goes by the slot's name.
`RemoveKey` is the critical section of `removeSession`; the session it took out
stays in `closing[actor]` until `CloseHeld` closes it, so every interleaving
between the unlock and the close is explored. A closed connection is kept as
"lost" in `wire`: reads and writes fail on both alike. "stalled" is a
connection whose other end no longer reads: a write to it blocks, with the
session's `writeMu` held, until a deadline or a close. `Recycle` frees a slot
that nothing refers to any more, which bounds the model and not the program.

### FlowMetrics and UDPStats

`Sequenced` is metrics.go's accounting, modulo `Modulo` (2^24 in the code, any
even number from 4 in the model). `Observe`, `ObserveGlobal` and `ObservePlugin` are
the three critical sections one datagram goes through; the goroutine that
observes may outlive its session, and then only the global flow counts
(`unlisted`). `Snapshot` reads in three steps, each under another mutex. `arrived` is a
history: the positions of a session's stream the network let through.

### EngineLifecycle and UDPRecorder

`Start` walks from the plugins through the recorder, the TCP listener and the HTTP
servers to its wait and its shutdown; each of its goroutines and each copier of
a TCP handler has its own place. `stream` counts what the sender of a direction
sent, what was read and what was written; a copier may hold bytes when the other
side has ended. `sampled` holds the times writers have read and not yet recorded.
Lines 80-87 of engine.go, which refuse a default plugin that `New` has already
refused, can not be reached and have no action. `traffic` keeps the interplay
small: a behaviour has TCP traffic, or recorded datagrams, or failing servers.

### ClientTunnel

A worker is a TCP handler or a UDP listener. `dial` holds the attempt, the delay
and how many handshakes began after the cancellation. The UDP group is the
error channel, the cancellation of the child context and the drain.

### ConfigRules, PluginRules, ControlAPI, MenuRules

Pure functions, translated as operators. A string is a word that may have
blanks around it or capitals (`Text`), which is all the code looks at; an address
is a host and a port; a duration is missing, good, negative or unreadable; a
secret is a word or the name of a variable. `ControlAPI` gives each request the
status it is answered. `ServerType` and `ClientType` are the two configuration structs
with the fields the code looks at; `Absent` and `Torn` are a file that is not there and
one that does not parse.

### Console

A console is one process with its environment; `files` is the directory both
share. A flow computes with the operators above between reading and writing; a
write empties the file and then fills it, and a crash or a failed write in
between leaves it torn. `author` and `minted` are histories (who wrote a file
last, which tokens were generated). `hand` holds the local variables of a flow and
`HandTypeOK` what they may be; `ServerPaths` and `ClientPaths` say which kind of
configuration each file holds, and `ConsoleTypeOK` that it never holds another, though
writers and readers agree on that only by its name. `InfoAnswers` is what answers the
preflight, with the server as it is then. Left out: the check whether the ports of the
client's listener are free, which asks the operating system, and what other
programs do with the files.

### PublicServerLock, PublicServerWizard, CloudflaredSetup

The lock's path names a file or nothing; a file outlives its name while a
process has it open. Each system call of `acquirePublicServerLock` and `Release`
is an action, `Crash` may happen between any two. In the wizard's module the
child, the waiter goroutine, the callers of `Stop` (the context's and the
deferred one), the engine and the main goroutine each have a program counter,
and `done` is the one-place channel with the single value the waiter sends.

`CloudflaredSetup` is what comes before: each step may be the last one of a
wizard (`End`: an answer refused, an error, a crash), and the next wizard finds
what it left: the temporary file, the binary, the certificate, the tunnel
without a record, the record without a configuration. `Listed` keeps the code's
search for a name anywhere in a line of the list, and the runs have two tunnels of
which one's name occurs in the other's. So `NamedTunnelServes` says what is true of the
tunnel that is configured (it is in the account, and the name asked for is in its line),
and `ReusesTheNamedTunnel` what the documentation promises and the code does not keep.

### UDPCheck

A player is a sender and a reader that share a mutex; a ping is on the network
before it is recorded. The network is two sets of datagrams, so it reorders;
losing is free, repeating and failing sockets share the bound `MaxFaults`. Payload
sizes and durations are left out.

## Runs

| Run | Models and bounds | What it shows |
| --- | --- | --- |
| `tables` | admission: 3 handlers, 2 addresses, limits 2, 1 and rate 1, 4 ticks with a minute of 2, skew 1. Session table: 2 sources, 2 slots, every fault on. UDP check: 1 player, 3 pings, 1 fault | a fixed window lets an address through at most twice (3 times with skew) its limit in any minute; counters are the leases, no refusal without a limit used up, the lease pool is implemented; no open session out of everybody's hands, a healthy one is closed only by a removal by key, nothing after the return; the summaries of udp-check are what happened |
| `server_udp` | relay: 3 sessions of one plugin, 2 packets together. Statistics: 2 sessions, one that wraps around the modulus, 4 packets | the hub is exactly who listens; every healthy peer gets every packet once; loss brackets what is missing; the three counts and a snapshot agree |
| `server_session` | 2 handlers, 1 plugin, 2 sessions, 1 payload | the views of "active" and the byte counters agree up to updates in flight; an error returns the lease; goroutines end (both followed for one of the two handlers, which are interchangeable) |
| `relay_live` | 2 sessions, pingers, deadlines, 1 packet each, 1 reply | a slow peer holds its sender up no longer than the deadline; an error ends its session |
| `engine` | 1 TCP connection, 1 byte each way, 2 writers, 2 HTTP servers, 3 plugin lists | `Start` leaves nothing open and its result tells why; a clean end delivers every byte; the recording keeps its limits; the engine and its handlers end |
| `client` | tunnel: 2 workers, 2 retries, a delay of each kind. Session table: 1 source, 2 slots, stalls and deadlines on. UDP check: 2 pings, other senders | a cancellation ends a dial; the group outlives its listeners; the result tells why; the client returns and its handlers end; idle sessions are swept, the shutdown completes; players end (`HandlersEnd` and `IdleSessionSwept` are followed for one worker and one slot: they are interchangeable) |
| `road` | 2 consoles with 1 flow each, 1 crash, 5 starting sets of files (missing, with secrets, with clients whose headers name a host or an origin, with a client that has UDP listeners, with a URL that is refused); lock: 3 processes, 4 files, crashes, one acquisition at a time; one wizard; set-up: 2 tunnel names, 3 hosts | a public server is protected and let in by the file it shares; no engine with a secret runs open; the menu reads back what it wrote; the preflight holds; the lock does what it is for; no orphan cloudflared, a dead tunnel ends the wizard; what is installed is whole and verified or accepted; a restarted wizard ends with the configuration of a tunnel that is there and was listed for its name, and a record of the tunnel of that name |
| `tunnel_reuse` | set-up: 2 tunnel names, one within the other, 1 host | **violated**: the tunnel that is configured is not the one that exists under the name |
| `lock_overlap` | 2 processes, 3 files, no faults | **violated**: two that start together both hold it |
| `wizard_interrupt` | one wizard | **violated**: Ctrl+C may hang in the second `Stop` |
| `udp_check_noise` | 1 ping, other senders | **violated**: a busy server does not stop when its time is over |
| `console_keep` | as `road` | **violated**: settings answered with empty lines erase a secret |

*Why the bounds are enough.* The interesting cases need: two handlers of the
same address and one of another (admission); a window that is full, one that
is over, and one two windows old (four ticks of half a minute); a session that
drains while its successor is in use (two slots for one source) and two keys in
the sweeper's list (two sources); both copiers and the pinger racing for a
handler that receives two errors (one handler), two handlers between their
updates (two); a sender, a peer that fails and one that is healthy (three
sessions), two senders that write to each other (two packets). A flow wraps,
loses, reorders and repeats within three datagrams when the modulus is 4. A
recorder that is full, late and closed needs two writers with a datagram each. A
worker that fails while another dials is two workers. For the lock, a dead owner, a
running owner and a process that acquires are three roles. Two consoles are one
that writes a file and one that writes it between the other's write and read;
a crash leaves one file torn, and every start after that behaves as after any
number of them. A tunnel and a record of another name are two names, and the third
host has a record of another kind.

*Deadlock checking* is off in every configuration: the programs may stop
(listener returned, all processes dead, wizard returned), and the bounds on time
and sessions end every behaviour; that nothing is stuck earlier is what the
liveness properties say.

*Assumptions on constants* are named `ASSUME`s of the modules that declare them, and
TLC evaluates each in a run that extends the module. `DisplacementAssumption` is about
the network, not about the code: it displaces a datagram of a stream by less than half
the modulus (8388608 datagrams), which is what `SeqForwardDistance` takes for granted.

Those of `Console` say what a directory and a user may be. `PathsAssumption` and
`ValuesAssumption` give the files their kinds, let nothing under `configs/.generated` be
seeded, and fix what the wizard composes: the public URL is `wss`, has a host and ends in
`/ws` (wizard_security.go:224, 243). `FoldersAssumption`: a plugin folder has a name (it is
a directory entry), the menu's `target.network` is one the engine knows, and the
templates a plugin.json names are of the kind it says. What a template holds is not
restricted: it may be the user's own `configs/client.json`. `HostIn`, the host that a
header's value names, is any function.
`TypeOK` of the modules whose type is
not an invariant of a run documents the variables and is proved as part of an
inductive invariant where the module has proofs.

## Fairness

Weak fairness on each goroutine's own steps: the Go scheduler runs what can
run. Nothing of the environment is fair: datagrams, replies, failures of a
connection, cancellation, the child's end. Two facts about connections are
built in as fairness or guards: an operation on a *closed* or *lost* connection
returns, and one on a *stalled* connection returns when `ws_idle_timeout` sets
deadlines (`Deadlines`). A copier whose connections are closed fails. In `UDPCheck`
the server's own steps are fair and other senders are not; the server of
`udp_check_noise` fails to stop although its every read succeeds. `wizard_interrupt`
grants even more (every goroutine, and a child that obeys), and the wizard still
hangs. In a run of several models only the one chosen is fair.

## Disagreements found

1. `lock_overlap`: `os.Remove(path)` (wizard_lock.go:56) acts on an earlier read;
   docs/CLOUDFLARE-WIZARD-LIMITS.md:47 says the lock prevents two wizards at the
   same time.
2. `wizard_interrupt`: one value on `proc.done`, two calls of `Stop` that wait
   for it (tunnel_manager.go:425), although the user is told to press Ctrl+C to
   stop.
3. `udp_check_noise`: the server of udp-check looks at its context only when a
   read has failed (udp_check.go:270-274), although "0 means until Ctrl+C"
   (udp_check.go:160): datagrams that keep coming keep it from stopping.
4. `console_keep`: the settings of the server offer "no" for authentication when
   the variable of the secret has no value where they run (settings.go:419); an
   empty answer then erases the reference, although
   docs/CONFIG-PLUGIN-SYSTEM.md:220 says references are kept.
5. `tunnel_reuse`: `findTunnelUUIDByName` takes the first line of the list that
   contains the name anywhere (tunnel_token.go:163), so a wizard for `road` may
   configure `road-eu`, although docs/CLOUDFLARE-WIZARD-LIMITS.md:104 says that
   ROAD reuses the object that exists.

Other things worth knowing, none of them a disagreement: `removeSession(session.key)`
(tunnel.go:249) removes by key and closes whatever session the key has by then,
and so does the sweeper's second loop (tunnel.go:278-280); `HealthyClosedOnlyByKey`
states that these two are the only ways in which a healthy session is closed.
The preflight of road-client sets headers whose names differ only in case in an
order of no particular kind (preflight.go:26), and the dial does so for all clients (tunnel.go:650-664):
`PreflightHolds` excludes a configuration that names a header twice (`Ambiguous`), as the
two requests may then send either value. For the menu's preflight the token's header is set last
and does not count. A header `Origin` or `Host` of the configuration is sent by the dial
(tunnel.go:652-654; the websocket dialer takes the host of the request from it), while
`/api/info` asks for no origin and net/http sends no `Host` header: a client with such a
header may pass its preflight and be refused with 403. `PreflightHolds` allows that one
refusal and no other, and `PublicServerProtected` likewise for the friends, whose file
keeps the headers of its template. It keeps the template's `udp_listeners` too
(wizard_security.go:141-155), whatever the plugin's network is, and a client file with
listeners and another network than UDP does not load (client_config.go:203): a user
whose `configs/client.json` has UDP listeners and who shares the TCP plugin that names it
as its template gives the friends a file they cannot start from (`FitsNetwork`). A seed file left torn by a crash is kept for good (runtime.go:139-172).
A downloaded cloudflared whose `version` fails stays installed and is used the next
time, and the temporary file of a download is shared by all folders of a user
while the lock is of one folder.

## Proofs

Each theorem holds for every value of the constants that the module's named
assumptions allow: any number of handlers, sessions, peers, listeners, players,
processes and files (finite sets where something is counted), any limits and any
bounds. `Spec` stands for the specification of the module.

| Module | Theorem | Statement |
| --- | --- | --- |
| `AdmissionControl` | `TypeCorrect` | `Spec => []TypeOK` |
| | `CountersCorrect` | `Spec => []CountersMatchLeases` |
| | `LimitsCorrect` | `Spec => []LimitsHold` |
| | `LeasePoolImplemented` | `Spec => ImplementsLeasePool` |
| | `LiveWindowsKept` | `Spec => LiveWindowKept` |
| | `RateBounded` | `Spec => []RateBurstBound` |
| | `RefusalsAreDue` | `Spec => RefusedOnlyAtALimit` |
| `ServerSession` | `SessionInvHolds` | `Spec => []SessionInv` |
| | `ViewsAgree` | `Spec => []ActiveViewsAgree` |
| | `NoByteLost` | `Spec => []BytesConserved` |
| `UDPPeerRelay` | `HubListsListeners` | `Spec => []HubIsWhoListens` |
| | `BroadcastReachesAll` | `Spec => []BroadcastExact` |
| `UDPStats` | `StatsInvHolds` | `StatsSpec => []StatsInv` |
| | `LossBracketed` | `StatsSpec => []LossBracketsMissing` |
| | `CountsStayTrue` | `StatsSpec => []CountsAgree` |
| `UDPSessionTable` | `NoSessionLeaks` | `TableSpec => []NoOrphanSession` |
| | `ReturnIsQuiet` | `TableSpec => []QuietAfterReturn` |
| | `HealthyClosedByKey` | `TableSpec => HealthyClosedOnlyByKey` |
| `UDPCheck` | `CheckResultsTrue` | `CheckSpec => []ResultsTrue` |
| `ClientTunnel` | `OneHandshakeIsLate` | `Spec => []OneLateHandshake` |
| | `RecorderClosedLast` | `Spec => []GroupOutlivesListeners` |
| | `GroupResultTellsWhy` | `Spec => []ResultTellsWhy` |
| `UDPRecorder`, `EngineLifecycle` | `FileWithinLimits` | `Spec => []RecordedWithinLimits` |
| | `EngineReleases` | `Spec => []ReturnsReleased` |
| | `CleanEndsDeliver` | `Spec => []CleanEndDelivers` |
| `Console` | `ConsoleTypes` | `Spec => []ConsoleTypeOK` |
| | `NeverSilentlyOpen` | `Spec => []NoSilentOpen` |
| | `SharedHolds` | `Spec => []SharedInv` |
| | `MenuReadsItsOwn` | `Spec => []ReadsBackItsOwn` |
| | `PreflightKept` | `Spec => []PreflightHolds` |
| | `PublicServerHolds` | `Spec => []PublicServerProtected` |
| `PublicServerLock` | `LockInvHolds` | `LockSpec => []LockInv`, when `Overlap = FALSE` |
| | `LockExcludes` | `LockSpec => []MutualExclusion`, when `Overlap = FALSE` |
| | `HolderStaysOnDisk` | `LockSpec => []HolderOnDisk`, when `Overlap = FALSE` |
| `PublicServerWizard` | `NoTunnelLeft` | `WizardSpec => []NoOrphanTunnel` |
| `CloudflaredSetup` | `InstalledVerified` | `SetupSpec => []InstalledIsVerified` |
| | `NamedTunnelFound` | `SetupSpec => []NamedTunnelServes` |

**AdmissionControl.** `TypeOK` alone is inductive once it knows that a
handler past `idle` has an address (`HandlersWellFormed`); the two together are
`TypeInv`. `CountersMatchLeases` is then inductive relative to it (`Inside` is
the conjunction): admission adds one element to a finite set and one to the
counter of its address, and the release's guards never fire the wrong way
because the releasing handler is itself a lease, so that `active > 0` and its
address's entry is at least 1; the entry is 1 exactly when the handler was the
last of its address. `LimitsHold` follows because the guards compare the
counters, which are the cardinalities. The refinement maps a lease to the
record of its handler and address. `LiveWindowKept` needs the bounded skew: a
handler's sampled time is at most `MaxSkew < Minute` behind the clock, so a
window that is live now was live at the sampled time.

The bound on the rate says nothing about the windows, which is what the code keeps,
so its invariant (`RateInv`) relates the two. `WindowsBound` bounds the attempts let
through at most `a` ticks ago, for each `a` within a minute, by a sum of three quotas:
the current window's, which counts what it let through itself; that of the window
before, which sampled times before the current one's start and so is at least
`LeastAge` old; and that of the window before that one, a minute older. A window starts
only a minute after the last one did, so a fourth is out of the minute. A window that is
pruned is two minutes old, and what it answers for is out of the minute but for the
skew (`QuotaOfPruned`). With `MaxSkew = 0` the third quota is out as well, which is why
the bound is twice the limit then and three times otherwise. `WindowsPassed` is the other
direction: the attempts a window has counted and not refused were let through since
its start, so a refusal by the rate finds them.

**ServerSession.** `SessionInv` says what each counter counts: the handlers at the
labels between its update at the start and its update at the end (`CountersOK`). The
three sources of an update are then three changes of one cardinality each, and
`ActiveViewsAgree` is the difference of the label sets. `LeasesOK` ties each handler that
is past admission to one lease. The sums over the plugins change by one summand
(`SumChange`).

**UDPPeerRelay.** `ExactOK` counts, for each sender and peer, what was sent before the peer
came, what it got and what it is about to get, for every peer whose connection may still
come up to the packet, the stalled ones too. To keep it through a broadcast, `BroadcastOK`
says what a sender's list is: fellows under its plugin, none of them itself, and the one it
waits for or writes to no longer in it, so that nobody is written to twice. `StartOK` says
that nothing was sent, got or counted for a session that has not started. The hub is
exactly who listens because entering and leaving it are single critical sections.

**UDPStats.** The counters of a flow say nothing of the stream by themselves: the flow has to
follow it. `Tracks` says that the sequence it expects is that of the position after the newest one,
and that the positions missing up to there are between the loss counted and the loss
less what came late. A datagram ahead of the newest moves the newest by its distance and leaves
one gap less than it counts as lost (`NewerTracks`); one that is behind fills a gap or none
(`OlderTracks`). Which of the two the code takes it for is a question of distances modulo
`Modulo` (`DistanceIsForward`, `DistanceWraps`, `FollowsPosition`), and the answer is right
exactly because the network displaces by less than half of it. For the sums, `PluginsLag` adds
to each plugin's count the datagrams of its sessions that are still on their way to it, which
makes an equation of `AggregatesAgree` that holds at every step; `GlobalLeads` does the same between the
global flow and the plugins, with the datagrams of ended sessions on the one side and those
that are counted globally and not yet by a plugin on the other. `SnapshotBehind` says what a snapshot
that is under way has read compared with what there is now: counts only grow, so what was
read before is behind, and what is between two reads is at most one datagram per session.

**UDPSessionTable.** An open session has one owner: the table, an actor that took it out,
or the main loop between the dial and the insert. `KeysOK` makes removal by key a removal
of the session that has this key, so that it moves a session from the table to one actor's
`closing`; `MainOK` says that the key the main loop is about to insert is not in the
table, so that an insert never overwrites. `FailureOK` is what `HealthyClosedOnlyByKey`
needs: the main loop removes only what it has failed to write to.

**UDPCheck.** Nothing is counted that was not written, received, acknowledged in this
order, and what is in flight was written by somebody (`AnsweredOK`); the counts of a
sequence add up after any numbers in any order (`CountsOK`); a player records what it wrote
in order, with a gap where a write failed (`SendingOK`).

**ClientTunnel.** One handshake may be late because a delay begins only while the context
is not done (`WaitingInTime`). For the group: until its first result is in, only Ctrl+C ends
it (`GroupEndsForAReason`), and a result in the channel has a reason (`ResultsAreTrue`).

**EngineLifecycle.** `OpenAtStage` says what is open at each stage of `Start`, `ReasonsAreTrue`
that every error reported has a failure behind it. A copier is right by itself
(`CopierInv`): what it holds is what it has read and not yet written, and an end of
stream is seen only when all was read. The recorder looks at its limits under the mutex
with the time it was given, so `count` and `lines` stay within them whoever is late.

**Console.** The four properties are about compositions of pure operators that are hardly
ever looked at alone: a configuration goes through a template, the defaults, the menu's
changes, a file, another process and the defaults again before an engine runs it. So the
proof has two parts.

The first is about the operators, for any configuration. They keep its type
(`NormalServerType` to `ClientEditedType`). What was accepted once is accepted when
it is read back (`NormalFields`, `TokensStay`, `RecordTwice`, `FormatTwice`, `WaitsTwice`,
`HeaderTwice`), and so is the list of plugins with the chosen one moved to the front
(`SelectedFirstIs`, by way of `DistinctKeeps`: the de-duplicating loop keeps each name
that is not dropped, once, and the first one first). `OwnIsRead` and `HintLoads` put these
together for the two files that are written to be read: `server.menu.json`, and the client file
of the friends. `SameHeaders` compares the three functions that build the headers of a
request, two of which walk a Go map in an order of their own; `PreflightPasses` says that
whoever is answered 200 at `/api/info` is neither unauthorized nor forbidden at the
WebSocket endpoint. `StrangerShutOut` and `FriendLetIn` are about the server the wizard makes. Of a request they use only its fields
(`Requests`, `Dials`): the host and the origin come from the headers when these name one.

The second is about the processes. `TypeInv` is inductive: it adds to `ConsoleTypeOK` what a
flow holds at each label (`Placed`), as most steps use what an earlier one has read.
`NoSilentOpen` needs `SecureInv`: from the moment a server's configuration is final, its
secrets have values or it names none, and it stays in the hands of its own flow, so that
nothing another console writes meanwhile matters. The other three need `SharedInv`, which
states for each place between two steps what has to survive the steps of everybody else.
A wizard holds the lock from the choice of its plugin to its end (`Locked`). Only a
wizard writes `client.public.menu.json`, hence nobody else does while it holds the lock, a torn
write cannot be somebody else's, and the file in the friends' hands still matches its server
(`Kept`, `Hint`). For `server.menu.json`, which no lock protects, `author` says whether
somebody wrote it in between; if not, it is what the flow wrote (`Own`), whole, as a
write that failed or crashed does not go on to read. What a client dials with is what
its preflight was answered for (`Passed`). A crash of the wizard releases nothing but its
own lock (`SharedDrop`).

**PublicServerLock.** Neither property is inductive: nothing in it keeps a remover from
acting while somebody holds. `LockInv` adds one fact for each place an acquirer can be at.
The file a creator has open is the one the path names, and nobody holds
(`CreatorAlone`); a pid that was read while somebody holds is the holder's
(`SeenIsHolder`), so that the check finds a process that runs; hence a remover removes
while nobody holds (`RemoverAlone`). All three need `OneAcquirer`: between two steps of
one acquisition no other process creates or removes, and a crash or a release only
takes holders away. `HolderNamed` (the path leads to the holder's pid) follows, and
two holders would both be that pid. `Overlap = FALSE` says that acquisitions do not
overlap; the run `lock_overlap` shows what happens when they do.

**PublicServerWizard, CloudflaredSetup.** A call of `Stop` returns only when the child has
ended (`EndIsKnown`), and the wizard only after its own. What reaches the rename was
verified, or its download had no checksum and the user had agreed (`WholeToBeRenamed`). A
wizard knows at each step what it has found or made (`KnownSoFar`), and the account and
the certificate only grow. `NamedTunnelFound` holds whatever names occur in each other: the
id a wizard goes on with is its own tunnel's or one that `Listed` gave it.

`FiniteSums` proves about the library's `SumFunctionOnSet` that one more, a changed or a
shifted summand changes the sum as expected. A sum of naturals is the number of pairs
of an index and a number up to its summand; that is shown once, from the recursion
and the well-foundedness of the subsets of a finite set, and the rest are facts about
cardinalities. The prover's library has no such facts that can be cited without an
operator as a parameter.

`TypeOK`, `LimitsHold` and `LiveWindowKept` of the admission are in no run any more: what is
proved for every instance needs no instance.

*Only model-checked.* Liveness stays with TLC (`ErrorEndsSession`, `ErrorReleasesLease`,
`GoroutinesEnd`, `BroadcastReturns`, `IdleSessionSwept`, `ShutdownCompletes`, `StopReturns`,
`HandlersEnd`, `HandlerEnds`, `EngineStops`, `MCPlayersEnd`, `TunnelExitEndsWizard`):
the prover does not reason about fairness and ENABLED. All the other
properties of the passing runs are proved.
The five runs that expect a violation show it on an instance. `PluginRules` has no theorem
of its own: the proofs use of it what a default plugin is served (`DefaultIsServed`).

## Plan

What is left, in this order.

1. Proofs: `PluginRules` (a valid schema has at most one target of an id, the reply
   policies are ordered by what they let through).
2. The wizard's sub-steps while the engine runs in one module with
   `EngineLifecycle`, instead of an engine that is up or not.
3. The home directory shared by the wizards of several folders.

## Not modelled

Payload bytes, formatting, logging, the dashboard page and the contents of the
JSON it fetches, HTTP parsing and WebSocket framing (library code), DNS, the
operating system's reuse of pids, Cloudflare itself. The diagnostic bundle and the
other one-shot commands of `cmd/road` (ping, validate, generate-config) read files,
print and end. Plugin Studio parses the output of system tools and scores what it
finds with tuned weights: there is no state over time and no promise about the
weights to check them against. `PROJECT.json` lists every component with its status.

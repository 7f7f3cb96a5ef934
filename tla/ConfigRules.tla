----------------------------- MODULE ConfigRules -----------------------------
(***************************************************************************)
(* What the configuration package (internal/config) makes of a decoded     *)
(* file: the defaults it fills in, what it refuses, and what a secret is   *)
(* worth in the environment of a process.                                  *)
(*                                                                         *)
(* A secret is a word or the name of an environment variable; the blanks   *)
(* around one are left out.  environ gives the value of each variable, ""  *)
(* when it is not set.  A duration is "" (missing), "ok", "negative" or    *)
(* "bad" (does not parse).  An address has a host and a port, NoPort when  *)
(* it has none.                                                            *)
(***************************************************************************)
EXTENDS Text, Integers, Sequences, SequencesExt, Functions

\* The elements of seq in order, each once, without those of drop.
Distinct(seq, drop) ==
  FoldLeft(LAMBDA out, x : IF x \in drop \cup ToSet(out) THEN out ELSE Append(out, x),
           <<>>, seq)

-----------------------------------------------------------------------------
(* Secrets. *)

SecretType == [env : BOOLEAN, name : Strings]
Word(w) == [env |-> FALSE, name |-> w]
EnvRef(name) == [env |-> TRUE, name |-> name]
NoSecret == Word("")

ResolveSecret(secret, environ) ==
  IF secret.env /\ secret.name # "" THEN environ[secret.name]
  ELSE IF secret.env THEN "" ELSE secret.name

MissingEnv(secret, environ) == secret.env /\ ResolveSecret(secret, environ) = ""

SecretsOf(cfg) == {cfg.token} \cup ToSet(cfg.extra)

WSAuthTokens(cfg, environ) ==
  {ResolveSecret(secret, environ) : secret \in SecretsOf(cfg)} \ {""}
WSAuthEnabled(cfg, environ) == WSAuthTokens(cfg, environ) # {}

\* normalizeRawSecretExtras, and preserveExtraAuthTokens of the settings.
SecretExtras(primary, extra) == Distinct(extra, {NoSecret, primary})

-----------------------------------------------------------------------------
(* Header names, which are compared without regard to case. *)

DefaultAuthHeaderName == Text("x-road-token")
Authorization == Text("authorization")
InvalidHeaderNames == {Text("auth header")}

AuthHeaderName(raw) == ToLower(TrimSpace(raw))
WSAuthHeader(cfg, environ) ==
  IF WSAuthEnabled(cfg, environ)
  THEN OrElse(AuthHeaderName(cfg.header), DefaultAuthHeaderName)
  ELSE Empty

\* What is sent in a header: a token, after the word Bearer or not.
AuthHeaderValue(header, token) ==
  [bearer |-> AuthHeaderName(header) = Authorization, token |-> token]

\* Normalize of both sides: without a token the name is only trimmed.
NormalHeader(header, authenticated) ==
  IF authenticated THEN OrElse(AuthHeaderName(header), DefaultAuthHeaderName)
  ELSE TrimSpace(header)
ValidHeader(header, authenticated) == authenticated => header \notin InvalidHeaderNames

-----------------------------------------------------------------------------
(* Addresses, durations, numbers, the logging format, the recorder. *)

AddrType == [host : Strings, port : Int]
DurationType == {"", "ok", "negative", "bad"}
RecordType == [enabled : BOOLEAN, duration : DurationType, maxEvents : Int]

NoPort == -1
Addr(host, port) == [host |-> host, port |-> port]
NoAddr == Addr("", NoPort)
Wildcard(addr) == addr.port # NoPort /\ addr.host \in {"", "0.0.0.0", "::"}

DurationOrDefault(duration) == IF duration = "" THEN "ok" ELSE duration
Parses(duration) == duration # "bad"
NotNegative(duration) == duration \notin {"bad", "negative"}

\* A number below the least that is allowed is replaced.
AtLeast(least, number, default) == IF number < least THEN default ELSE number

NormalFormat(format) == OrElse(ToLower(TrimSpace(format)), Text("text"))
ValidFormat(format) == format \in {Text("text"), Text("json")}

NormalRecord(record) ==
  [record EXCEPT !.duration = DurationOrDefault(@), !.maxEvents = IF @ = 0 THEN 5000 ELSE @]
ValidRecord(record) == record.maxEvents >= 0 /\ NotNegative(record.duration)

DefaultRecord == [enabled |-> FALSE, duration |-> "ok", maxEvents |-> 5000]

-----------------------------------------------------------------------------
(***************************************************************************)
(* The server's file.  waits holds the durations, sizes the numbers that   *)
(* are replaced when too small, limits those refused when negative.        *)
(***************************************************************************)
LimitsType == [{"maxConnections", "maxConnectionsPerIP", "rateLimitPerMinute"} -> Int]
WaitsType ==
  [{"dial", "keepAlive", "read", "write", "handshake", "idle", "ping", "readHeader",
    "controlRead", "controlWrite", "controlReadHeader"} -> DurationType]
SizesType == [{"buffer", "message", "header"} -> Int]

ServerType ==
  [tcp : AddrType, http : BOOLEAN, httpAddr : AddrType, wsEndpoint : Strings,
   token : SecretType, extra : Seq(SecretType), header : TextType,
   allowedOrigins : Seq(Seq(Strings)), allowedHosts : Seq(Seq(Strings)), trustProxy : BOOLEAN,
   limits : LimitsType, waits : WaitsType, sizes : SizesType,
   control : BOOLEAN, controlAddr : AddrType, pluginAPIPublic : BOOLEAN,
   pluginDir : Strings, enabled : Seq(TextType), format : TextType, record : RecordType]

MinimumSafeBufferSize == 1024

Default ==
  [tcp |-> Addr("0.0.0.0", 25567),
   http |-> TRUE, httpAddr |-> Addr("0.0.0.0", 8080), wsEndpoint |-> "/ws",
   token |-> NoSecret, extra |-> <<>>, header |-> Empty,
   allowedOrigins |-> <<>>, allowedHosts |-> <<>>, trustProxy |-> FALSE,
   limits |-> [maxConnections |-> 0, maxConnectionsPerIP |-> 0, rateLimitPerMinute |-> 0],
   waits |-> [dial |-> "ok", keepAlive |-> "ok", read |-> "ok", write |-> "ok",
              handshake |-> "ok", idle |-> "ok", ping |-> "ok", readHeader |-> "ok",
              controlRead |-> "ok", controlWrite |-> "ok", controlReadHeader |-> "ok"],
   sizes |-> [buffer |-> 32768, message |-> 1048576, header |-> 1048576],
   control |-> TRUE, controlAddr |-> Addr("0.0.0.0", 8081), pluginAPIPublic |-> TRUE,
   pluginDir |-> "plugins", enabled |-> <<Text("minecraft")>>,
   format |-> Text("text"), record |-> DefaultRecord]

OrDefault(value, none, default) == IF value = none THEN default ELSE value

NormalWaits(waits) ==
  [waits EXCEPT !.idle = DurationOrDefault(@), !.ping = DurationOrDefault(@)]
NormalSizes(sizes) ==
  [buffer |-> AtLeast(MinimumSafeBufferSize, sizes.buffer, Default.sizes.buffer),
   message |-> AtLeast(1, sizes.message, Default.sizes.message),
   header |-> AtLeast(1, sizes.header, Default.sizes.header)]

NormalServer(cfg, environ) ==
  [cfg EXCEPT
     !.tcp = OrDefault(@, NoAddr, Default.tcp),
     !.httpAddr = OrDefault(@, NoAddr, Default.httpAddr),
     !.controlAddr = OrDefault(@, NoAddr, Default.controlAddr),
     !.wsEndpoint = OrDefault(@, "", "/ws"),
     !.pluginDir = OrDefault(@, "", "plugins"),
     !.extra = SecretExtras(cfg.token, @),
     !.header = NormalHeader(@, WSAuthEnabled(cfg, environ)),
     !.allowedOrigins = Distinct(@, {<<>>}),
     !.allowedHosts = Distinct(@, {<<>>}),
     !.enabled = [i \in DOMAIN @ |-> TrimSpace(@[i])],
     !.waits = NormalWaits(@),
     !.sizes = NormalSizes(@),
     !.format = NormalFormat(@),
     !.record = NormalRecord(@)]

PluginNamesOK(enabled) ==
  /\ enabled # <<>> /\ Empty \notin ToSet(enabled)
  /\ IsInjective(enabled)

\* cfg is what NormalServer returned; strict is ~AllowMissingEnvSecrets.
ServerAccepted(cfg, environ, strict) ==
  /\ strict => \A secret \in SecretsOf(cfg) : ~ MissingEnv(secret, environ)
  /\ ValidHeader(cfg.header, WSAuthEnabled(cfg, environ))
  /\ \A limit \in DOMAIN cfg.limits : cfg.limits[limit] >= 0
  /\ PluginNamesOK(cfg.enabled)
  /\ ValidFormat(cfg.format) /\ ValidRecord(cfg.record)
  /\ \A wait \in DOMAIN cfg.waits : Parses(cfg.waits[wait])

HasOpenNoAuthListener(cfg, environ) ==
  /\ ~ WSAuthEnabled(cfg, environ)
  /\ \/ cfg.http /\ Wildcard(cfg.httpAddr)
     \/ cfg.control /\ Wildcard(cfg.controlAddr)

-----------------------------------------------------------------------------
(***************************************************************************)
(* The client's file.  A URL has a scheme ("" when it is not written), a   *)
(* host with its port, and a path.                                         *)
(***************************************************************************)
URLType == [scheme : Strings, host : Strings, path : Strings]
URL(scheme, host, path) == [scheme |-> scheme, host |-> host, path |-> path]
NoURL == URL("", "", "")

ValidServerWSURL(url) == url.scheme \in {"ws", "wss"} /\ url.host # ""

ListenerType == [addr : TextType, target : TextType]
ClientWaitsType ==
  [{"retryInitial", "retryMax", "idle", "ping", "udpIdle", "udpMetrics", "handshake", "read",
    "write"} -> DurationType]
ClientSizesType == [{"buffer", "message"} -> Int]

\* maps are the headers a configuration may add, by name.
ClientType(maps) ==
  [listen : AddrType, network : TextType, udpListeners : Seq(ListenerType),
   url : URLType, plugin : TextType, token : SecretType, header : TextType,
   headers : maps, retries : Int, waits : ClientWaitsType, sizes : ClientSizesType,
   format : TextType, record : RecordType]

DefaultClient ==
  [listen |-> Addr("127.0.0.1", 25568), network |-> Text("tcp"), udpListeners |-> <<>>,
   url |-> URL("ws", "127.0.0.1:8080", "/ws"), plugin |-> Text("minecraft"),
   token |-> NoSecret, header |-> Empty, headers |-> <<>>,
   retries |-> 3,
   waits |-> [retryInitial |-> "ok", retryMax |-> "ok", idle |-> "ok", ping |-> "ok",
              udpIdle |-> "ok", udpMetrics |-> "ok", handshake |-> "ok", read |-> "ok",
              write |-> "ok"],
   sizes |-> [buffer |-> 32768, message |-> 1048576],
   format |-> Text("text"), record |-> DefaultRecord]

NormalListener(listener) ==
  [addr |-> TrimSpace(listener.addr), target |-> TrimSpace(listener.target)]

NormalClient(cfg, environ) ==
  [cfg EXCEPT
     !.listen = OrDefault(@, NoAddr, DefaultClient.listen),
     !.network = ToLower(TrimSpace(OrElse(@, Text("tcp")))),
     !.udpListeners = [i \in DOMAIN @ |-> NormalListener(@[i])],
     !.url = OrDefault(@, NoURL, DefaultClient.url),
     !.plugin = OrElse(@, Text("minecraft")),
     !.header = NormalHeader(@, ResolveSecret(cfg.token, environ) # ""),
     !.retries = AtLeast(0, @, 0),
     !.waits = [wait \in DOMAIN @ |->
                  IF wait \in {"handshake", "read", "write"} THEN @[wait]
                  ELSE DurationOrDefault(@[wait])],
     !.sizes = [buffer |-> AtLeast(MinimumSafeBufferSize, @.buffer, DefaultClient.sizes.buffer),
                message |-> AtLeast(1, @.message, DefaultClient.sizes.message)],
     !.format = NormalFormat(@),
     !.record = NormalRecord(@)]

UDPListenersOK(listeners) ==
  /\ \A i \in DOMAIN listeners : listeners[i].addr # Empty
  /\ \A i, j \in DOMAIN listeners : EqualFold(listeners[i].addr, listeners[j].addr) => i = j

ClientAccepted(cfg, environ, strict, checkURL) ==
  /\ checkURL => ValidServerWSURL(cfg.url)
  /\ strict => ~ MissingEnv(cfg.token, environ)
  /\ ValidHeader(cfg.header, ResolveSecret(cfg.token, environ) # "")
  /\ ValidFormat(cfg.format) /\ ValidRecord(cfg.record)
  /\ cfg.network \in {Text("tcp"), Text("udp")}
  /\ cfg.udpListeners # <<>> => cfg.network = Text("udp")
  /\ UDPListenersOK(cfg.udpListeners)
  /\ \A wait \in DOMAIN cfg.waits : Parses(cfg.waits[wait])
  /\ NotNegative(cfg.waits.udpMetrics)

-----------------------------------------------------------------------------
(***************************************************************************)
(* Load: a file that is not there, or not all there, is no configuration.  *)
(***************************************************************************)
Absent == [file |-> "absent"]
Torn == [file |-> "torn"]
Readable(content) == content \notin {Absent, Torn}

LoadsServer(content, environ, strict) ==
  Readable(content) /\ ServerAccepted(NormalServer(content, environ), environ, strict)
LoadsClient(content, environ, strict, checkURL) ==
  Readable(content) /\ ClientAccepted(NormalClient(content, environ), environ, strict, checkURL)
=============================================================================

----------------------------- MODULE ControlAPI ------------------------------
(***************************************************************************)
(* What a running engine answers to an HTTP request, on its data plane     *)
(* (internal/engine/http.go: setupDataServer) and on its control plane     *)
(* (setupControlServer), and the headers the clients send.  An answer is   *)
(* its status; 101 is an upgrade to a WebSocket.  The limits of admission  *)
(* and what follows the upgrade are in AdmissionControl and ServerSession. *)
(*                                                                         *)
(* A request has a method, a path, the name of a plugin (of the path or of *)
(* the query), a target, headers by name, a host and an origin.  A host is *)
(* the sequence of its labels, in lower case; of an origin only the host   *)
(* counts, <<>> when there is none.  An origin that does not parse is left *)
(* out.                                                                    *)
(***************************************************************************)
EXTENDS ConfigRules, PluginRules

CONSTANT HostIn(_)  \* the host that the value of a header names, as labels

NoOrigin == <<>>
Request(path, headers) ==
  [method |-> "GET", path |-> path, plugin |-> Empty, target |-> Empty,
   headers |-> headers, host |-> <<"localhost">>, origin |-> NoOrigin]

-----------------------------------------------------------------------------
(* security.go. *)

HostMatches(host, allowed) ==
  \E pattern \in ToSet(allowed) :
    \/ pattern = <<"*">> \/ pattern = host
    \/ /\ pattern[1] = "*" /\ Len(host) >= Len(pattern)
       /\ IsSuffix(Tail(pattern), host)

HostAllowed(cfg, request) ==
  cfg.allowedHosts = <<>> \/ HostMatches(request.host, cfg.allowedHosts)

CheckWebSocketOrigin(cfg, request) ==
  /\ HostAllowed(cfg, request)
  /\ \/ cfg.allowedOrigins = <<>>
     \/ request.origin = NoOrigin
     \/ HostMatches(request.origin, cfg.allowedOrigins)

AllowPluginAPI(cfg, environ) == cfg.pluginAPIPublic \/ WSAuthEnabled(cfg, environ)

-----------------------------------------------------------------------------
(* validateWSToken: the header of the configuration or else Authorization. *)

Provided(cfg, environ, request) ==
  {request.headers[name].token :
     name \in DOMAIN request.headers \cap
       (IF WSAuthHeader(cfg, environ) \in DOMAIN request.headers
        THEN {WSAuthHeader(cfg, environ)} ELSE {Authorization})}

ValidateWSToken(cfg, environ, request) ==
  \/ ~ WSAuthEnabled(cfg, environ)
  \/ Provided(cfg, environ, request) \cap WSAuthTokens(cfg, environ) # {}

-----------------------------------------------------------------------------
(* The handlers.  disk maps the folders under plugins to what they hold.   *)

Get(request, status) == IF request.method = "GET" THEN status ELSE 405

\* readPluginJSON: a file that is not there, not JSON, or fine.
JSONStatus(state) ==
  CASE state = "absent" -> 404 [] state = "bad" -> 500 [] state = "ok" -> 200

FileOf(disk, name, file) ==
  IF name \in DOMAIN disk THEN disk[name][file] ELSE "absent"

\* handlePluginInfo and handlePluginConfig read one file, handlePluginDownload
\* reads both and does without the second.
PluginFileStatus(disk, request, file) ==
  IF request.plugin = Empty THEN 400
  ELSE JSONStatus(FileOf(disk, request.plugin, file))

PluginBundleStatus(disk, request) ==
  IF PluginFileStatus(disk, request, "plugin") = 200 /\
       FileOf(disk, request.plugin, "config") = "bad"
  THEN 500 ELSE PluginFileStatus(disk, request, "plugin")

PluginAPI(cfg, environ, status) == IF AllowPluginAPI(cfg, environ) THEN status ELSE 403

\* handleWebSocket, up to the upgrade, for plugins that are loaded.
WebSocketStatus(cfg, environ, plugins, request) ==
  CASE request.method # "GET" -> 405
    [] request.method = "GET" /\ ~ ValidateWSToken(cfg, environ, request) -> 401
    [] OTHER ->
       IF ~ Resolves(plugins, request.plugin) THEN 400
       ELSE LET plugin == ResolvePlugin(plugins, cfg.enabled, request.plugin)
            IN  IF ~ KnownTarget(plugin, request.target) THEN 400
                ELSE IF IsBlank(ResolveTarget(plugin, request.target).address) THEN 502
                ELSE IF CheckWebSocketOrigin(cfg, request) THEN 101 ELSE 403

\* The data plane: the host first, then the path.
DataStatus(cfg, environ, plugins, request) ==
  CASE ~ HostAllowed(cfg, request) -> 403
    [] OTHER ->
       CASE request.path = cfg.wsEndpoint -> WebSocketStatus(cfg, environ, plugins, request)
         [] request.path = "/api/ping" -> Get(request, 200)
         [] request.path = "/api/info" ->
              IF ValidateWSToken(cfg, environ, request) THEN 200 ELSE 401
         [] OTHER -> 404

\* The control plane: the token first, except for the shell of the dashboard.
IsDashboardShellRequest(request) == request.method = "GET" /\ request.path = "/dashboard"

ControlStatus(cfg, environ, disk, request) ==
  CASE ~ IsDashboardShellRequest(request) /\ ~ ValidateWSToken(cfg, environ, request) -> 401
    [] OTHER ->
       IF ~ HostAllowed(cfg, request) THEN 403 ELSE
       CASE request.path \in {"/api/ping", "/api/sessions", "/dashboard"} -> Get(request, 200)
         [] request.path = "/api/plugins" -> PluginAPI(cfg, environ, 200)
         [] request.path = "/api/plugin/info/" ->
              Get(request, PluginAPI(cfg, environ, PluginFileStatus(disk, request, "plugin")))
         [] request.path = "/api/plugin/config/" ->
              Get(request, PluginAPI(cfg, environ, PluginFileStatus(disk, request, "config")))
         [] request.path = "/api/plugin/download/" ->
              Get(request, PluginAPI(cfg, environ, PluginBundleStatus(disk, request)))
         [] OTHER -> 200

-----------------------------------------------------------------------------
(***************************************************************************)
(* The headers a client sends: those of its configuration, then its token. *)
(* The dial (buildDialHeaders) and the menu's own requests                 *)
(* (clientProfileFetchHeaders) set them in that order, on names without    *)
(* case; of two names that differ in case, either may be set last.  The    *)
(* preflight of road-client collects them all by name as written, and only *)
(* then sets them, in no particular order.                                 *)
(***************************************************************************)
SetInAnyOrder(headers) ==
  LET names == {AuthHeaderName(n) : n \in DOMAIN headers}
      last == {f \in [names -> DOMAIN headers] : \A n \in names : AuthHeaderName(f[n]) = n}
  IN  {[n \in names |-> headers[f[n]]] : f \in last}

WithHeader(headers, name, token) ==
  [n \in DOMAIN headers \cup {name} |->
     IF n = name THEN AuthHeaderValue(name, token) ELSE headers[n]]

\* Mutant: the dial sends the token as it is written.
MutantRawToken(cfg, environ) ==
  LET name == AuthHeaderName(OrElse(TrimSpace(cfg.header), DefaultAuthHeaderName))
  IN  {IF cfg.token = NoSecret THEN headers ELSE WithHeader(headers, name, cfg.token.name) :
         headers \in SetInAnyOrder(cfg.headers)}

DialHeaders(cfg, environ) ==
  LET token == ResolveSecret(cfg.token, environ)
      name == AuthHeaderName(OrElse(TrimSpace(cfg.header), DefaultAuthHeaderName))
  IN  {IF token = "" THEN headers ELSE WithHeader(headers, name, token) :
         headers \in SetInAnyOrder(cfg.headers)}

ClientProfileFetchHeaders(cfg, environ) == DialHeaders(cfg, environ)

PreflightHeaders(cfg, environ) ==
  LET token == ResolveSecret(cfg.token, environ)
      name == OrElse(TrimSpace(cfg.header), DefaultAuthHeaderName)
  IN  SetInAnyOrder(IF token = "" THEN cfg.headers ELSE WithHeader(cfg.headers, name, token))

(***************************************************************************)
(* What the server makes of them: the host of a request is no header to    *)
(* its handlers, and an origin is one.  The dialer of the WebSocket library *)
(* takes the host from the headers it is given, when they name one; the    *)
(* HTTP client of the preflight drops that header, and asks the host of    *)
(* the URL.                                                                *)
(***************************************************************************)
HostHeader == Text("host")
OriginHeader == Text("origin")

Received(path, headers, host) ==
  [Request(path, Restrict(headers, DOMAIN headers \ {HostHeader})) EXCEPT
     !.host = host,
     !.origin = IF OriginHeader \in DOMAIN headers THEN HostIn(headers[OriginHeader]) ELSE NoOrigin]

FetchRequest(path, headers, host) == Received(path, headers, host)

DialRequest(path, headers, host) ==
  Received(path, headers,
           IF HostHeader \in DOMAIN headers THEN HostIn(headers[HostHeader]) ELSE host)

\* The headers tell the server a host or an origin of their own.
NamesAddress(headers) == {HostHeader, OriginHeader} \cap DOMAIN headers # {}
=============================================================================

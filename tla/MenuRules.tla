------------------------------ MODULE MenuRules ------------------------------
(***************************************************************************)
(* What the interactive menu (cmd/road) computes between reading a file    *)
(* and writing one: the list of plugins, the server configuration of the   *)
(* chosen plugin, the ports, the two configurations of the Public Server   *)
(* Wizard, the client's URL and profile, and the edits of the settings.    *)
(***************************************************************************)
EXTENDS ConfigRules

(***************************************************************************)
(* flow_server.go, loadMenuPlugins: a folder with a readable plugin.json   *)
(* is an entry; nothing of it is validated.                                *)
(***************************************************************************)
PluginType == [name : TextType, network : TextType, server : Strings, client : Strings]

MenuPlugin(folder, doc) ==
  [name |-> OrElse(TrimSpace(doc.name), folder),
   network |-> OrElse(ToLower(TrimSpace(doc.network)), Text("tcp")),
   server |-> doc.server, client |-> doc.client]

MenuPlugins(folders) == {MenuPlugin(folder, folders[folder]) : folder \in DOMAIN folders}

(***************************************************************************)
(* buildServerConfigFromPlugin.  exists tells the files there are.         *)
(***************************************************************************)
FallbackTemplate(plugin) ==
  IF plugin.network = Text("udp") THEN "configs/server-udp.example.json" ELSE "configs/server.json"

ServerTemplate(plugin, exists) ==
  IF plugin.server \in exists THEN plugin.server ELSE FallbackTemplate(plugin)

\* Mutant: the chosen plugin is put in front without looking for it.
MutantSelectedTwice(name, enabled) == <<TrimSpace(name)>> \o enabled

\* Also ensureSelectedPluginFirst of the wizard.
SelectedFirst(name, enabled) == Distinct(<<TrimSpace(name)>> \o enabled, {Empty})

WithPlugin(cfg, plugin) ==
  [cfg EXCEPT
     !.pluginDir = "plugins",
     !.enabled = SelectedFirst(plugin.name, @),
     !.tcp = IF plugin.network = Text("udp") THEN Addr("0.0.0.0", 0) ELSE @]

(***************************************************************************)
(* applyServerPortOverrides: an answer is a port or NoPort for none.  The  *)
(* first listener of a UDP plugin may be given port 0.                     *)
(***************************************************************************)
Override(addr, port) == IF port = NoPort THEN addr ELSE [addr EXCEPT !.port = port]
InRange(port, least) == port = NoPort \/ port \in least .. 65535

OverridesAccepted(cfg, plugin, ports) ==
  /\ cfg.tcp.port # NoPort
  /\ InRange(ports.tcp, IF plugin.network = Text("udp") THEN 0 ELSE 1)
  /\ cfg.http => cfg.httpAddr.port # NoPort /\ InRange(ports.http, 1)
  /\ cfg.control => cfg.controlAddr.port # NoPort /\ InRange(ports.control, 1)

WithPorts(cfg, ports) ==
  [cfg EXCEPT
     !.tcp = Override(@, ports.tcp),
     !.httpAddr = IF cfg.http THEN Override(@, ports.http) ELSE @,
     !.controlAddr = IF cfg.control THEN Override(@, ports.control) ELSE @]

ServerListenPorts(cfg) ==
  {port \in {cfg.tcp.port} \cup (IF cfg.http THEN {cfg.httpAddr.port} ELSE {})
                           \cup (IF cfg.control THEN {cfg.controlAddr.port} ELSE {}) : port > 0}

-----------------------------------------------------------------------------
(***************************************************************************)
(* wizard_security.go.  host is the public name, as labels.                *)
(***************************************************************************)
LocalHosts == <<<<"127", "0", "0", "1">>, <<"localhost">>, <<"::1">>>>
PublicAllowedHosts(host) == IF host = <<>> THEN <<>> ELSE <<host>> \o LocalHosts
PublicAllowedOrigins(host) ==
  SubSeq(LocalHosts, 1, 2) \o (IF host = <<>> THEN <<>> ELSE <<host>>)

PublicServerConfig(cfg, plugin, ports, host, token) ==
  [cfg EXCEPT
     !.tcp = Addr("127.0.0.1", 0),
     !.http = TRUE, !.httpAddr = Addr("127.0.0.1", ports.http), !.wsEndpoint = "/ws",
     !.token = token, !.extra = <<>>, !.header = DefaultAuthHeaderName,
     !.trustProxy = TRUE,
     !.limits = [maxConnections |-> 16, maxConnectionsPerIP |-> 8, rateLimitPerMinute |-> 60],
     !.allowedHosts = PublicAllowedHosts(host), !.allowedOrigins = PublicAllowedOrigins(host),
     !.control = TRUE, !.controlAddr = Addr("127.0.0.1", ports.control),
     !.pluginAPIPublic = FALSE,
     !.enabled = SelectedFirst(plugin.name, @)]

\* template is the content of the plugin's client template, which is used when
\* it loads.
PublicClientConfig(template, environ, plugin, url, token) ==
  [(IF LoadsClient(template, environ, TRUE, TRUE) THEN NormalClient(template, environ)
    ELSE DefaultClient) EXCEPT
     !.url = url, !.plugin = plugin.name, !.network = plugin.network,
     !.token = token, !.header = DefaultAuthHeaderName]

-----------------------------------------------------------------------------
(***************************************************************************)
(* wsurl.go.  local holds the hosts that isLocalHostOrLAN accepts.         *)
(***************************************************************************)
WSScheme(url, local) ==
  CASE url.scheme = "" -> IF url.host \in local THEN "ws" ELSE "wss"
    [] url.scheme = "http" -> "ws"
    [] url.scheme = "https" -> "wss"
    [] OTHER -> url.scheme

ClientWSURLAccepted(url, local) == url.host # "" /\ WSScheme(url, local) \in {"ws", "wss"}

NormalClientWSURL(url, local) ==
  URL(WSScheme(url, local), url.host, IF url.path \in {"", "/"} THEN "/ws" ELSE url.path)

ShouldRequireClientProfile(cfg, endpointChanged, local) ==
  \/ endpointChanged
  \/ cfg.token # NoSecret
  \/ cfg.url.host # "" /\ cfg.url.host \notin local

-----------------------------------------------------------------------------
(***************************************************************************)
(* flow_client.go: the token that is asked for, the profile of the server, *)
(* and the client template of the plugin it names.                         *)
(***************************************************************************)
PromptedToken(cfg, token) ==
  IF token = NoSecret THEN cfg
  ELSE [cfg EXCEPT !.token = token, !.header = OrDefault(@, Empty, DefaultAuthHeaderName)]

WithProfile(cfg, profile) ==
  [cfg EXCEPT
     !.plugin = IF IsBlank(profile.name) THEN @ ELSE profile.name,
     !.network = IF ToLower(TrimSpace(profile.network)) \in {Text("tcp"), Text("udp")}
                 THEN ToLower(TrimSpace(profile.network)) ELSE @]

\* The template that counts is that of the first entry with the profile's name.
ClientTemplate(plugins, profile) ==
  LET named == {plugin \in plugins : plugin.name = TrimSpace(profile.name)}
  IN  IF IsBlank(profile.name) \/ named = {} THEN "" ELSE (CHOOSE plugin \in named : TRUE).client

FromTemplate(cfg, template, profile, environ) ==
  LET loaded == NormalClient(template, environ)
  IN  [loaded EXCEPT
         !.url = cfg.url, !.plugin = TrimSpace(profile.name),
         !.token = cfg.token, !.header = cfg.header,
         !.headers = IF cfg.headers = <<>> THEN @ ELSE cfg.headers,
         !.network = IF profile.network \in {Text("tcp"), Text("udp")} THEN profile.network ELSE @]

-----------------------------------------------------------------------------
(***************************************************************************)
(* settings.go.  An answer is <<>> for an empty line, which stands for the *)
(* value shown, or the sequence of what was typed.  The edited file is     *)
(* checked by Normalize on a copy and saved as it was edited.  Of the      *)
(* answers that only replace a value, some are left out.                   *)
(***************************************************************************)
ServerAnswerType ==
  [http : Seq(BOOLEAN), control : Seq(BOOLEAN), public : Seq(BOOLEAN), auth : Seq(BOOLEAN),
   token : Seq(SecretType), header : Seq(TextType)]
ClientAnswerType ==
  [url : Seq(URLType), plugin : Seq(PluginType), network : Seq(TextType), auth : Seq(BOOLEAN),
   token : Seq(SecretType), header : Seq(TextType)]

Answered(answer, shown) == IF answer = <<>> THEN shown ELSE answer[1]

ShownHeader(header) == IF IsBlank(header) THEN DefaultAuthHeaderName ELSE header

ClientAuthEdited(cfg, answers) ==
  IF Answered(answers.auth, cfg.token # NoSecret)
  THEN [cfg EXCEPT !.token = Answered(answers.token, @),
                   !.header = TrimSpace(Answered(answers.header, ShownHeader(@)))]
  ELSE [cfg EXCEPT !.token = NoSecret, !.header = Empty]

\* The network that is answered, unless a plugin is chosen after it.
ShownNetwork(network) ==
  IF ToLower(TrimSpace(network)) = Text("udp") THEN Text("udp") ELSE Text("tcp")
PluginNetwork(answers, shown) ==
  LET network == Answered(answers.network, shown)
  IN  IF answers.plugin # <<>> /\ answers.plugin[1].network \in {Text("tcp"), Text("udp")}
      THEN answers.plugin[1].network ELSE network

ClientEdited(cfg, environ, answers, local) ==
  LET moved == [cfg EXCEPT
        !.url = IF answers.url = <<>> THEN @ ELSE NormalClientWSURL(answers.url[1], local),
        !.plugin = IF answers.plugin = <<>> THEN @ ELSE answers.plugin[1].name,
        !.network = PluginNetwork(answers, ShownNetwork(@))]
  IN  ClientAuthEdited(moved, answers)

ClientEditSaved(cfg, environ, answers, local) ==
  /\ answers.url # <<>> => ClientWSURLAccepted(answers.url[1], local)
  /\ LET edited == ClientEdited(cfg, environ, answers, local)
     IN  ClientAccepted(NormalClient(edited, environ), environ, FALSE, TRUE)

\* The token shown is the first one there is, or a new one.
ShownToken(cfg, fresh) ==
  CASE cfg.token # NoSecret -> cfg.token
    [] cfg.token = NoSecret /\ cfg.extra # <<>> /\ cfg.extra[1] # NoSecret -> cfg.extra[1]
    [] OTHER -> fresh

ServerAuthEdited(cfg, environ, answers, fresh) ==
  LET token == Answered(answers.token, ShownToken(cfg, fresh))
  IN  IF Answered(answers.auth, WSAuthEnabled(cfg, environ))
      THEN [cfg EXCEPT !.token = token, !.extra = SecretExtras(token, @),
                       !.header = TrimSpace(Answered(answers.header, ShownHeader(@)))]
      ELSE [cfg EXCEPT !.token = NoSecret, !.extra = <<>>, !.header = Empty]

ServerEdited(cfg, environ, answers, fresh) ==
  ServerAuthEdited(
    [cfg EXCEPT !.http = Answered(answers.http, @),
                !.control = Answered(answers.control, @),
                !.pluginAPIPublic = Answered(answers.public, @)],
    environ, answers, fresh)

ServerEditSaved(cfg, environ, answers, fresh) ==
  LET edited == ServerEdited(cfg, environ, answers, fresh)
  IN  ServerAccepted(NormalServer(edited, environ), environ, FALSE)
=============================================================================

------------------------------- MODULE Console -------------------------------
(***************************************************************************)
(* The programs a user starts on one machine (cmd/road with its menu,      *)
(* cmd/server, cmd/client) and the files they share: the user's own files  *)
(* under configs, seeded when missing and edited by the settings, and the  *)
(* files under configs/.generated, which a flow writes and sometimes reads *)
(* back.  A file is written in place: it is empty, then whole, and a crash *)
(* or a failed write leaves it torn.                                       *)
(*                                                                         *)
(* A console is one process.  A flow reads files at once and writes one    *)
(* file at a time; what it computes is in MenuRules and ConfigRules, what  *)
(* a running engine answers in ControlAPI.  The lock of the wizard is that *)
(* of PublicServerLock, taken at once; the tunnel, the engine and the      *)
(* client's tunnel are those of PublicServerWizard, EngineLifecycle and    *)
(* ClientTunnel, here only up or not.                                      *)
(***************************************************************************)
EXTENDS MenuRules, ControlAPI, FiniteSetsExt

CONSTANTS
  Consoles,      \* processes
  Flows,         \* what each console is used for
  Environments,  \* the environments a console may be started in
  Folders,       \* plugin folders: what the menu reads of each plugin.json
  Disk,          \* plugin folders: what the engine loads of each
  StartFiles,    \* what the files may hold at first
  Seeds,         \* the user files, in order, and what each is seeded with
  ServerPaths,   \* the files that hold a server's configuration
  ClientPaths,   \* the files that hold a client's configuration
  HeaderMaps,    \* the headers configurations add, by name
  Ports,         \* the answers to the questions about ports
  Tokens,        \* bound: the tokens that can be generated, in order
  LocalNames,    \* the hosts of URLs that are local, with the port each names
  PublicHost,    \* the name of the tunnel, as labels, and its URL
  PublicURL,
  URLs,          \* the URLs a user types
  PromptTokens,  \* the tokens a user types when asked
  ServerAnswers, \* the answers to the settings of the server
  ClientAnswers, \* the answers to the settings of the client
  MaxFlows,      \* bound: the flows started by each console
  MaxCrashes,    \* bound: crashes and failed writes
  Nobody

\* What a console may be used for, and where it may be.
FlowNames ==
  {"wizard", "server", "road-server", "client", "road-client", "edit-server", "edit-client"}
Labels ==
  {"down", "menu", "layout", "seed", "fill", "choose", "template", "reload", "free", "hint",
   "listen", "running", "input", "profile", "preflight", "dial"} \cup FlowNames

ASSUME ConsoleAssumption ==
  /\ Nobody \notin Consoles
  /\ \A c \in Consoles : Flows[c] \subseteq FlowNames
  /\ {MaxFlows, MaxCrashes} \subseteq Nat

ServerJSON == "configs/server.json"
ClientJSON == "configs/client.json"

\* A file holds one kind of configuration, or none.
ServerFile == ServerType \cup {Absent, Torn}
ClientFile == ClientType(HeaderMaps) \cup {Absent, Torn}

\* The files under configs/.generated.
Generated ==
  {"server.menu.json", "server.runtime.menu.json", "server.public.menu.json",
   "client.menu.json", "client.public.menu.json"}

ASSUME PathsAssumption ==
  /\ {ServerJSON, "configs/server-udp.example.json", "server.menu.json",
      "server.runtime.menu.json", "server.public.menu.json"} \subseteq ServerPaths
  /\ {ClientJSON, "client.menu.json", "client.public.menu.json"} \subseteq ClientPaths
  /\ ServerPaths \cap ClientPaths = {}
  /\ \A i \in DOMAIN Seeds : Seeds[i].path \notin Generated

FilesTypeOK(held) ==
  /\ DOMAIN held = ServerPaths \cup ClientPaths
  /\ \A path \in ServerPaths : held[path] \in ServerFile
  /\ \A path \in ClientPaths : held[path] \in ClientFile

ASSUME ValuesAssumption ==
  /\ \A held \in StartFiles : FilesTypeOK(held)
  /\ DOMAIN Seeds \subseteq Nat
  /\ \A i \in DOMAIN Seeds :
       \/ Seeds[i].path \in ServerPaths /\ Seeds[i].content \in ServerType
       \/ Seeds[i].path \in ClientPaths /\ Seeds[i].content \in ClientType(HeaderMaps)
  /\ <<>> \in HeaderMaps /\ \A headers \in HeaderMaps : DOMAIN headers \subseteq TextType
  /\ Ports \subseteq [tcp : Int, http : Int, control : Int]
  /\ Tokens \in Seq(Strings) /\ \A i \in DOMAIN Tokens : Tokens[i] # ""
  /\ PublicHost \in Seq(Strings) /\ PublicURL \in URLType /\ URLs \subseteq URLType
  /\ PublicURL.scheme = "wss" /\ PublicURL.host # "" /\ PublicURL.path = "/ws"
  /\ PromptTokens \subseteq SecretType
  /\ ServerAnswers \subseteq ServerAnswerType /\ ClientAnswers \subseteq ClientAnswerType

\* The templates a plugin names are of the kind it says, if they are there; its
\* network is one the engine knows.
ASSUME FoldersAssumption ==
  /\ \A folder \in DOMAIN Folders :
       /\ folder \in TextType /\ ~ IsBlank(folder) /\ Folders[folder] \in PluginType
       /\ MenuPlugin(folder, Folders[folder]).network \in Networks
       /\ Folders[folder].server \notin ClientPaths
       /\ Folders[folder].client \notin ServerPaths
  /\ \A folder \in DOMAIN Disk : "target" \in DOMAIN Disk[folder]

VARIABLES
  files,    \* what each file holds
  author,   \* history: the console that last wrote each file
  at,       \* where each console is
  environ,  \* the environment of each console
  hand,     \* the local variables of each console's flow
  lock,     \* the console whose pid is in the lock file
  minted,   \* how many tokens were generated
  flows,    \* how many flows each console started
  crashes

vars == <<files, author, at, environ, hand, lock, minted, flows, crashes>>

Idle ==
  [flow |-> "none", server |-> Absent, client |-> Absent, plugin |-> Empty, told |-> NoSecret,
   require |-> FALSE, retried |-> FALSE, checked |-> <<>>, edit |-> <<>>,
   path |-> "", content |-> Absent, next |-> ""]

\* What a flow holds: nothing of a kind yet, or a value of that kind.
HandTypeOK(h) ==
  /\ DOMAIN h = DOMAIN Idle
  /\ h.flow \in FlowNames \cup {"none"}
  /\ h.server \in ServerType \cup {Absent} /\ h.client \in ClientType(HeaderMaps) \cup {Absent}
  /\ h.plugin \in PluginType \cup {Empty} /\ h.told \in SecretType
  /\ h.require \in BOOLEAN /\ h.retried \in BOOLEAN
  /\ h.path \in ServerPaths \cup ClientPaths \cup {""}
  /\ h.next \in Labels \cup {"end", ""}

\* Every file holds what its readers take it for, and every flow what it does.
ConsoleTypeOK ==
  /\ FilesTypeOK(files)
  /\ author \in [ServerPaths \cup ClientPaths -> Consoles \cup {Nobody}]
  /\ at \in [Consoles -> Labels]
  /\ environ \in [Consoles -> Environments]
  /\ hand = [c \in Consoles |-> hand[c]] /\ \A c \in Consoles : HandTypeOK(hand[c])
  /\ lock \in Consoles \cup {Nobody}
  /\ minted \in 0 .. Len(Tokens)
  /\ flows \in [Consoles -> Nat] /\ crashes \in Nat

Init ==
  /\ files \in StartFiles
  /\ author = [f \in DOMAIN files |-> Nobody]
  /\ at = [c \in Consoles |-> "down"]
  /\ environ \in [Consoles -> Environments]
  /\ hand = [c \in Consoles |-> Idle]
  /\ lock = Nobody /\ minted = 0 /\ crashes = 0
  /\ flows = [c \in Consoles |-> 0]

-----------------------------------------------------------------------------
(* Steps of a flow. *)

Goto(c, label) == at' = [at EXCEPT ![c] = label]
Hold(c, h) == hand' = [hand EXCEPT ![c] = h]

\* The flow returns: the menu again, or the end of a program without one.
Ended(flow) == IF flow \in {"road-server", "road-client"} THEN "down" ELSE "menu"
Released(c) == IF lock = c THEN Nobody ELSE lock
Leave(c) ==
  /\ Goto(c, Ended(hand[c].flow)) /\ Hold(c, Idle)
  /\ lock' = Released(c)
  /\ UNCHANGED <<files, author, minted>>

\* os.WriteFile empties the file, and then fills it.
BeginWrite(c, path, content, next, h) ==
  /\ files' = [files EXCEPT ![path] = Torn]
  /\ author' = [author EXCEPT ![path] = c]
  /\ Goto(c, "fill")
  /\ Hold(c, [h EXCEPT !.path = path, !.content = content, !.next = next])

Fill(c) ==
  /\ at[c] = "fill"
  /\ files' = [files EXCEPT ![hand[c].path] = hand[c].content]
  /\ author' = [author EXCEPT ![hand[c].path] = c]
  /\ Goto(c, IF hand[c].next = "end" THEN Ended(hand[c].flow) ELSE hand[c].next)
  /\ Hold(c, IF hand[c].next = "end" THEN Idle
             ELSE [hand[c] EXCEPT !.path = "", !.content = Absent, !.next = ""])
  /\ UNCHANGED <<environ, lock, minted, flows, crashes>>

FillFails(c) ==
  /\ at[c] = "fill" /\ crashes < MaxCrashes
  /\ crashes' = crashes + 1
  /\ Leave(c)
  /\ UNCHANGED <<environ, flows>>

\* The process dies where it stands.
Crash(c) ==
  /\ at[c] # "down" /\ crashes < MaxCrashes
  /\ crashes' = crashes + 1
  /\ Goto(c, "down") /\ Hold(c, Idle)
  /\ lock' = Released(c)
  /\ UNCHANGED <<files, author, environ, minted, flows>>

Start(c, e, flow) ==
  /\ \/ at[c] = "down" /\ environ' = [environ EXCEPT ![c] = e]
     \/ at[c] = "menu" /\ e = environ[c] /\ UNCHANGED environ
  /\ flow \in Flows[c] /\ flows[c] < MaxFlows
  /\ flows' = [flows EXCEPT ![c] = @ + 1]
  /\ Goto(c, "layout") /\ Hold(c, [Idle EXCEPT !.flow = flow])
  /\ UNCHANGED <<files, author, lock, minted, crashes>>

(***************************************************************************)
(* EnsureRuntimeLayout: os.Stat of each user file in turn, and a write     *)
(* when it is missing, which another console may have written meanwhile.   *)
(***************************************************************************)
Missing == {i \in DOMAIN Seeds : files[Seeds[i].path] = Absent}

Layout(c) ==
  /\ at[c] = "layout"
  /\ IF Missing = {}
     THEN Goto(c, hand[c].flow) /\ UNCHANGED hand
     ELSE /\ Goto(c, "seed")
          /\ Hold(c, [hand[c] EXCEPT !.path = Seeds[Min(Missing)].path])
  /\ UNCHANGED <<files, author, environ, lock, minted, flows, crashes>>

Seed(c) ==
  /\ at[c] = "seed"
  /\ \E seed \in ToSet(Seeds) :
       /\ seed.path = hand[c].path
       /\ BeginWrite(c, seed.path, seed.content, "layout", hand[c])
  /\ UNCHANGED <<environ, lock, minted, flows, crashes>>

-----------------------------------------------------------------------------
(***************************************************************************)
(* The server flow, and the wizard from its lock to its configurations.    *)
(***************************************************************************)
\* Mutant: a wizard does not look whether another one runs.
MutantNoLock(c) ==
  /\ at[c] = "wizard"
  /\ lock' = c /\ Goto(c, "choose")
  /\ UNCHANGED <<files, author, environ, hand, minted, flows, crashes>>

AcquireLock(c) ==
  /\ at[c] = "wizard"
  /\ IF lock = Nobody
     THEN /\ lock' = c /\ Goto(c, "choose")
          /\ UNCHANGED <<files, author, hand, minted>>
     ELSE Leave(c)
  /\ UNCHANGED <<environ, flows, crashes>>

\* The plugin, then, for the wizard, its two local ports.
ChoosePlugin(c, plugin) ==
  /\ \/ at[c] = "server" /\ Goto(c, "template")
     \/ at[c] = "choose" /\ Goto(c, "free")
  /\ \E ports \in Ports :
       /\ at[c] = "choose" => ports.http # ports.control
       /\ Hold(c, [hand[c] EXCEPT !.plugin = plugin, !.edit = ports,
                    !.server = IF at[c] = "choose"
                               THEN PublicServerConfig(Default, plugin, ports, <<>>, NoSecret) ELSE @])
  /\ UNCHANGED <<files, author, environ, lock, minted, flows, crashes>>

Exists == {f \in DOMAIN files : files[f] # Absent}

\* buildServerConfigFromPlugin.
BuildServerConfig(c) ==
  LET template == files[ServerTemplate(hand[c].plugin, Exists)]
  IN  /\ at[c] = "template"
      /\ IF LoadsServer(template, environ[c], TRUE)
         THEN /\ BeginWrite(c, "server.menu.json",
                   WithPlugin(NormalServer(template, environ[c]), hand[c].plugin), "reload", hand[c])
              /\ UNCHANGED <<lock, minted>>
         ELSE Leave(c)
      /\ UNCHANGED <<environ, flows, crashes>>

\* The file is read back; the server flow writes it with the ports, the wizard
\* makes the public configuration from it.
ReloadServer(c) ==
  LET cfg == NormalServer(files["server.menu.json"], environ[c])
      token == Word(Tokens[minted + 1])
      server == WithPorts(cfg, hand[c].edit)
      public == PublicServerConfig(cfg, hand[c].plugin, hand[c].edit, PublicHost, token)
  IN  /\ at[c] = "reload"
      /\ \/ /\ LoadsServer(files["server.menu.json"], environ[c], TRUE)
            /\ hand[c].flow = "server" /\ OverridesAccepted(cfg, hand[c].plugin, hand[c].edit)
            /\ BeginWrite(c, "server.runtime.menu.json", server, "free",
                          [hand[c] EXCEPT !.server = server])
            /\ UNCHANGED <<lock, minted>>
         \/ /\ LoadsServer(files["server.menu.json"], environ[c], TRUE)
            /\ hand[c].flow = "wizard" /\ minted < Len(Tokens)
            /\ minted' = minted + 1
            /\ BeginWrite(c, "server.public.menu.json", public, "hint",
                          [hand[c] EXCEPT !.server = public, !.told = token])
            /\ UNCHANGED lock
         \/ /\ ~ (/\ LoadsServer(files["server.menu.json"], environ[c], TRUE)
                  /\ hand[c].flow = "server" => OverridesAccepted(cfg, hand[c].plugin, hand[c].edit))
            /\ Leave(c)
      /\ UNCHANGED <<environ, flows, crashes>>

\* writePublicClientConfig.
WriteHint(c) ==
  LET plugin == hand[c].plugin
      template == IF plugin.client \in Exists THEN files[plugin.client] ELSE Absent
  IN  /\ at[c] = "hint"
      /\ BeginWrite(c, "client.public.menu.json",
           PublicClientConfig(template, environ[c], plugin, PublicURL, hand[c].told),
           "listen", hand[c])
      /\ UNCHANGED <<environ, lock, minted, flows, crashes>>

-----------------------------------------------------------------------------
(***************************************************************************)
(* The ports: ensurePortFree asks before it kills the process that listens *)
(* on one.  The engine, once started, listens or fails.                    *)
(***************************************************************************)
Running(c) == at[c] = "running"
Owners(c) ==
  {d \in Consoles \ {c} :
     Running(d) /\ ServerListenPorts(hand[d].server) \cap ServerListenPorts(hand[c].server) # {}}

AfterPorts(flow) == IF flow = "wizard" THEN "template" ELSE "listen"

PortsFree(c) ==
  /\ at[c] = "free" /\ Owners(c) = {}
  /\ Goto(c, AfterPorts(hand[c].flow))
  /\ UNCHANGED <<files, author, environ, hand, lock, minted, flows, crashes>>

PortsRefused(c) ==
  /\ at[c] = "free" /\ Owners(c) # {}
  /\ Leave(c)
  /\ UNCHANGED <<environ, flows, crashes>>

KillOwner(c, d) ==
  /\ at[c] = "free" /\ d \in Owners(c)
  /\ Goto(d, "down") /\ Hold(d, Idle)
  /\ lock' = Released(d)
  /\ UNCHANGED <<files, author, environ, minted, flows, crashes>>

EngineStarts(c) ==
  Loads(Disk, hand[c].server.enabled) /\ Owners(c) = {}

Listen(c) ==
  /\ at[c] = "listen" /\ EngineStarts(c)
  /\ Goto(c, "running")
  /\ UNCHANGED <<files, author, environ, hand, lock, minted, flows, crashes>>

EngineFails(c) ==
  /\ at[c] = "listen" /\ ~ EngineStarts(c)
  /\ Leave(c)
  /\ UNCHANGED <<environ, flows, crashes>>

\* Ctrl+C, of an engine or of a client's tunnel; the wizard also ends when its
\* own tunnel does not come up or goes.
Interrupt(c) ==
  /\ \/ at[c] \in {"running", "dial"}
     \/ at[c] = "template" /\ hand[c].flow = "wizard"
  /\ Leave(c)
  /\ UNCHANGED <<environ, flows, crashes>>

\* Mutant: road-server loads its file as the settings do.
MutantRoadLenient(c) ==
  /\ at[c] = "road-server" /\ LoadsServer(files[ServerJSON], environ[c], FALSE)
  /\ Goto(c, "listen")
  /\ Hold(c, [hand[c] EXCEPT !.server = NormalServer(files[ServerJSON], environ[c])])
  /\ UNCHANGED <<files, author, lock, minted, environ, flows, crashes>>

\* road-server: its file, as it is.
RoadServer(c) ==
  /\ at[c] = "road-server"
  /\ IF LoadsServer(files[ServerJSON], environ[c], TRUE)
     THEN /\ Goto(c, "listen")
          /\ Hold(c, [hand[c] EXCEPT !.server = NormalServer(files[ServerJSON], environ[c])])
          /\ UNCHANGED <<files, author, lock, minted>>
     ELSE Leave(c)
  /\ UNCHANGED <<environ, flows, crashes>>

-----------------------------------------------------------------------------
(***************************************************************************)
(* The client flow.  Reach is the engine behind a URL, if there is one;    *)
(* a host that is not of this machine may answer anything.                 *)
(***************************************************************************)
Reach(url) ==
  {c \in Consoles : /\ Running(c) /\ hand[c].server.http
                    /\ \/ url.host = PublicURL.host /\ hand[c].flow = "wizard"
                       \/ url.host \in DOMAIN LocalNames
                          /\ LocalNames[url.host] = hand[c].server.httpAddr.port}
Elsewhere(url) == url.host \notin DOMAIN LocalNames \cup {PublicURL.host}

Plugins(c) == LoadEnabled(Disk, hand[c].server.enabled)
HostOf(url) == IF url.host = PublicURL.host THEN PublicHost ELSE <<"localhost">>

\* What answers GET /api/info: the status, 0 when nothing does, and the server,
\* as it is then, when it is one of this machine.
InfoAnswers(url, headers) ==
  {[status |-> DataStatus(hand[c].server, environ[c], Plugins(c),
                          FetchRequest("/api/info", headers, HostOf(url))),
    from |-> <<[server |-> hand[c].server, environ |-> environ[c], plugins |-> Plugins(c)]>>] :
     c \in Reach(url)}
  \cup {[status |-> status, from |-> <<>>] :
          status \in (IF Reach(url) = {} THEN {0} ELSE {})
                     \cup (IF Elsewhere(url) THEN {200, 401} ELSE {})}
InfoStatus(url, headers) == {answer.status : answer \in InfoAnswers(url, headers)}

OpenClient(c) ==
  /\ at[c] = "client"
  /\ \/ /\ LoadsClient(files[ClientJSON], environ[c], TRUE, TRUE)
        /\ Goto(c, "input")
        /\ Hold(c, [hand[c] EXCEPT !.client = NormalClient(files[ClientJSON], environ[c])])
        /\ UNCHANGED <<files, author, lock, minted>>
     \/ /\ ~ LoadsClient(files[ClientJSON], environ[c], TRUE, TRUE)
        /\ LoadsClient(files[ClientJSON], environ[c], TRUE, FALSE)
        /\ Goto(c, "input")
        /\ \E url \in {u \in URLs : ClientWSURLAccepted(u, DOMAIN LocalNames)} :
             Hold(c, [hand[c] EXCEPT !.client =
               [NormalClient(files[ClientJSON], environ[c]) EXCEPT
                  !.url = NormalClientWSURL(url, DOMAIN LocalNames)]])
        /\ UNCHANGED <<files, author, lock, minted>>
     \/ ~ LoadsClient(files[ClientJSON], environ[c], TRUE, FALSE) /\ Leave(c)
  /\ UNCHANGED <<environ, flows, crashes>>

\* applyClientConnectionInput: an empty line keeps the URL.
Connection(c, typed) ==
  /\ at[c] = "input"
  /\ IF typed # <<>> /\ ~ ClientWSURLAccepted(typed[1], DOMAIN LocalNames)
     THEN Leave(c)
     ELSE LET cfg == IF typed = <<>> THEN hand[c].client
                     ELSE [hand[c].client EXCEPT !.url = NormalClientWSURL(typed[1], DOMAIN LocalNames)]
          IN  /\ Goto(c, "profile")
              /\ Hold(c, [hand[c] EXCEPT !.client = cfg,
                   !.require = ShouldRequireClientProfile(cfg, typed # <<>>, DOMAIN LocalNames)])
              /\ UNCHANGED <<files, author, lock, minted>>
  /\ UNCHANGED <<environ, flows, crashes>>

\* client.menu.json is written and never read.
WriteClientMenu(c, cfg) ==
  /\ BeginWrite(c, "client.menu.json", cfg, "preflight", [hand[c] EXCEPT !.client = cfg])
  /\ UNCHANGED <<lock, minted>>

\* The profile is there: the template of its plugin, when it has one here.
ApplyProfile(c, profile) ==
  LET cfg == WithProfile(hand[c].client, profile)
      path == ClientTemplate(MenuPlugins(Folders), profile)
      template == IF path \in Exists THEN files[path] ELSE Absent
  IN  IF path = "" THEN WriteClientMenu(c, cfg)
      ELSE IF LoadsClient(template, environ[c], FALSE, FALSE)
      THEN WriteClientMenu(c, FromTemplate(cfg, template, profile, environ[c]))
      ELSE Leave(c)

Profile(c) ==
  LET url == hand[c].client.url
      headers == CHOOSE h \in ClientProfileFetchHeaders(hand[c].client, environ[c]) : TRUE
  IN  /\ at[c] = "profile"
      /\ \E status \in InfoStatus(url, headers) :
           \/ /\ status = 200
              /\ \E profile \in IF Reach(url) = {} THEN MenuPlugins(Folders)
                                ELSE {[name |-> DefaultName(hand[d].server.enabled),
                                       network |-> ResolvePlugin(Plugins(d), hand[d].server.enabled, Empty).target.network] :
                                        d \in Reach(url)} :
                   ApplyProfile(c, profile)
           \/ /\ status # 200 /\ ~ hand[c].require
              /\ WriteClientMenu(c, hand[c].client)
           \/ /\ status \in {401, 403} /\ hand[c].require /\ ~ hand[c].retried
              /\ \E token \in PromptTokens :
                   Hold(c, [hand[c] EXCEPT !.client = PromptedToken(@, token), !.retried = TRUE])
              /\ UNCHANGED <<files, author, at, lock, minted>>
           \/ /\ status # 200 /\ hand[c].require
              /\ status \in {401, 403} => hand[c].retried
              /\ Leave(c)
      /\ UNCHANGED <<environ, flows, crashes>>

\* preflightClientCheck, when the profile was required, and the one of
\* road-client, which always makes it.
Preflight(c) ==
  LET url == hand[c].client.url
      sent == IF hand[c].flow = "road-client" THEN PreflightHeaders(hand[c].client, environ[c])
              ELSE ClientProfileFetchHeaders(hand[c].client, environ[c])
  IN  /\ at[c] = "preflight"
      /\ IF hand[c].flow = "client" /\ ~ hand[c].require
         THEN Goto(c, "dial") /\ UNCHANGED <<files, author, hand, lock, minted>>
         ELSE \E headers \in sent : \E answer \in InfoAnswers(url, headers) :
                IF answer.status # 200 THEN Leave(c)
                ELSE /\ Goto(c, "dial")
                     /\ Hold(c, [hand[c] EXCEPT !.checked = answer.from])
                     /\ UNCHANGED <<files, author, lock, minted>>
      /\ UNCHANGED <<environ, flows, crashes>>

RoadClient(c) ==
  /\ at[c] = "road-client"
  /\ \E path \in {ClientJSON, "client.public.menu.json"} :
       IF LoadsClient(files[path], environ[c], TRUE, TRUE)
       THEN /\ Goto(c, "preflight")
            /\ Hold(c, [hand[c] EXCEPT !.client = NormalClient(files[path], environ[c])])
            /\ UNCHANGED <<files, author, lock, minted>>
       ELSE Leave(c)
  /\ UNCHANGED <<environ, flows, crashes>>

-----------------------------------------------------------------------------
(* The settings: read, edited, checked as leniently as they are read, saved. *)

EditServer(c, answers) ==
  LET cfg == files[ServerJSON]
      token == Word(Tokens[minted + 1])
  IN  /\ at[c] = "edit-server" /\ minted < Len(Tokens)
      /\ IF LoadsServer(cfg, environ[c], FALSE) /\ ServerEditSaved(cfg, environ[c], answers, token)
         THEN LET edited == ServerEdited(cfg, environ[c], answers, token)
              IN  /\ minted' = IF edited.token = token THEN minted + 1 ELSE minted
                  /\ BeginWrite(c, ServerJSON, edited, "end", [hand[c] EXCEPT !.edit = <<answers, cfg>>])
                  /\ UNCHANGED lock
         ELSE Leave(c)
      /\ UNCHANGED <<environ, flows, crashes>>

EditClient(c, answers) ==
  LET cfg == files[ClientJSON]
  IN  /\ at[c] = "edit-client"
      /\ IF /\ LoadsClient(cfg, environ[c], FALSE, TRUE)
            /\ ClientEditSaved(cfg, environ[c], answers, DOMAIN LocalNames)
         THEN /\ BeginWrite(c, ClientJSON, ClientEdited(cfg, environ[c], answers, DOMAIN LocalNames),
                            "end", [hand[c] EXCEPT !.edit = <<answers, cfg>>])
              /\ UNCHANGED <<lock, minted>>
         ELSE Leave(c)
      /\ UNCHANGED <<environ, flows, crashes>>

-----------------------------------------------------------------------------
ServerSteps(c) ==
  \/ AcquireLock(c) \/ BuildServerConfig(c) \/ ReloadServer(c) \/ WriteHint(c)
  \/ PortsFree(c) \/ PortsRefused(c) \/ (\E d \in Consoles : KillOwner(c, d))
  \/ Listen(c) \/ EngineFails(c) \/ RoadServer(c)
  \/ \E plugin \in MenuPlugins(Folders) : ChoosePlugin(c, plugin)

ClientSteps(c) ==
  \/ OpenClient(c) \/ Profile(c) \/ Preflight(c) \/ RoadClient(c)
  \/ \E typed \in {<<>>} \cup {<<url>> : url \in URLs} : Connection(c, typed)

SettingsSteps(c) ==
  \/ \E answers \in ServerAnswers : EditServer(c, answers)
  \/ \E answers \in ClientAnswers : EditClient(c, answers)

Next ==
  \E c \in Consoles :
    \/ \E e \in Environments, flow \in Flows[c] : Start(c, e, flow)
    \/ Layout(c) \/ Seed(c) \/ Fill(c) \/ FillFails(c) \/ Crash(c) \/ Interrupt(c)
    \/ ServerSteps(c) \/ ClientSteps(c) \/ SettingsSteps(c)

Spec == Init /\ [][Next]_vars

-----------------------------------------------------------------------------
(* Properties. *)

(***************************************************************************)
(* What the wizard shares is what it runs (docs/CLOUDFLARE-INTEGRATION.md, *)
(* "Generate configs/.generated/client.public.menu.json for clients"):     *)
(* while its engine runs, whatever the other consoles write and whoever    *)
(* crashed before, the plugin it serves first is the one chosen, the file  *)
(* for the friends loads and is let in, and someone who has any other      *)
(* token, or none, is answered the ping and the shell of the dashboard and *)
(* nothing else.  The file is made from the client template of the plugin, *)
(* which may be the user's own, and keeps what the template has of two     *)
(* kinds: UDP listeners, with which it does not load when the plugin is    *)
(* not a UDP one; and a header that names a host or an origin, for which   *)
(* the server may refuse it, with 403 but not for its token.               *)
(***************************************************************************)
JSONFiles == [folder \in DOMAIN Disk |-> [plugin |-> "ok", config |-> "absent"]]

Strangers(c) ==
  {[name \in {DefaultAuthHeaderName} |-> AuthHeaderValue(name, token)] :
     token \in ({Tokens[i] : i \in 1 .. minted} \cup {s.name : s \in PromptTokens}) \ {hand[c].told.name}}

FitsNetwork(cfg) == cfg.udpListeners # <<>> => cfg.network = Text("udp")

LetIn(c, cfg) ==
  \A headers \in DialHeaders(cfg, environ[c]) :
    DataStatus(hand[c].server, environ[c], Plugins(c),
      [DialRequest(cfg.url.path, headers, PublicHost) EXCEPT !.plugin = cfg.plugin])
        \in {101} \cup (IF NamesAddress(headers) THEN {403} ELSE {})

ShutOut(c, headers) ==
  \A path \in {"/ws", "/api/ping", "/api/info", "/api/plugins", "/api/stats", "/dashboard"} :
    LET request == Request(path, headers)
        data == DataStatus(hand[c].server, environ[c], Plugins(c), request)
        control == ControlStatus(hand[c].server, environ[c], JSONFiles, request)
    IN  /\ data \in {200, 101} => path = "/api/ping"
        /\ control = 200 => path = "/dashboard"

PublicServerProtected ==
  \A c \in Consoles : Running(c) /\ hand[c].flow = "wizard" =>
    /\ DefaultName(hand[c].server.enabled) = TrimSpace(hand[c].plugin.name)
    /\ ~ HasOpenNoAuthListener(hand[c].server, environ[c])
    /\ LET cfg == files["client.public.menu.json"]
       IN  /\ Readable(cfg) /\ (FitsNetwork(cfg) => LoadsClient(cfg, environ[c], TRUE, TRUE))
           /\ LetIn(c, cfg)
    /\ \A headers \in Strangers(c) : ShutOut(c, headers)

(***************************************************************************)
(* docs/CONFIG-PLUGIN-SYSTEM.md: "missing env values fail runtime startup  *)
(* when auth depends on them".  An engine whose configuration names a      *)
(* secret, in a file of the user, in one the menu generated or in one that *)
(* another console wrote meanwhile, never runs open.                       *)
(***************************************************************************)
NoSilentOpen ==
  \A c \in Consoles : Running(c) /\ SecretsOf(hand[c].server) # {NoSecret} =>
    /\ WSAuthEnabled(hand[c].server, environ[c])
    /\ \A secret \in SecretsOf(hand[c].server) : ~ MissingEnv(secret, environ[c])

(***************************************************************************)
(* The menu reads back what it wrote, whatever template it started from,   *)
(* unless another console wrote it again: the configuration loads in the   *)
(* same environment and the chosen plugin comes first.                     *)
(***************************************************************************)
ReadsBackItsOwn ==
  \A c \in Consoles :
    at[c] = "reload" /\ author["server.menu.json"] = c =>
      /\ LoadsServer(files["server.menu.json"], environ[c], TRUE)
      /\ DefaultName(files["server.menu.json"].enabled) = TrimSpace(hand[c].plugin.name)

(***************************************************************************)
(* A client that passed its preflight is not refused by the same server,   *)
(* as it was then, for its token when it dials, be it the menu's or        *)
(* road-client, whose headers are built by other code.  It may be refused  *)
(* for its host or its origin, but only when its own configuration has a   *)
(* header that names one: the dial sends both, the preflight does not send *)
(* the host, and is not asked for its origin.                              *)
(* Not claimed of a configuration that names a header twice, in two cases: *)
(* each of the two requests may send either of its values.  For the menu   *)
(* the header of the token does not count, as it is set last.              *)
(***************************************************************************)
Ambiguous(cfg, flow) ==
  \E m, n \in DOMAIN cfg.headers \cup
              (IF flow = "road-client"
               THEN {OrElse(TrimSpace(cfg.header), DefaultAuthHeaderName)} ELSE {}) :
    m # n /\ AuthHeaderName(m) = AuthHeaderName(n)

Welcome(headers, status) == status \notin {401} \cup (IF NamesAddress(headers) THEN {} ELSE {403})

Passed(h, e) ==
  h.checked # <<>> /\ ~ Ambiguous(h.client, h.flow) =>
    LET server == h.checked[1]
    IN  \A headers \in DialHeaders(h.client, e) :
          Welcome(headers, DataStatus(server.server, server.environ, server.plugins,
            DialRequest(server.server.wsEndpoint, headers, HostOf(h.client.url))))

PreflightHolds == \A c \in Consoles : at[c] = "dial" => Passed(hand[c], environ[c])

(***************************************************************************)
(* The settings, answered with empty lines, keep the secrets of the file:  *)
(* docs/CONFIG-PLUGIN-SYSTEM.md, "`env:NAME` values are kept in config     *)
(* files", whether or not the variable has a value where the settings run. *)
(***************************************************************************)
AllKept(answers) == \A question \in DOMAIN answers : answers[question] = <<>>

ServerKeepsSecrets ==
  \A c \in Consoles :
    at[c] = "fill" /\ hand[c].flow = "edit-server" /\ hand[c].path = ServerJSON /\ hand[c].edit # <<>>
      /\ AllKept(hand[c].edit[1]) => SecretsOf(hand[c].edit[2]) \ {NoSecret} \subseteq SecretsOf(hand[c].content)
=============================================================================

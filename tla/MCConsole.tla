------------------------------ MODULE MCConsole ------------------------------
(* Console on two processes, two plugins and the variable ROAD_TOKEN.        *)
EXTENDS Console

CONSTANTS a, b

Secret == EnvRef("ROAD_TOKEN")
MCFlows == (a :> {"wizard", "server", "road-server", "edit-client"})
           @@ (b :> {"wizard", "client", "road-client", "edit-server"})
MCEnvironments == {[v \in {"ROAD_TOKEN"} |-> ""], [v \in {"ROAD_TOKEN"} |-> "secret"]}

Game(folder, network, name, server, client) ==
  (folder :> [name |-> name, network |-> network, server |-> server, client |-> client])
MCFolders ==
  Game(Text("minecraft"), Text("tcp"), Text("minecraft"), "configs/server.json", "configs/client.json")
  @@ Game(Text("bedrock"), Upper(Text("udp")), Empty, "", "")

Schema(name, network) ==
  [schemaVersion |-> Text("v1"), name |-> name, version |-> Text("3.0.0"),
   target |-> [network |-> network, address |-> Text("127.0.0.1:1"), id |-> Empty],
   targets |-> <<>>, type |-> Text("json"), mode |-> Text("passthrough"),
   replyPolicy |-> Empty, clientPipeline |-> <<>>, serverPipeline |-> <<>>,
   obfuscation |-> FALSE, broadcast |-> FALSE, compatible |-> TRUE]
MCDisk == (Text("minecraft") :> Schema(Text("minecraft"), Text("tcp")))
          @@ (Text("bedrock") :> Schema(Text("bedrock"), Text("udp")))

UDPTemplate ==
  [Default EXCEPT !.tcp = Addr("0.0.0.0", 0), !.enabled = <<Text("bedrock")>>]

\* Files that are missing, that name the variable, and that hold two tokens.
OneSecret == [Default EXCEPT !.token = Secret, !.enabled = <<Text("minecraft"), Text("bedrock")>>]
TwoSecrets ==
  [Default EXCEPT !.token = Word("first"), !.extra = <<Secret>>, !.header = Authorization]
\* Clients with headers of their own: an old token and another host, and the public
\* host with another origin; and one with UDP listeners.
Value(token) == [bearer |-> FALSE, token |-> token]
SecretClient ==
  [DefaultClient EXCEPT !.token = Secret,
                        !.headers = (DefaultAuthHeaderName :> Value("old"))
                                    @@ (HostHeader :> Value("relay"))]
RelayClient ==
  [DefaultClient EXCEPT !.headers = (Upper(HostHeader) :> Value("road.example"))
                                    @@ (OriginHeader :> Value("relay"))]
UDPClient ==
  [DefaultClient EXCEPT !.network = Text("udp"),
                        !.udpListeners = <<[addr |-> Text("127.0.0.1:1"), target |-> Empty]>>]
BadURLClient == [DefaultClient EXCEPT !.url = URL("http", "road.example", "/ws")]

Written == {"server.menu.json", "server.runtime.menu.json", "server.public.menu.json",
            "client.menu.json", "client.public.menu.json"}
MCStartFiles ==
  {[f \in Written \cup {"configs/server.json", "configs/client.json", "configs/server-udp.example.json"} |->
      CASE f = "configs/server.json" -> pair[1]
        [] f = "configs/client.json" -> pair[2]
        [] f = "configs/server-udp.example.json" -> UDPTemplate
        [] f \in Written -> Absent] :
     pair \in {<<Absent, Absent>>, <<Absent, UDPClient>>, <<OneSecret, SecretClient>>,
               <<OneSecret, BadURLClient>>, <<TwoSecrets, RelayClient>>}}
MCSeeds == <<[path |-> "configs/server.json", content |-> Default],
             [path |-> "configs/client.json", content |-> DefaultClient],
             [path |-> "configs/server-udp.example.json", content |-> UDPTemplate]>>

MCServerPaths == {"configs/server.json", "configs/server-udp.example.json", "server.menu.json",
                  "server.runtime.menu.json", "server.public.menu.json"}
MCClientPaths == {"configs/client.json", "client.menu.json", "client.public.menu.json"}
MCHeaderMaps == {<<>>, SecretClient.headers, RelayClient.headers}
MCHostIn(value) == IF value.token = "road.example" THEN <<"road", "example">> ELSE <<value.token>>

MCPorts == {[tcp |-> 25567, http |-> 8080, control |-> 8081], [tcp |-> 0, http |-> NoPort, control |-> 9081]}
MCTokens == <<"w1", "w2", "w3">>
MCLocalNames == "127.0.0.1:8080" :> 8080
MCPublicHost == <<"road", "example">>
MCPublicURL == URL("wss", "road.example", "/ws")
MCURLs == {URL("", "127.0.0.1:8080", ""), URL("https", "road.example", "/"), URL("ftp", "road.example", "")}
MCPromptTokens == {NoSecret, Word("secret")}

Kept(questions) == [question \in questions |-> <<>>]
KeptServer == Kept({"http", "control", "public", "auth", "token", "header"})
KeptClient == Kept({"url", "plugin", "network", "auth", "token", "header"})
MCServerAnswers == {KeptServer, [KeptServer EXCEPT !.auth = <<TRUE>>, !.header = <<Upper(Authorization)>>]}
MCClientAnswers == {KeptClient, [KeptClient EXCEPT !.auth = <<TRUE>>, !.token = <<Word("secret")>>]}
=============================================================================

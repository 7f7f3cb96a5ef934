------------------------- MODULE MCEngineLifecycle -------------------------
(* A plugin that passes bytes through, one whose answers must be base64,   *)
(* and a folder whose schema names another plugin.                         *)
EXTENDS EngineLifecycle, TLC

Raw(name, mode, serverPipeline) ==
  [schemaVersion |-> Text("v1"), name |-> Text(name), version |-> Text("1"),
   target |-> [network |-> Empty, address |-> Text("host"), id |-> Empty],
   targets |-> <<>>, type |-> Empty, mode |-> Text(mode), obfuscation |-> FALSE,
   broadcast |-> FALSE, replyPolicy |-> Empty, clientPipeline |-> <<>>,
   serverPipeline |-> serverPipeline, compatible |-> TRUE]

MCPluginDisk ==
  Text("pass") :> Raw("pass", "", <<>>)
  @@ Text("decode") :> Raw("decode", "pipeline", <<[op |-> "base64_decode"]>>)
  @@ Text("moved") :> Raw("pass", "", <<>>)

MCEnabledLists ==
  {<<Spaced(Text("pass")), Text("decode")>>, <<Text("decode")>>, <<Text("pass"), Text("moved")>>}
=============================================================================

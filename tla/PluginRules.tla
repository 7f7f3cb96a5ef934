----------------------------- MODULE PluginRules -----------------------------
(***************************************************************************)
(* The plugins of the server (internal/plugin): how a plugin.json becomes  *)
(* a runtime plugin or is refused, what a session asks of it, and what its *)
(* pipelines do to a payload.  Compatibility notes and other displayed     *)
(* fields are one flag, compatible.                                        *)
(***************************************************************************)
EXTENDS Text, Integers, Sequences, SequencesExt, Functions

Networks == {Text("tcp"), Text("udp")}
Policies == {Text("any"), Text("same_ip"), Text("strict")}

ReplyPolicyOrAny(policy) == OrElse(ToLower(TrimSpace(policy)), Text("any"))

-----------------------------------------------------------------------------
(***************************************************************************)
(* schema.go: Normalize, then Validate.  The network of a further target   *)
(* defaults to that of the main one, already cleaned.                      *)
(***************************************************************************)
CleanTarget(target, network) ==
  [network |-> ToLower(TrimSpace(OrElse(target.network, network))),
   address |-> TrimSpace(target.address),
   id |-> TrimSpace(target.id)]

Normalize(schema) ==
  LET main == CleanTarget(schema.target, Text("tcp"))
  IN  [schema EXCEPT
         !.target = main,
         !.targets = [i \in DOMAIN @ |-> CleanTarget(@[i], main.network)],
         !.type = OrElse(@, Text("json")),
         !.mode = OrElse(@, Text("passthrough")),
         !.replyPolicy = ReplyPolicyOrAny(@)]

ValidTarget(target, requireID) ==
  /\ requireID => target.id # Empty
  /\ target.address # Empty
  /\ target.network \in Networks

ValidStep(step) ==
  \/ step.op \in {"noop", "base64_encode", "base64_decode"}
  \/ step.op = "xor" /\ step.key # Empty

Validate(schema) ==
  /\ schema.schemaVersion = Text("v1")
  /\ schema.name # Empty /\ schema.version # Empty
  /\ ValidTarget(schema.target, FALSE)
  /\ \A i \in DOMAIN schema.targets : ValidTarget(schema.targets[i], TRUE)
  /\ \A i, j \in DOMAIN schema.targets :
       EqualFold(schema.targets[i].id, schema.targets[j].id) => i = j
  /\ schema.type \in {Text("builtin"), Text("json")}
  /\ schema.mode \in {Text("passthrough"), Text("pipeline")}
  /\ schema.replyPolicy \in Policies
  /\ schema.mode = Text("passthrough") =>
       schema.clientPipeline = <<>> /\ schema.serverPipeline = <<>>
  /\ \A step \in ToSet(schema.clientPipeline) \cup ToSet(schema.serverPipeline) :
       ValidStep(step)
  /\ schema.compatible

-----------------------------------------------------------------------------
(***************************************************************************)
(* loader.go.  disk maps the folders that hold a readable plugin.json to   *)
(* its content; enabled is the list of the configuration.  A load yields   *)
(* the runtime plugins by name, or the empty function when it is refused.  *)
(***************************************************************************)
LoadSchema(disk, name) ==
  /\ name \in DOMAIN disk
  /\ Validate(Normalize(disk[name]))
  /\ disk[name].name = name

Names(enabled) == [i \in DOMAIN enabled |-> TrimSpace(enabled[i])]

Loads(disk, enabled) ==
  /\ enabled # <<>>
  /\ Empty \notin ToSet(Names(enabled))
  /\ IsInjective(Names(enabled))
  /\ \A name \in ToSet(Names(enabled)) : LoadSchema(disk, name)

LoadEnabled(disk, enabled) ==
  [name \in IF Loads(disk, enabled) THEN ToSet(Names(enabled)) ELSE {} |->
     Normalize(disk[name])]

DefaultName(enabled) == TrimSpace(enabled[1])

(***************************************************************************)
(* The plugin a session asked for, by name; no name is the default one.    *)
(***************************************************************************)
Resolves(loaded, requested) == IsBlank(requested) \/ TrimSpace(requested) \in DOMAIN loaded

ResolvePlugin(loaded, enabled, requested) ==
  loaded[OrElse(TrimSpace(requested), DefaultName(enabled))]

-----------------------------------------------------------------------------
(***************************************************************************)
(* runtime.go.  A target may be called like one of the two words for the   *)
(* main target: it then hides the word.                                    *)
(***************************************************************************)
NamedTargets(p, id) == {t \in ToSet(p.targets) : EqualFold(t.id, TrimSpace(id))}

IsMainTarget(p, id) ==
  \/ IsBlank(id)
  \/ /\ NamedTargets(p, id) = {}
     /\ \E word \in {Text("default"), Text("target")} : EqualFold(TrimSpace(id), word)

KnownTarget(p, id) == IsMainTarget(p, id) \/ NamedTargets(p, id) # {}

ResolveTarget(p, id) ==
  IF IsMainTarget(p, id) THEN p.target ELSE CHOOSE t \in NamedTargets(p, id) : TRUE

Passthrough(p) ==
  /\ p.mode = Text("passthrough") /\ ~ p.obfuscation
  /\ p.clientPipeline = <<>> /\ p.serverPipeline = <<>>

UDPPeerBroadcast(p) == p.target.network = Text("udp") /\ p.broadcast

UDPReplyPolicy(p) ==
  IF p.target.network = Text("udp") THEN ReplyPolicyOrAny(p.replyPolicy) ELSE Text("any")

(***************************************************************************)
(* udp_reply_policy.go, on addresses that are pairs of an IP and a port.   *)
(***************************************************************************)
ReplyAllowed(policy, target, source) ==
  CASE policy = Text("strict") -> target.ip = source.ip /\ target.port = source.port
    [] policy = Text("same_ip") -> target.ip = source.ip
    [] policy \notin {Text("strict"), Text("same_ip")} -> TRUE

(***************************************************************************)
(* The pipelines.  A payload is what is on its bytes: the xor keys now on  *)
(* them, in any order (the same key twice is none), and, under each layer  *)
(* of base64, those that were on them when it was put on.  base64_decode   *)
(* fails on what is not base64.                                            *)
(***************************************************************************)
Plain == [ok |-> TRUE, xors |-> {}, under |-> <<>>]
Failed == [Plain EXCEPT !.ok = FALSE]

RunStep(payload, step) ==
  CASE step.op \in {"", "noop"} -> payload
    [] step.op = "xor" /\ step.key # Empty ->
         [payload EXCEPT !.xors = SymDiff(@, {step.key})]
    [] step.op = "base64_encode" ->
         [payload EXCEPT !.xors = {}, !.under = <<payload.xors>> \o @]
    [] step.op = "base64_decode" /\ payload.xors = {} /\ payload.under # <<>> ->
         [payload EXCEPT !.xors = Head(payload.under), !.under = Tail(@)]
    [] OTHER -> Failed

Steps(p, pipeline) ==
  IF p.obfuscation /\ pipeline = <<>> THEN <<[op |-> "xor", key |-> p.name]>> ELSE pipeline

Process(p, payload, pipeline) ==
  FoldLeft(LAMBDA done, step : IF done.ok THEN RunStep(done, step) ELSE done,
           payload, Steps(p, pipeline))

ProcessClientData(p, payload) == Process(p, payload, p.clientPipeline)
ProcessServerData(p, payload) == Process(p, payload, p.serverPipeline)
=============================================================================

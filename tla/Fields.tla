-------------------------------- MODULE Fields --------------------------------
(***************************************************************************)
(* From a handler as somebody wrote it to the action its built-in is run   *)
(* with: Validate (internal/handler/config.go), which checks a copy of the *)
(* handler's fields, the registry, the ways a handler gets there (a file,  *)
(* an option of the command line, ":handler add", an editor), and Execute  *)
(* (internal/handler/dispatcher.go), which copies the fields again. Two    *)
(* lists, kept by hand, and a third one for the steps of a pipeline.       *)
(*                                                                         *)
(* A handler here has one built-in to execute: at its top level (concise), *)
(* in its list of actions, or in its pipeline. set: the fields it sets for *)
(* it, its own name among them when it is concise, and base_dir, the       *)
(* directory relative paths start at, when it comes from a file. bad:      *)
(* those whose value does not parse, with the handler's own options. What  *)
(* the built-ins do is in Builtins.                                        *)
(***************************************************************************)
EXTENDS FiniteSets, TLC, Absent

-----------------------------------------------------------------------------
(* What the built-ins ask for (Scope, Help and Validate) and read.         *)
(* needs: clauses, "when all of these are set, one of those is". parsed:   *)
(* fields whose value Validate parses. fields: all it reads.               *)

Rule(scope, needs, parsed, others) ==
  [scope |-> scope, needs |-> needs, parsed |-> parsed,
   fields |-> others \cup parsed \cup UNION {c.when \cup c.some : c \in needs}]

ServerOnly(needs, parsed, others) == Rule({"server"}, needs, parsed, others)
ClientOnly(needs, parsed, others) == Rule({"client"}, needs, parsed, others)
Shared(needs, parsed, others) == Rule({"client", "server"}, needs, parsed, others)

Every(fields) == {[when |-> {}, some |-> {f}] : f \in fields}
OneOf(fields) == {[when |-> {}, some |-> fields]}
NotAll(fields) == {[when |-> fields, some |-> {}]}
Along(field, other) == {[when |-> {field}, some |-> {other}]}  \* a target other than stdout

Texts == {"message", "send", "respond"}

(* Topics and the key-value store *)

SubscribeFields == ServerOnly(Every({"topic"}), {}, {})
UnsubscribeFields == ServerOnly(Every({"topic"}), {}, {})
PublishFields == ServerOnly(Every({"topic"}) \cup OneOf(Texts), {}, {})
StickyBroadcastFields == ServerOnly(Every({"topic"}) \cup OneOf(Texts), {}, {})
KVSetFields == ServerOnly(Every({"key", "value"}), {}, {"ttl"})
KVGetFields == ServerOnly(Every({"key"}), {}, {"default"})
KVDelFields == ServerOnly(Every({"key"}), {}, {})
KVListFields == ServerOnly({}, {}, {})
GateFields == ServerOnly(Every({"key", "expect"}), {}, {"on_closed"})

(* Replies and deliveries *)

NoopFields == Shared({}, {}, {})
EchoFields == Shared({}, {}, {"respond"})
TemplateFields == Shared(Every({"file"}), {}, {"base_dir"})
FileSendFields == ClientOnly(Every({"file"}), {"mode"}, {"base_dir"})
FileWriteFields == Shared(Every({"path"}), {"mode"}, {"content", "base_dir"})
BroadcastFields == ServerOnly({}, {}, {"message", "send"})
BroadcastOthersFields == ServerOnly({}, {}, {"message", "send"})
MulticastFields == ServerOnly(Every({"targets"}), {}, {"message", "send"})
SequenceFields == Shared(Every({"responses"}), {}, {"loop", "per_client"})
RoundRobinFields == ServerOnly(Every({"pool"}), {}, Texts \cup {"on_empty"})
ThrottleBroadcastFields == ServerOnly(Every({"window"}), {}, {"message", "send"})
SSEForwardFields ==
  ServerOnly(Every({"stream"}), {}, {"event", "id", "on_no_consumers", "buffer_size", "message"})
HTTPMockRespondFields == ServerOnly(Every({"path", "status"}), {}, {"body", "headers"})
RuleEngineFields == Shared(Every({"rules"}), {}, {"default", "base_dir"})

(* Control of the handler that runs it *)

DelayFields == Shared(Every({"duration"}), {"duration", "max"}, {})
DropFields == Shared({}, {}, {})
CloseFields == Shared({}, {}, {"code", "reason"})
RateLimitFields == Shared(Every({"rate"}), {"scope"}, {"burst", "on_limit"})
SampleFields == Shared(Every({"rate"}), {}, {})
OnceFields == ServerOnly({}, {}, {"respond"})
DebounceFields == Shared(OneOf({"window", "duration", "delay"}), {"scope"}, {"respond"})
ABTestFields == ServerOnly(Every({"field", "handler_a", "handler_b"}), {"split"}, {})
ShadowFields == ServerOnly(Every({"target"}), {}, {})
LuaFields ==
  Shared(OneOf({"script", "file"}) \cup NotAll({"script", "file"}), {}, {"max_memory", "base_dir"})

(* Services *)

RedisSetFields == Shared(Every({"key", "value"}), {}, {"ttl"})
RedisGetFields == Shared(Every({"key"}), {}, {"default"})
RedisDelFields == Shared(Every({"key"}), {}, {})
RedisPublishFields == Shared(Every({"channel", "message"}), {}, {})
RedisLPushFields == Shared(Every({"key", "value"}), {}, {})
RedisRPopFields == Shared(Every({"key"}), {}, {"default"})
RedisIncrFields == Shared(Every({"key"}), {}, {"by"})
MQTTPublishFields ==
  Shared(Every({"broker_url", "topic"}) \cup OneOf(Texts), {}, {"qos", "retain"})
NATSPublishFields == Shared(Every({"nats_url", "subject"}) \cup OneOf(Texts), {}, {})
KafkaProduceFields == Shared(Every({"topic", "message"}), {}, {"brokers", "key"})
SQLiteFields == Shared(Every({"db", "sql"}), {}, {"init", "base_dir"})
LogFields ==
  Shared(Every({"message"}) \cup Along("target", "path"), {"target"}, {"base_dir"})
MetricFields == Shared(Every({"name"}), {}, {"labels"})

(* HTTP and models *)

HTTPFields == Shared(Every({"url"}), {}, {"method", "headers", "body"})
HTTPGetFields == Shared(Every({"url"}), {}, {"headers", "body"})
HTTPGraphQLFields == Shared(Every({"url", "query"}), {}, {"variables", "headers"})
WebhookFields == Shared(Every({"url"}), {}, {"headers", "body"})
WebhookHMACFields == Shared(Every({"url", "secret"}), {}, {"headers", "body"})
ForwardFields == ServerOnly(Every({"target"}), {}, {})
OllamaGenerateFields == Shared(Every({"model", "prompt"}), {}, {"stream", "ollama_url"})
OllamaChatFields ==
  Shared(Every({"model"}), {}, {"system", "max_history", "prompt", "stream", "ollama_url"})
OpenAIChatFields ==
  Shared(Every({"model"}), {}, {"system", "max_history", "prompt", "stream", "api_key", "api_url",
                                 "temperature", "top_p"})
OllamaEmbedFields == Shared(Every({"model"}), {}, {"input", "ollama_url"})
OllamaClassifyFields == Shared(Every({"labels"}), {}, {"model", "system", "ollama_url"})

(* Sources, which read the handler itself *)

RedisSubscribeFields == ServerOnly(Every({"channel"}), {"reconnect_interval"}, {})
MQTTSubscribeFields ==
  ServerOnly(Every({"broker_url", "topic"}), {"reconnect_interval"}, {"qos"})
NATSSubscribeFields ==
  ServerOnly(Every({"nats_url", "subject"}), {"reconnect_interval"}, {})
KafkaConsumeFields == ServerOnly(Every({"topic"}), {"offset"}, {"brokers", "group_id"})

(* The built-ins by name. *)
FieldsOf ==
  "subscribe" :> SubscribeFields @@ "unsubscribe" :> UnsubscribeFields
  @@ "publish" :> PublishFields @@ "sticky-broadcast" :> StickyBroadcastFields
  @@ "kv-set" :> KVSetFields @@ "kv-get" :> KVGetFields @@ "kv-del" :> KVDelFields
  @@ "kv-list" :> KVListFields @@ "gate" :> GateFields @@ "noop" :> NoopFields
  @@ "echo" :> EchoFields @@ "template" :> TemplateFields @@ "file-send" :> FileSendFields
  @@ "file-write" :> FileWriteFields @@ "broadcast" :> BroadcastFields
  @@ "broadcast-others" :> BroadcastOthersFields @@ "multicast" :> MulticastFields
  @@ "sequence" :> SequenceFields @@ "round-robin" :> RoundRobinFields
  @@ "throttle-broadcast" :> ThrottleBroadcastFields @@ "sse-forward" :> SSEForwardFields
  @@ "http-mock-respond" :> HTTPMockRespondFields @@ "rule-engine" :> RuleEngineFields
  @@ "delay" :> DelayFields @@ "drop" :> DropFields @@ "close" :> CloseFields
  @@ "rate-limit" :> RateLimitFields @@ "sample" :> SampleFields @@ "once" :> OnceFields
  @@ "debounce" :> DebounceFields @@ "ab-test" :> ABTestFields @@ "shadow" :> ShadowFields
  @@ "lua" :> LuaFields @@ "redis-set" :> RedisSetFields @@ "redis-get" :> RedisGetFields
  @@ "redis-del" :> RedisDelFields @@ "redis-publish" :> RedisPublishFields
  @@ "redis-lpush" :> RedisLPushFields @@ "redis-rpop" :> RedisRPopFields
  @@ "redis-incr" :> RedisIncrFields @@ "mqtt-publish" :> MQTTPublishFields
  @@ "nats-publish" :> NATSPublishFields @@ "kafka-produce" :> KafkaProduceFields
  @@ "sqlite" :> SQLiteFields @@ "log" :> LogFields @@ "metric" :> MetricFields
  @@ "http" :> HTTPFields @@ "http-get" :> HTTPGetFields
  @@ "http-graphql" :> HTTPGraphQLFields @@ "webhook" :> WebhookFields
  @@ "webhook-hmac" :> WebhookHMACFields @@ "forward" :> ForwardFields
  @@ "ollama-generate" :> OllamaGenerateFields @@ "ollama-chat" :> OllamaChatFields
  @@ "openai-chat" :> OpenAIChatFields @@ "ollama-embed" :> OllamaEmbedFields
  @@ "ollama-classify" :> OllamaClassifyFields @@ "redis-subscribe" :> RedisSubscribeFields
  @@ "mqtt-subscribe" :> MQTTSubscribeFields @@ "nats-subscribe" :> NATSSubscribeFields
  @@ "kafka-consume" :> KafkaConsumeFields

Sources == {"redis-subscribe", "mqtt-subscribe", "nats-subscribe", "kafka-consume"}

AllFields == UNION {FieldsOf[b].fields : b \in DOMAIN FieldsOf}

-----------------------------------------------------------------------------
(* The copies *)

(* What can be written where. A handler and a step of a pipeline have no   *)
(* send; ":handler add" lacks some flags, most of them in the client, and  *)
(* others have a value nobody gave.                                        *)
HandlerFields == AllFields \ {"send"}

ServerFlags == HandlerFields \ {"delay", "base_dir"}

ClientFlags ==
  ServerFlags \ {"buffer_size", "burst", "duration", "event", "expect", "variables", "group_id",
                 "id", "max", "offset", "on_closed", "on_empty", "on_limit", "on_no_consumers",
                 "pool", "query", "rate", "secret", "status"}

FlagDefaults(s) ==
  {"broker_url", "qos", "nats_url"} \cup IF s = "server" THEN {"offset"} ELSE {}

InlineFields == {"topic", "respond"}

(* The copy of a concise handler that is validated. *)
CheckedFields == HandlerFields \ {"db", "sql", "init", "id", "base_dir"}

(* Mutant: the list has fallen behind. *)
ConciseFieldsOutdated ==
  HandlerFields \ {"db", "sql", "init", "max_history", "group_id", "offset",
                   "reconnect_interval", "subject"}

(* The one that is executed. *)
ConciseFields ==
  HandlerFields \ {"db", "sql", "init", "max_history", "group_id", "offset", "reconnect_interval"}

(* The copy of a step of a pipeline, which asks the registry for base_dir. *)
PipelineFields ==
  HandlerFields \ {"model", "max_history", "init", "group_id", "offset", "reconnect_interval",
                   "base_dir"}

-----------------------------------------------------------------------------
(* Handlers, and which are accepted *)

Options == {"retry", "rate_limit", "debounce"}

Whole(form, b) ==
  [form |-> form, uses |-> b, bad |-> {},
   set |-> (FieldsOf[b].fields \ IF form = "actions" THEN {"base_dir"} ELSE {"base_dir", "send"})
             \cup {"match"} \cup IF form = "concise" THEN {"name"} ELSE {}]

(* h with one field more, one less, or one that does not parse. *)
Variants(h) ==
  {h} \cup {[h EXCEPT !.set = @ \ {f}] : f \in h.set}
    \cup {[h EXCEPT !.set = @ \cup {"target"}]}
    \cup {[h EXCEPT !.bad = {f}] : f \in FieldsOf[h.uses].parsed \cup Options \cup {"delay"}}

Wholes == {Whole(form, b) : form \in {"concise", "actions", "pipeline"}, b \in DOMAIN FieldsOf}

(* Validate of the built-in, for an action with these fields. *)
Satisfies(b, set, bad) ==
  /\ \A c \in FieldsOf[b].needs : c.when \subseteq set => c.some \cap set # {}
  /\ FieldsOf[b].parsed \cap set \cap bad = {}

IsBuiltinAllowed(b, mode) == mode \in FieldsOf[b].scope

(* Validate of one action: of a list of actions, of on_connect and so on.  *)
ValidateAction(h, mode) ==
  /\ IsBuiltinAllowed(h.uses, mode)
  /\ Satisfies(h.uses, h.set, h.bad)
  /\ "delay" \notin h.bad

ValidateConcise(h, mode) ==
  /\ "name" \in h.set
  /\ IsBuiltinAllowed(h.uses, mode)
  /\ Satisfies(h.uses, h.set \cap CheckedFields, h.bad)
  /\ "delay" \notin h.bad
  /\ "target" \in h.set => h.uses \in {"forward", "log", "shadow"}
  /\ h.uses \in {"forward", "shadow"} => "target" \in h.set

(* Validate of the handlers, before any of them is taken. Nobody validates *)
(* the steps of a pipeline.                                                *)
Validate(h, mode) ==
  /\ "match" \in h.set \/ (h.form = "concise" /\ h.uses \in Sources)
  /\ Options \cap h.bad = {}
  /\ h.form = "actions" => ValidateAction(h, mode)
  /\ h.form = "concise" => ValidateConcise(h, mode)

-----------------------------------------------------------------------------
VARIABLES
  side,     \* the mode of the registry: "client" or "server"
  about,    \* the handler all of this is about, with every field it can set
  entry,    \* the handler in the registry, or None
  editor,   \* what is open in an editor: "one" handler, "all" of them, or None
  running,  \* the handler a message has matched, or None
  action    \* the action it was executed with: the fields set, or None

fldVars == <<side, about, entry, editor, running, action>>

FieldsInit ==
  /\ side \in {"client", "server"} /\ about \in Wholes
  /\ entry = None /\ editor = None /\ running = None /\ action = None

(* What somebody writes. Bound: the whole handler while a message runs.    *)
Written == IF running = None THEN Variants(about) ELSE {about}

Register(h) == IF Validate(h, side) THEN entry' = h ELSE UNCHANGED entry

(* A file of handlers, at the start or reloaded. *)
LoadConfig ==
  /\ entry = None
  /\ \E h \in Written : Register([h EXCEPT !.set = @ \cup {"base_dir"}])
  /\ UNCHANGED <<side, about, editor, running, action>>

(* --on of the command line: match, built-in, topic and respond. *)
ParseInlineHandler ==
  /\ entry = None
  /\ about.form = "concise"
  /\ Register([about EXCEPT !.set = @ \cap (InlineFields \cup {"match", "name"})])
  /\ UNCHANGED <<side, about, editor, running, action>>

(* ":handler add", which wants a match itself and has a name for those     *)
(* that have none.                                                         *)
AddHandlerByFlags ==
  /\ entry = None
  /\ about.form = "concise"
  /\ \E h \in Written :
       /\ "match" \in h.set \/ h.uses \in Sources
       /\ LET flags == IF side = "server" THEN ServerFlags ELSE ClientFlags IN
          Register([h EXCEPT !.set = (@ \cap (flags \cup {"match"}))
                                       \cup FlagDefaults(side) \cup {"name"}])
  /\ UNCHANGED <<side, about, editor, running, action>>

(* The API of the server creates a handler and replaces one, which keeps   *)
(* its name. What it is sent is what somebody would write in a file.       *)
HandlerOverHTTP ==
  /\ side = "server"
  /\ \E h \in Written :
       \/ entry = None /\ Register(h)
       \/ entry # None /\ Register(IF h.form = "concise" THEN [h EXCEPT !.set = @ \cup {"name"}] ELSE h)
  /\ UNCHANGED <<side, about, editor, running, action>>

OpenEditor ==
  /\ editor = None /\ entry # None
  /\ editor' \in {"one", "all"}
  /\ UNCHANGED <<side, about, entry, running, action>>

(* What comes back is a handler somebody changed, without the base_dir,    *)
(* which is not written out. One handler is put back in its place, if it   *)
(* is still there; all of them replace what there is by then.              *)
CloseEditor ==
  /\ editor # None
  /\ \/ UNCHANGED entry  \* no changes made
     \/ /\ entry # None \/ editor = "all"
        /\ \E h \in Written : Register(h)
  /\ editor' = None
  /\ UNCHANGED <<side, about, running, action>>

DeleteEntry ==
  /\ entry # None /\ entry' = None
  /\ UNCHANGED <<side, about, editor, running, action>>

MatchEntry ==
  /\ entry # None /\ running = None
  /\ running' = entry
  /\ UNCHANGED <<side, about, entry, editor, action>>

(* The action a built-in gets. *)
Copied(h) ==
  CASE h.form = "concise" -> h.set \cap ConciseFields
    [] h.form = "actions" -> (h.set \cap AllFields) \ {"base_dir"}
    [] h.form = "pipeline" ->
         (h.set \cap PipelineFields) \cup (IF entry = None THEN {} ELSE entry.set \cap {"base_dir"})

BuildAction ==
  /\ running # None /\ action = None
  /\ action' = Copied(running)
  /\ UNCHANGED <<side, about, entry, editor, running>>

MessageDone ==
  /\ action # None
  /\ running' = None /\ action' = None
  /\ UNCHANGED <<side, about, entry, editor>>

FieldsNext ==
  \/ LoadConfig \/ ParseInlineHandler \/ AddHandlerByFlags
  \/ HandlerOverHTTP \/ OpenEditor \/ CloseEditor \/ DeleteEntry
  \/ MatchEntry \/ BuildAction \/ MessageDone

FieldsSpec == FieldsInit /\ [][FieldsNext]_fldVars

-----------------------------------------------------------------------------
(* Properties *)

(* Every variable stays in its domain, and what is registered or runs was  *)
(* accepted.                                                               *)
FieldsTypeOK ==
  /\ side \in {"client", "server"} /\ about \in Wholes /\ editor \in {None, "one", "all"}
  /\ \A h \in {entry, running} \ {None} : h.uses \in DOMAIN FieldsOf /\ Validate(h, side)
  /\ action # None => running # None /\ action \subseteq AllFields

(* What was validated is what is executed: the action a concise handler or *)
(* one of a list is run with still has all that its built-in's Validate    *)
(* asks for, nothing it could not parse, and runs in a mode the built-in   *)
(* is for, whatever was edited, deleted and added meanwhile.               *)
AcceptedIsWhole ==
  action # None /\ running.form # "pipeline" =>
    /\ IsBuiltinAllowed(running.uses, side)
    /\ Satisfies(running.uses, action, running.bad)

(* A field that a handler sets and its built-in reads, as the comments of  *)
(* config.go say of each, is in the action it is run with.                 *)
FieldsArrive ==
  action # None /\ running.uses \notin Sources =>
    running.set \cap FieldsOf[running.uses].fields \subseteq action

=============================================================================

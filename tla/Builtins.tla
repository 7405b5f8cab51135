-------------------------------- MODULE Builtins --------------------------------
(***************************************************************************)
(* What each built-in action does (the Execute methods of                  *)
(* internal/handler/builtins_impl.go and its neighbours), as the list of   *)
(* its steps that can fail or that touch something shared, in the order of *)
(* the code. Rendering templates, parsing fields and building a request    *)
(* are one Eval when nothing happens in between. Actions gives the steps   *)
(* their meaning.                                                          *)
(***************************************************************************)
EXTENDS Sequences

Instruction(op, on) == [op |-> op, on |-> on]

Needs(s) == Instruction("needs", s)  \* an error where s is not there
Eval == Instruction("eval", "")      \* an error, or nothing happens
Call(s) == Instruction("call", s)    \* s, outside the program, fails or does it
Apply(s) == Instruction("apply", s)  \* a change inside the program, never fails
Send(c) == Instruction("send", c)    \* to the clients c; who is gone is skipped
Write == Instruction("write", "")    \* to the sender; an error if its queue is closed
TryWrite == Instruction("try", "")   \* the same, the error ignored
Stream == Instruction("stream", "")  \* if asked for: written in pieces, no respond
LookUp(v) == Instruction("look", v)    \* read the shared v
Take(v) == Instruction("take", v)    \* count v up under the registry's lock
Keep(v) == Instruction("keep", v)    \* store v from what was read before
Rotate == Instruction("rotate", "")  \* to the next client of the pool that is there
Spread == Instruction("spread", "")  \* to every client whose window has passed
EndIf(c) == Instruction("endif", c)  \* the built-in ends well if c holds
Leave(how) == Instruction("leave", how)  \* it ends with ErrDrop or the limit error
MayDrop == Instruction("maydrop", "")  \* as Leave("drop"), or nothing happens
Waits == Instruction("pause", "")    \* wait, or fail with the context
Enter(how) == Instruction("enter", how)  \* execute another handler, inside or aside
Exit == Instruction("exit", "")      \* a shell command: an error, or an exit code

-----------------------------------------------------------------------------
(* The actions that are not built-ins *)

executeShell == <<Eval, Exit>>
executeSend == <<Eval, Write>>

(* Topics and the key-value store *)

SubscribeBuiltin == <<Needs("topics"), Eval, Apply("subscribe")>>
UnsubscribeBuiltin == <<Needs("topics"), Eval, Apply("unsubscribe")>>
PublishBuiltin == <<Needs("topics"), Eval, Call("topics")>>
StickyBroadcastBuiltin == <<Needs("topics"), Eval, Call("topics")>>
KVSetBuiltin == <<Needs("kv"), Eval, Apply("set")>>
KVGetBuiltin == <<Needs("kv"), Eval, LookUp("stored")>>
KVDelBuiltin == <<Needs("kv"), Eval, Apply("delete")>>
KVListBuiltin == <<Needs("kv"), LookUp("stored")>>
GateBuiltin == <<Needs("kv"), Eval, LookUp("stored"), EndIf("stored"), TryWrite, Leave("drop")>>

(* Replies and deliveries *)

NoopBuiltin == <<Apply("nothing")>>
EchoBuiltin == <<EndIf("responds"), Write>>
TemplateBuiltin == <<Eval, Call("file"), Eval, Write>>
FileSendBuiltin == <<Eval, Call("file"), Write>>
FileWriteBuiltin == <<Eval, Call("file"), Call("file")>>
BroadcastBuiltin == <<Needs("server"), Eval, Send("all")>>
BroadcastOthersBuiltin == <<Needs("server"), Eval, Send("others")>>
MulticastBuiltin == <<Needs("server"), Eval, Send("targets")>>
SequenceBuiltin == <<Take("sequence"), Eval, Write>>
RoundRobinBuiltin ==
  <<Needs("server"), Eval, LookUp("rotation"), Eval, Rotate, Keep("rotation"), EndIf("sent"),
    Eval, Write>>
ThrottleBroadcastBuiltin == <<Needs("server"), Eval, LookUp("clock"), Spread>>
SSEForwardBuiltin == <<Needs("server"), Eval, Apply("stream config"), Apply("event")>>
HTTPMockRespondBuiltin == <<Needs("server"), Eval, Apply("mock")>>
RuleEngineBuiltin == <<EndIf("no reply"), Eval, Write>>

(* Control of the handler that runs it *)

DelayBuiltin == <<Eval, Waits>>
DropBuiltin == <<Leave("drop")>>
CloseBuiltin == <<Call("close")>>
RateLimitBuiltin == <<Eval, Take("limit"), EndIf("allowed"), TryWrite, Leave("limit")>>
SampleBuiltin == <<Eval, Take("sample"), EndIf("sampled"), Leave("drop")>>
OnceBuiltin == <<Eval, Apply("disable")>>
DebounceBuiltin == <<Eval, Apply("timer"), Leave("drop")>>
ABTestBuiltin == <<Eval, Enter("inside")>>
ShadowBuiltin == <<Eval, Enter("aside")>>
LuaBuiltin ==
  <<Eval, LookUp("state"), Keep("state"), Call("script"), EndIf("no reply"), MayDrop, Write>>

(* Services *)

RedisSetBuiltin == <<Needs("redis"), Eval, Call("redis")>>
RedisGetBuiltin == <<Needs("redis"), Eval, Call("redis"), Eval>>
RedisDelBuiltin == <<Needs("redis"), Eval, Call("redis")>>
RedisPublishBuiltin == <<Needs("redis"), Eval, Call("redis")>>
RedisLPushBuiltin == <<Needs("redis"), Eval, Call("redis")>>
RedisRPopBuiltin == <<Needs("redis"), Eval, Call("redis"), Eval>>
RedisIncrBuiltin == <<Needs("redis"), Eval, Call("redis")>>
MQTTPublishBuiltin == <<Needs("mqtt"), Eval, Call("mqtt")>>
NATSPublishBuiltin == <<Needs("nats"), Eval, Call("nats")>>
KafkaProduceBuiltin == <<Needs("kafka"), Eval, Call("kafka")>>
SQLiteBuiltin == <<Needs("sqlite"), Eval, Call("database")>>
LogBuiltin == <<Eval, Apply("console"), Eval, Call("file")>>
MetricBuiltin == <<Eval, Apply("metric")>>

(* HTTP and models *)

HTTPBuiltin == <<Eval, Call("http"), Eval>>
HTTPGetBuiltin == HTTPBuiltin
HTTPGraphQLBuiltin == <<Eval, Call("http"), Eval>>
WebhookBuiltin == <<Eval, Call("http"), Eval>>
WebhookHMACBuiltin == <<Eval, Call("http"), Eval>>
ForwardBuiltin == <<Eval, Call("upstream"), Call("upstream"), Eval>>
OllamaGenerateBuiltin == <<Eval, Call("model"), Stream>>
OllamaChatBuiltin == <<Eval, LookUp("history"), Call("model"), Stream, Keep("history")>>
OpenAIChatBuiltin == <<Eval, LookUp("history"), Call("model"), Stream, Keep("history")>>
OllamaEmbedBuiltin == <<Eval, Call("model"), Eval>>
OllamaClassifyBuiltin == <<Eval, Call("model"), Eval>>

(* Sources stand in a handler, they are not executed for a message. *)

RedisSubscribeBuiltin == <<Leave("fail")>>
MQTTSubscribeBuiltin == <<Leave("fail")>>
NATSSubscribeBuiltin == <<Leave("fail")>>
KafkaConsumeBuiltin == <<Leave("fail")>>

-----------------------------------------------------------------------------
(* What init registers, by name, and the actions with a type of their own. *)
Registered ==
  {<<"subscribe", SubscribeBuiltin>>, <<"unsubscribe", UnsubscribeBuiltin>>,
   <<"publish", PublishBuiltin>>, <<"sticky-broadcast", StickyBroadcastBuiltin>>,
   <<"kv-set", KVSetBuiltin>>, <<"kv-get", KVGetBuiltin>>, <<"kv-del", KVDelBuiltin>>,
   <<"kv-list", KVListBuiltin>>, <<"gate", GateBuiltin>>, <<"noop", NoopBuiltin>>,
   <<"echo", EchoBuiltin>>, <<"template", TemplateBuiltin>>, <<"file-send", FileSendBuiltin>>,
   <<"file-write", FileWriteBuiltin>>, <<"broadcast", BroadcastBuiltin>>,
   <<"broadcast-others", BroadcastOthersBuiltin>>, <<"multicast", MulticastBuiltin>>,
   <<"sequence", SequenceBuiltin>>, <<"round-robin", RoundRobinBuiltin>>,
   <<"throttle-broadcast", ThrottleBroadcastBuiltin>>, <<"sse-forward", SSEForwardBuiltin>>,
   <<"http-mock-respond", HTTPMockRespondBuiltin>>, <<"rule-engine", RuleEngineBuiltin>>,
   <<"delay", DelayBuiltin>>, <<"drop", DropBuiltin>>, <<"close", CloseBuiltin>>,
   <<"rate-limit", RateLimitBuiltin>>, <<"sample", SampleBuiltin>>, <<"once", OnceBuiltin>>,
   <<"debounce", DebounceBuiltin>>, <<"ab-test", ABTestBuiltin>>, <<"shadow", ShadowBuiltin>>,
   <<"lua", LuaBuiltin>>, <<"redis-set", RedisSetBuiltin>>, <<"redis-get", RedisGetBuiltin>>,
   <<"redis-del", RedisDelBuiltin>>, <<"redis-publish", RedisPublishBuiltin>>,
   <<"redis-lpush", RedisLPushBuiltin>>, <<"redis-rpop", RedisRPopBuiltin>>,
   <<"redis-incr", RedisIncrBuiltin>>, <<"mqtt-publish", MQTTPublishBuiltin>>,
   <<"nats-publish", NATSPublishBuiltin>>, <<"kafka-produce", KafkaProduceBuiltin>>,
   <<"sqlite", SQLiteBuiltin>>, <<"log", LogBuiltin>>, <<"metric", MetricBuiltin>>,
   <<"http", HTTPBuiltin>>, <<"http-get", HTTPGetBuiltin>>,
   <<"http-graphql", HTTPGraphQLBuiltin>>, <<"webhook", WebhookBuiltin>>,
   <<"webhook-hmac", WebhookHMACBuiltin>>, <<"forward", ForwardBuiltin>>,
   <<"ollama-generate", OllamaGenerateBuiltin>>, <<"ollama-chat", OllamaChatBuiltin>>,
   <<"openai-chat", OpenAIChatBuiltin>>, <<"ollama-embed", OllamaEmbedBuiltin>>,
   <<"ollama-classify", OllamaClassifyBuiltin>>, <<"redis-subscribe", RedisSubscribeBuiltin>>,
   <<"mqtt-subscribe", MQTTSubscribeBuiltin>>, <<"nats-subscribe", NATSSubscribeBuiltin>>,
   <<"kafka-consume", KafkaConsumeBuiltin>>, <<"shell", executeShell>>, <<"send", executeSend>>}

builtinRegistry ==
  [b \in {r[1] : r \in Registered} |-> (CHOOSE r \in Registered : r[1] = b)[2]]

=============================================================================

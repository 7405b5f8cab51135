----------------------------- MODULE ActionsSteps -----------------------------
(***************************************************************************)
(* The inductive invariant of Actions, for any handlers, messages, clients *)
(* and limits, and the steps of an execution that keep it: attempts,       *)
(* delays, responses, retries, errors and the end, and the built-ins that  *)
(* share nothing.                                                          *)
(*                                                                         *)
(* The proof goes by the frame that a step moves. Lands says where it may  *)
(* land, Changes that no other frame moves, and the Kept lemmas what of    *)
(* the invariant then holds, each part by itself.                          *)
(***************************************************************************)
EXTENDS Actions, SequenceLemmas, FiniteSetTheorems
-----------------------------------------------------------------------------
(* The scripts of the built-ins *)

(* Where the instructions stand that share something, and with what.       *)
Fits(b, i, x) ==
  /\ x.op = "look" =>
       \/ x.on = "stored" /\ b \in {"kv-get", "kv-list", "gate"}
       \/ x.on = "rotation" /\ b = "round-robin" /\ i = 3
       \/ x.on = "state" /\ b = "lua" /\ i = 2
       \/ x.on = "clock" /\ b = "throttle-broadcast" /\ i = 3
       \/ x.on = "history" /\ b \in Chats /\ i = 2
  /\ x.op = "keep" =>
       \/ x.on = "rotation" /\ b = "round-robin" /\ i = 6
       \/ x.on = "state" /\ b = "lua" /\ i = 3
       \/ x.on = "history" /\ b \in Chats /\ i = 5
  /\ x.op = "rotate" => b = "round-robin" /\ i = 5
  /\ x.op = "spread" => b = "throttle-broadcast" /\ i = 4
  /\ x.op = "take" => \/ x.on = "sequence" /\ b = "sequence"
                      \/ x.on = "sample" /\ b = "sample"
                      \/ x.on = "limit" /\ b = "rate-limit" /\ i = 2
  /\ x.op = "enter" => (x.on = "inside" /\ b = "ab-test") \/ (x.on = "aside" /\ b = "shadow")
  /\ x.op = "leave" => x.on \in {"drop", "limit", "fail"}
  /\ x.op = "endif" => \/ x.on = "stored" /\ b = "gate" /\ i = 4
                       \/ x.on = "allowed" /\ b = "rate-limit" /\ i = 3
                       \/ x.on \in {"responds", "sent", "sampled", "no reply"}

(* The places where a script's got is set, used or written back.           *)
Marked(b, s) ==
  /\ b = "gate" => s[3].op = "look"
  /\ b = "rate-limit" => s[2].op = "take"
  /\ b = "round-robin" => Len(s) # 5 /\ s[3].op = "look" /\ s[5].op = "rotate" /\ s[6].op = "keep"
  /\ b = "lua" => s[2].op = "look" /\ s[3].op = "keep"
  /\ b = "throttle-broadcast" => s[3].op = "look" /\ s[4].op = "spread"
  /\ b \in Chats => s[2].op = "look" /\ s[5].op = "keep"

ScriptFits(b, s) ==
  /\ Len(s) \in Nat /\ DOMAIN s = 1..Len(s) /\ 1 \in DOMAIN s
  /\ \A i \in DOMAIN s : Fits(b, i, s[i])

(* What is left at that: the other instructions fit anywhere.              *)
LEMMA Fitting ==
  ASSUME NEW b, NEW i
  PROVE  /\ \A x : Fits(b, i, Needs(x)) /\ Fits(b, i, Call(x)) /\ Fits(b, i, Apply(x)) /\ Fits(b, i, Send(x))
         /\ Fits(b, i, Eval) /\ Fits(b, i, Write) /\ Fits(b, i, TryWrite) /\ Fits(b, i, Stream)
         /\ Fits(b, i, MayDrop) /\ Fits(b, i, Waits) /\ Fits(b, i, Exit)
         /\ \A x \in {"responds", "sent", "sampled", "no reply"} : Fits(b, i, EndIf(x))
         /\ \A x \in {"drop", "limit", "fail"} : Fits(b, i, Leave(x))
<1>1. \A op, on : Instruction(op, on).op = op /\ Instruction(op, on).on = on
  BY DEF Instruction
<1>2. ASSUME NEW x, x.op \in {"needs", "call", "apply", "send", "eval", "write", "try", "stream", "maydrop", "pause", "exit"}
      PROVE  Fits(b, i, x)
  BY <1>2 DEF Fits
<1>3. \A x : /\ Needs(x).op = "needs" /\ Call(x).op = "call" /\ Apply(x).op = "apply"
             /\ Send(x).op = "send"
  BY <1>1 DEF Needs, Call, Apply, Send
<1>4. /\ Eval.op = "eval" /\ Write.op = "write" /\ TryWrite.op = "try" /\ Stream.op = "stream"
      /\ MayDrop.op = "maydrop" /\ Waits.op = "pause" /\ Exit.op = "exit"
  BY <1>1 DEF Eval, Write, TryWrite, Stream, MayDrop, Waits, Exit
<1>5. \A x : EndIf(x).op = "endif" /\ EndIf(x).on = x /\ Leave(x).op = "leave" /\ Leave(x).on = x
  BY <1>1 DEF EndIf, Leave
<1>6. ASSUME NEW x, NEW on, x.op = "endif", x.on = on, on \in {"responds", "sent", "sampled", "no reply"}
      PROVE  Fits(b, i, x)
  BY <1>6 DEF Fits
<1>7. ASSUME NEW x, NEW on, x.op = "leave", x.on = on, on \in {"drop", "limit", "fail"}
      PROVE  Fits(b, i, x)
  BY <1>7 DEF Fits
<1>8. \A x : Fits(b, i, Needs(x)) /\ Fits(b, i, Call(x)) /\ Fits(b, i, Apply(x)) /\ Fits(b, i, Send(x))
  BY <1>2, <1>3
<1>9. /\ Fits(b, i, Eval) /\ Fits(b, i, Write) /\ Fits(b, i, TryWrite) /\ Fits(b, i, Stream)
      /\ Fits(b, i, MayDrop) /\ Fits(b, i, Waits) /\ Fits(b, i, Exit)
  BY <1>2, <1>4
<1>10. /\ \A x \in {"responds", "sent", "sampled", "no reply"} : Fits(b, i, EndIf(x))
       /\ \A x \in {"drop", "limit", "fail"} : Fits(b, i, Leave(x))
  BY <1>5, <1>6, <1>7
<1>11. QED
  BY <1>8, <1>9, <1>10

(* The instructions that share something.                                  *)
LEMMA FittingShared ==
  /\ Fits("kv-get", 3, LookUp("stored")) /\ Fits("kv-list", 2, LookUp("stored")) /\ Fits("gate", 3, LookUp("stored"))
  /\ Fits("round-robin", 3, LookUp("rotation")) /\ Fits("round-robin", 5, Rotate)
  /\ Fits("round-robin", 6, Keep("rotation"))
  /\ Fits("lua", 2, LookUp("state")) /\ Fits("lua", 3, Keep("state"))
  /\ Fits("throttle-broadcast", 3, LookUp("clock")) /\ Fits("throttle-broadcast", 4, Spread)
  /\ \A b \in Chats : Fits(b, 2, LookUp("history")) /\ Fits(b, 5, Keep("history"))
  /\ Fits("sequence", 1, Take("sequence")) /\ Fits("rate-limit", 2, Take("limit"))
  /\ Fits("sample", 2, Take("sample"))
  /\ Fits("gate", 4, EndIf("stored")) /\ Fits("rate-limit", 3, EndIf("allowed"))
  /\ Fits("ab-test", 2, Enter("inside")) /\ Fits("shadow", 2, Enter("aside"))
<1>1. \A op, on : Instruction(op, on).op = op /\ Instruction(op, on).on = on
  BY DEF Instruction
<1>2. \A x : /\ LookUp(x).op = "look" /\ LookUp(x).on = x /\ Keep(x).op = "keep" /\ Keep(x).on = x
             /\ Take(x).op = "take" /\ Take(x).on = x /\ Enter(x).op = "enter" /\ Enter(x).on = x
             /\ EndIf(x).op = "endif" /\ EndIf(x).on = x
  BY <1>1 DEF LookUp, Keep, Take, Enter, EndIf
<1>3. Rotate.op = "rotate" /\ Spread.op = "spread"
  BY <1>1 DEF Rotate, Spread
<1>4. Fits("kv-get", 3, LookUp("stored"))
  BY <1>2, <1>3 DEF Fits, Chats
<1>5. Fits("kv-list", 2, LookUp("stored"))
  BY <1>2, <1>3 DEF Fits, Chats
<1>6. Fits("gate", 3, LookUp("stored"))
  BY <1>2, <1>3 DEF Fits, Chats
<1>7. Fits("round-robin", 3, LookUp("rotation"))
  BY <1>2, <1>3 DEF Fits, Chats
<1>8. Fits("round-robin", 5, Rotate)
  BY <1>2, <1>3 DEF Fits, Chats
<1>9. Fits("round-robin", 6, Keep("rotation"))
  BY <1>2, <1>3 DEF Fits, Chats
<1>10. Fits("lua", 2, LookUp("state"))
  BY <1>2, <1>3 DEF Fits, Chats
<1>11. Fits("lua", 3, Keep("state"))
  BY <1>2, <1>3 DEF Fits, Chats
<1>12. Fits("throttle-broadcast", 3, LookUp("clock"))
  BY <1>2, <1>3 DEF Fits, Chats
<1>13. Fits("throttle-broadcast", 4, Spread)
  BY <1>2, <1>3 DEF Fits, Chats
<1>14. ASSUME NEW b \in Chats PROVE Fits(b, 2, LookUp("history"))
  BY <1>2 DEF Fits, Chats
<1>15. ASSUME NEW b \in Chats PROVE Fits(b, 5, Keep("history"))
  BY <1>2 DEF Fits, Chats
<1>16. Fits("sequence", 1, Take("sequence"))
  BY <1>2, <1>3 DEF Fits, Chats
<1>17. Fits("rate-limit", 2, Take("limit"))
  BY <1>2, <1>3 DEF Fits, Chats
<1>18. Fits("sample", 2, Take("sample"))
  BY <1>2, <1>3 DEF Fits, Chats
<1>19. Fits("gate", 4, EndIf("stored"))
  BY <1>2, <1>3 DEF Fits, Chats
<1>20. Fits("rate-limit", 3, EndIf("allowed"))
  BY <1>2, <1>3 DEF Fits, Chats
<1>21. Fits("ab-test", 2, Enter("inside"))
  BY <1>2, <1>3 DEF Fits, Chats
<1>22. Fits("shadow", 2, Enter("aside"))
  BY <1>2, <1>3 DEF Fits, Chats
<1>23. QED
  BY <1>4, <1>5, <1>6, <1>7, <1>8, <1>9, <1>10, <1>11, <1>12, <1>13, <1>14, <1>15, <1>16, <1>17, <1>18, <1>19, <1>20, <1>21, <1>22

(* Scripts of every length.                                                *)
LEMMA ScriptLengths ==
  ASSUME NEW b, NEW x1, NEW x2, NEW x3, NEW x4, NEW x5, NEW x6, NEW x7, NEW x8, NEW x9
  PROVE  /\ Fits(b, 1, x1) => ScriptFits(b, <<x1>>)
         /\ Fits(b, 1, x1) /\ Fits(b, 2, x2) => ScriptFits(b, <<x1, x2>>)
         /\ Fits(b, 1, x1) /\ Fits(b, 2, x2) /\ Fits(b, 3, x3) => ScriptFits(b, <<x1, x2, x3>>)
         /\ Fits(b, 1, x1) /\ Fits(b, 2, x2) /\ Fits(b, 3, x3) /\ Fits(b, 4, x4)
               => ScriptFits(b, <<x1, x2, x3, x4>>)
         /\ Fits(b, 1, x1) /\ Fits(b, 2, x2) /\ Fits(b, 3, x3) /\ Fits(b, 4, x4) /\ Fits(b, 5, x5)
               => ScriptFits(b, <<x1, x2, x3, x4, x5>>)
         /\ Fits(b, 1, x1) /\ Fits(b, 2, x2) /\ Fits(b, 3, x3) /\ Fits(b, 4, x4) /\ Fits(b, 5, x5) /\ Fits(b, 6, x6)
               => ScriptFits(b, <<x1, x2, x3, x4, x5, x6>>)
         /\ Fits(b, 1, x1) /\ Fits(b, 2, x2) /\ Fits(b, 3, x3) /\ Fits(b, 4, x4) /\ Fits(b, 5, x5) /\ Fits(b, 6, x6) /\ Fits(b, 7, x7)
               => ScriptFits(b, <<x1, x2, x3, x4, x5, x6, x7>>)
         /\ Fits(b, 1, x1) /\ Fits(b, 2, x2) /\ Fits(b, 3, x3) /\ Fits(b, 4, x4) /\ Fits(b, 5, x5) /\ Fits(b, 6, x6) /\ Fits(b, 7, x7) /\ Fits(b, 8, x8) /\ Fits(b, 9, x9)
               => ScriptFits(b, <<x1, x2, x3, x4, x5, x6, x7, x8, x9>>)
<1>1. ASSUME Fits(b, 1, x1)
      PROVE  ScriptFits(b, <<x1>>)
  <2> DEFINE s == <<x1>>
  <2>1. /\ Len(s) = 1 /\ DOMAIN s = 1..1
        /\ s[1] = x1
    OBVIOUS
  <2> HIDE DEF s
  <2>2. \A i \in 1..1 : i = 1
    OBVIOUS
  <2>3. ScriptFits(b, s)
    BY <1>1, <2>1, <2>2 DEF ScriptFits
  <2>4. QED
    BY <2>3 DEF s
<1>2. ASSUME Fits(b, 1, x1), Fits(b, 2, x2)
      PROVE  ScriptFits(b, <<x1, x2>>)
  <2> DEFINE s == <<x1, x2>>
  <2>1. /\ Len(s) = 2 /\ DOMAIN s = 1..2
        /\ s[1] = x1 /\ s[2] = x2
    OBVIOUS
  <2> HIDE DEF s
  <2>2. \A i \in 1..2 : i = 1 \/ i = 2
    OBVIOUS
  <2>3. ScriptFits(b, s)
    BY <1>2, <2>1, <2>2 DEF ScriptFits
  <2>4. QED
    BY <2>3 DEF s
<1>3. ASSUME Fits(b, 1, x1), Fits(b, 2, x2), Fits(b, 3, x3)
      PROVE  ScriptFits(b, <<x1, x2, x3>>)
  <2> DEFINE s == <<x1, x2, x3>>
  <2>1. /\ Len(s) = 3 /\ DOMAIN s = 1..3
        /\ s[1] = x1 /\ s[2] = x2 /\ s[3] = x3
    OBVIOUS
  <2> HIDE DEF s
  <2>2. \A i \in 1..3 : i = 1 \/ i = 2 \/ i = 3
    OBVIOUS
  <2>3. ScriptFits(b, s)
    BY <1>3, <2>1, <2>2 DEF ScriptFits
  <2>4. QED
    BY <2>3 DEF s
<1>4. ASSUME Fits(b, 1, x1), Fits(b, 2, x2), Fits(b, 3, x3), Fits(b, 4, x4)
      PROVE  ScriptFits(b, <<x1, x2, x3, x4>>)
  <2> DEFINE s == <<x1, x2, x3, x4>>
  <2>1. /\ Len(s) = 4 /\ DOMAIN s = 1..4
        /\ s[1] = x1 /\ s[2] = x2 /\ s[3] = x3 /\ s[4] = x4
    OBVIOUS
  <2> HIDE DEF s
  <2>2. \A i \in 1..4 : i = 1 \/ i = 2 \/ i = 3 \/ i = 4
    OBVIOUS
  <2>3. ScriptFits(b, s)
    BY <1>4, <2>1, <2>2 DEF ScriptFits
  <2>4. QED
    BY <2>3 DEF s
<1>5. ASSUME Fits(b, 1, x1), Fits(b, 2, x2), Fits(b, 3, x3), Fits(b, 4, x4), Fits(b, 5, x5)
      PROVE  ScriptFits(b, <<x1, x2, x3, x4, x5>>)
  <2> DEFINE s == <<x1, x2, x3, x4, x5>>
  <2>1. /\ Len(s) = 5 /\ DOMAIN s = 1..5
        /\ s[1] = x1 /\ s[2] = x2 /\ s[3] = x3 /\ s[4] = x4 /\ s[5] = x5
    OBVIOUS
  <2> HIDE DEF s
  <2>2. \A i \in 1..5 : i = 1 \/ i = 2 \/ i = 3 \/ i = 4 \/ i = 5
    OBVIOUS
  <2>3. ScriptFits(b, s)
    BY <1>5, <2>1, <2>2 DEF ScriptFits
  <2>4. QED
    BY <2>3 DEF s
<1>6. ASSUME Fits(b, 1, x1), Fits(b, 2, x2), Fits(b, 3, x3), Fits(b, 4, x4), Fits(b, 5, x5), Fits(b, 6, x6)
      PROVE  ScriptFits(b, <<x1, x2, x3, x4, x5, x6>>)
  <2> DEFINE s == <<x1, x2, x3, x4, x5, x6>>
  <2>1. /\ Len(s) = 6 /\ DOMAIN s = 1..6
        /\ s[1] = x1 /\ s[2] = x2 /\ s[3] = x3 /\ s[4] = x4 /\ s[5] = x5 /\ s[6] = x6
    OBVIOUS
  <2> HIDE DEF s
  <2>2. \A i \in 1..6 : i = 1 \/ i = 2 \/ i = 3 \/ i = 4 \/ i = 5 \/ i = 6
    OBVIOUS
  <2>3. ScriptFits(b, s)
    BY <1>6, <2>1, <2>2 DEF ScriptFits
  <2>4. QED
    BY <2>3 DEF s
<1>7. ASSUME Fits(b, 1, x1), Fits(b, 2, x2), Fits(b, 3, x3), Fits(b, 4, x4), Fits(b, 5, x5), Fits(b, 6, x6), Fits(b, 7, x7)
      PROVE  ScriptFits(b, <<x1, x2, x3, x4, x5, x6, x7>>)
  <2> DEFINE s == <<x1, x2, x3, x4, x5, x6, x7>>
  <2>1. /\ Len(s) = 7 /\ DOMAIN s = 1..7
        /\ s[1] = x1 /\ s[2] = x2 /\ s[3] = x3 /\ s[4] = x4 /\ s[5] = x5 /\ s[6] = x6 /\ s[7] = x7
    OBVIOUS
  <2> HIDE DEF s
  <2>2. \A i \in 1..7 : i = 1 \/ i = 2 \/ i = 3 \/ i = 4 \/ i = 5 \/ i = 6 \/ i = 7
    OBVIOUS
  <2>3. ScriptFits(b, s)
    BY <1>7, <2>1, <2>2 DEF ScriptFits
  <2>4. QED
    BY <2>3 DEF s
<1>8. ASSUME Fits(b, 1, x1), Fits(b, 2, x2), Fits(b, 3, x3), Fits(b, 4, x4), Fits(b, 5, x5), Fits(b, 6, x6), Fits(b, 7, x7), Fits(b, 8, x8), Fits(b, 9, x9)
      PROVE  ScriptFits(b, <<x1, x2, x3, x4, x5, x6, x7, x8, x9>>)
  <2> DEFINE s == <<x1, x2, x3, x4, x5, x6, x7, x8, x9>>
  <2>1. /\ Len(s) = 9 /\ DOMAIN s = 1..9
        /\ s[1] = x1 /\ s[2] = x2 /\ s[3] = x3 /\ s[4] = x4 /\ s[5] = x5 /\ s[6] = x6 /\ s[7] = x7 /\ s[8] = x8 /\ s[9] = x9
    OBVIOUS
  <2> HIDE DEF s
  <2>2. \A i \in 1..9 : i = 1 \/ i = 2 \/ i = 3 \/ i = 4 \/ i = 5 \/ i = 6 \/ i = 7 \/ i = 8 \/ i = 9
    OBVIOUS
  <2>3. ScriptFits(b, s)
    BY <1>8, <2>1, <2>2 DEF ScriptFits
  <2>4. QED
    BY <2>3 DEF s
<1>9. QED
  BY <1>1, <1>2, <1>3, <1>4, <1>5, <1>6, <1>7, <1>8

(* Every script fits.                                                      *)
LEMMA AllFit == \A r \in Registered : ScriptFits(r[1], r[2])
<1>1. /\ ScriptFits("noop", NoopBuiltin)
      /\ ScriptFits("drop", DropBuiltin)
      /\ ScriptFits("close", CloseBuiltin)
      /\ ScriptFits("redis-subscribe", RedisSubscribeBuiltin)
      /\ ScriptFits("mqtt-subscribe", MQTTSubscribeBuiltin)
      /\ ScriptFits("nats-subscribe", NATSSubscribeBuiltin)
      /\ ScriptFits("kafka-consume", KafkaConsumeBuiltin)
  BY Fitting, ScriptLengths DEF NoopBuiltin, DropBuiltin, CloseBuiltin, RedisSubscribeBuiltin, MQTTSubscribeBuiltin, NATSSubscribeBuiltin, KafkaConsumeBuiltin
<1>2. /\ ScriptFits("kv-list", KVListBuiltin)
      /\ ScriptFits("echo", EchoBuiltin)
      /\ ScriptFits("delay", DelayBuiltin)
      /\ ScriptFits("once", OnceBuiltin)
      /\ ScriptFits("ab-test", ABTestBuiltin)
      /\ ScriptFits("shadow", ShadowBuiltin)
      /\ ScriptFits("metric", MetricBuiltin)
      /\ ScriptFits("shell", executeShell)
  BY Fitting, FittingShared, ScriptLengths DEF KVListBuiltin, EchoBuiltin, DelayBuiltin, OnceBuiltin, ABTestBuiltin, ShadowBuiltin, MetricBuiltin, executeShell
<1>3. /\ ScriptFits("send", executeSend)
  BY Fitting, ScriptLengths DEF executeSend
<1>4. /\ ScriptFits("subscribe", SubscribeBuiltin)
      /\ ScriptFits("unsubscribe", UnsubscribeBuiltin)
      /\ ScriptFits("publish", PublishBuiltin)
      /\ ScriptFits("sticky-broadcast", StickyBroadcastBuiltin)
      /\ ScriptFits("kv-set", KVSetBuiltin)
      /\ ScriptFits("kv-get", KVGetBuiltin)
      /\ ScriptFits("kv-del", KVDelBuiltin)
      /\ ScriptFits("file-send", FileSendBuiltin)
  BY Fitting, FittingShared, ScriptLengths DEF SubscribeBuiltin, UnsubscribeBuiltin, PublishBuiltin, StickyBroadcastBuiltin, KVSetBuiltin, KVGetBuiltin, KVDelBuiltin, FileSendBuiltin
<1>5. /\ ScriptFits("file-write", FileWriteBuiltin)
      /\ ScriptFits("broadcast", BroadcastBuiltin)
      /\ ScriptFits("broadcast-others", BroadcastOthersBuiltin)
      /\ ScriptFits("multicast", MulticastBuiltin)
      /\ ScriptFits("sequence", SequenceBuiltin)
      /\ ScriptFits("http-mock-respond", HTTPMockRespondBuiltin)
      /\ ScriptFits("rule-engine", RuleEngineBuiltin)
      /\ ScriptFits("debounce", DebounceBuiltin)
  BY Fitting, FittingShared, ScriptLengths DEF FileWriteBuiltin, BroadcastBuiltin, BroadcastOthersBuiltin, MulticastBuiltin, SequenceBuiltin, HTTPMockRespondBuiltin, RuleEngineBuiltin, DebounceBuiltin
<1>6. /\ ScriptFits("redis-set", RedisSetBuiltin)
      /\ ScriptFits("redis-del", RedisDelBuiltin)
      /\ ScriptFits("redis-publish", RedisPublishBuiltin)
      /\ ScriptFits("redis-lpush", RedisLPushBuiltin)
      /\ ScriptFits("redis-incr", RedisIncrBuiltin)
      /\ ScriptFits("mqtt-publish", MQTTPublishBuiltin)
      /\ ScriptFits("nats-publish", NATSPublishBuiltin)
      /\ ScriptFits("kafka-produce", KafkaProduceBuiltin)
  BY Fitting, ScriptLengths DEF RedisSetBuiltin, RedisDelBuiltin, RedisPublishBuiltin, RedisLPushBuiltin, RedisIncrBuiltin, MQTTPublishBuiltin, NATSPublishBuiltin, KafkaProduceBuiltin
<1>7. /\ ScriptFits("sqlite", SQLiteBuiltin)
      /\ ScriptFits("http", HTTPBuiltin)
      /\ ScriptFits("http-get", HTTPGetBuiltin)
      /\ ScriptFits("http-graphql", HTTPGraphQLBuiltin)
      /\ ScriptFits("webhook", WebhookBuiltin)
      /\ ScriptFits("webhook-hmac", WebhookHMACBuiltin)
      /\ ScriptFits("ollama-generate", OllamaGenerateBuiltin)
      /\ ScriptFits("ollama-embed", OllamaEmbedBuiltin)
  BY Fitting, ScriptLengths DEF SQLiteBuiltin, HTTPBuiltin, HTTPGetBuiltin, HTTPGraphQLBuiltin, WebhookBuiltin, WebhookHMACBuiltin, OllamaGenerateBuiltin, OllamaEmbedBuiltin
<1>8. /\ ScriptFits("ollama-classify", OllamaClassifyBuiltin)
  BY Fitting, ScriptLengths DEF OllamaClassifyBuiltin
<1>9. /\ ScriptFits("template", TemplateBuiltin)
      /\ ScriptFits("throttle-broadcast", ThrottleBroadcastBuiltin)
      /\ ScriptFits("sse-forward", SSEForwardBuiltin)
      /\ ScriptFits("sample", SampleBuiltin)
      /\ ScriptFits("redis-get", RedisGetBuiltin)
      /\ ScriptFits("redis-rpop", RedisRPopBuiltin)
      /\ ScriptFits("log", LogBuiltin)
      /\ ScriptFits("forward", ForwardBuiltin)
  BY Fitting, FittingShared, ScriptLengths DEF TemplateBuiltin, ThrottleBroadcastBuiltin, SSEForwardBuiltin, SampleBuiltin, RedisGetBuiltin, RedisRPopBuiltin, LogBuiltin, ForwardBuiltin
<1>10. /\ ScriptFits("rate-limit", RateLimitBuiltin)
      /\ ScriptFits("ollama-chat", OllamaChatBuiltin)
      /\ ScriptFits("openai-chat", OpenAIChatBuiltin)
  BY Fitting, FittingShared, ScriptLengths DEF RateLimitBuiltin, OllamaChatBuiltin, OpenAIChatBuiltin, Chats
<1>11. /\ ScriptFits("gate", GateBuiltin)
  BY Fitting, FittingShared, ScriptLengths DEF GateBuiltin
<1>12. /\ ScriptFits("lua", LuaBuiltin)
  BY Fitting, FittingShared, ScriptLengths DEF LuaBuiltin
<1>13. /\ ScriptFits("round-robin", RoundRobinBuiltin)
  BY Fitting, FittingShared, ScriptLengths DEF RoundRobinBuiltin
<1>14. QED
  BY <1>1, <1>2, <1>3, <1>4, <1>5, <1>6, <1>7, <1>8, <1>9, <1>10, <1>11, <1>12, <1>13 DEF Registered

(* The places where got is set and used are where Marked says.              *)
LEMMA AllMarked == \A r \in Registered : Marked(r[1], r[2])
<1>1. \A op, on : Instruction(op, on).op = op
  BY DEF Instruction
<1>2. Marked("gate", GateBuiltin)
  BY <1>1 DEF Marked, GateBuiltin, Chats, LookUp, Take, Rotate, Keep, Spread
<1>3. Marked("round-robin", RoundRobinBuiltin)
  <2>1. Len(RoundRobinBuiltin) = 9
    BY DEF RoundRobinBuiltin
  <2>2. /\ RoundRobinBuiltin[3] = LookUp("rotation") /\ RoundRobinBuiltin[5] = Rotate
        /\ RoundRobinBuiltin[6] = Keep("rotation")
    BY DEF RoundRobinBuiltin
  <2>3. LookUp("rotation").op = "look" /\ Rotate.op = "rotate" /\ Keep("rotation").op = "keep"
    BY <1>1 DEF LookUp, Rotate, Keep
  <2>4. QED
    BY <2>1, <2>2, <2>3 DEF Marked, Chats
<1>4. Marked("throttle-broadcast", ThrottleBroadcastBuiltin)
  BY <1>1 DEF Marked, ThrottleBroadcastBuiltin, Chats, LookUp, Take, Rotate, Keep, Spread
<1>5. Marked("rate-limit", RateLimitBuiltin)
  BY <1>1 DEF Marked, RateLimitBuiltin, Chats, LookUp, Take, Rotate, Keep, Spread
<1>6. Marked("lua", LuaBuiltin)
  BY <1>1 DEF Marked, LuaBuiltin, Chats, LookUp, Take, Rotate, Keep, Spread
<1>7. Marked("ollama-chat", OllamaChatBuiltin)
  BY <1>1 DEF Marked, OllamaChatBuiltin, Chats, LookUp, Take, Rotate, Keep, Spread
<1>8. Marked("openai-chat", OpenAIChatBuiltin)
  BY <1>1 DEF Marked, OpenAIChatBuiltin, Chats, LookUp, Take, Rotate, Keep, Spread
<1>9. /\ Marked("subscribe", SubscribeBuiltin)
      /\ Marked("unsubscribe", UnsubscribeBuiltin)
      /\ Marked("publish", PublishBuiltin)
      /\ Marked("sticky-broadcast", StickyBroadcastBuiltin)
      /\ Marked("kv-set", KVSetBuiltin)
      /\ Marked("kv-get", KVGetBuiltin)
      /\ Marked("kv-del", KVDelBuiltin)
      /\ Marked("kv-list", KVListBuiltin)
      /\ Marked("noop", NoopBuiltin)
      /\ Marked("echo", EchoBuiltin)
      /\ Marked("template", TemplateBuiltin)
      /\ Marked("file-send", FileSendBuiltin)
  BY DEF Marked, Chats
<1>10. /\ Marked("file-write", FileWriteBuiltin)
      /\ Marked("broadcast", BroadcastBuiltin)
      /\ Marked("broadcast-others", BroadcastOthersBuiltin)
      /\ Marked("multicast", MulticastBuiltin)
      /\ Marked("sequence", SequenceBuiltin)
      /\ Marked("sse-forward", SSEForwardBuiltin)
      /\ Marked("http-mock-respond", HTTPMockRespondBuiltin)
      /\ Marked("rule-engine", RuleEngineBuiltin)
      /\ Marked("delay", DelayBuiltin)
      /\ Marked("drop", DropBuiltin)
      /\ Marked("close", CloseBuiltin)
      /\ Marked("sample", SampleBuiltin)
  BY DEF Marked, Chats
<1>11. /\ Marked("once", OnceBuiltin)
      /\ Marked("debounce", DebounceBuiltin)
      /\ Marked("ab-test", ABTestBuiltin)
      /\ Marked("shadow", ShadowBuiltin)
      /\ Marked("redis-set", RedisSetBuiltin)
      /\ Marked("redis-get", RedisGetBuiltin)
      /\ Marked("redis-del", RedisDelBuiltin)
      /\ Marked("redis-publish", RedisPublishBuiltin)
      /\ Marked("redis-lpush", RedisLPushBuiltin)
      /\ Marked("redis-rpop", RedisRPopBuiltin)
      /\ Marked("redis-incr", RedisIncrBuiltin)
      /\ Marked("mqtt-publish", MQTTPublishBuiltin)
  BY DEF Marked, Chats
<1>12. /\ Marked("nats-publish", NATSPublishBuiltin)
      /\ Marked("kafka-produce", KafkaProduceBuiltin)
      /\ Marked("sqlite", SQLiteBuiltin)
      /\ Marked("log", LogBuiltin)
      /\ Marked("metric", MetricBuiltin)
      /\ Marked("http", HTTPBuiltin)
      /\ Marked("http-get", HTTPGetBuiltin)
      /\ Marked("http-graphql", HTTPGraphQLBuiltin)
      /\ Marked("webhook", WebhookBuiltin)
      /\ Marked("webhook-hmac", WebhookHMACBuiltin)
      /\ Marked("forward", ForwardBuiltin)
      /\ Marked("ollama-generate", OllamaGenerateBuiltin)
  BY DEF Marked, Chats
<1>13. /\ Marked("ollama-embed", OllamaEmbedBuiltin)
      /\ Marked("ollama-classify", OllamaClassifyBuiltin)
      /\ Marked("redis-subscribe", RedisSubscribeBuiltin)
      /\ Marked("mqtt-subscribe", MQTTSubscribeBuiltin)
      /\ Marked("nats-subscribe", NATSSubscribeBuiltin)
      /\ Marked("kafka-consume", KafkaConsumeBuiltin)
      /\ Marked("shell", executeShell)
      /\ Marked("send", executeSend)
  BY DEF Marked, Chats
<1>14. QED
  BY <1>2, <1>3, <1>4, <1>5, <1>6, <1>7, <1>8, <1>9, <1>10, <1>11, <1>12, <1>13 DEF Registered

(* So does what is looked up by name.                                      *)
LEMMA ScriptsFit ==
  \A b \in DOMAIN builtinRegistry :
    ScriptFits(b, builtinRegistry[b]) /\ Marked(b, builtinRegistry[b])
<1>1. DOMAIN builtinRegistry = {r[1] : r \in Registered}
  BY DEF builtinRegistry
<1>2. ASSUME NEW b \in {r[1] : r \in Registered}
      PROVE  ScriptFits(b, builtinRegistry[b]) /\ Marked(b, builtinRegistry[b])
  <2>1. builtinRegistry[b] = (CHOOSE r \in Registered : r[1] = b)[2]
    BY <1>2 DEF builtinRegistry
  <2>2. PICK r \in Registered : r[1] = b /\ builtinRegistry[b] = r[2]
    <3>1. \E r \in Registered : r[1] = b
      BY <1>2
    <3> DEFINE r == CHOOSE r \in Registered : r[1] = b
    <3>2. r \in Registered /\ r[1] = b
      BY <3>1
    <3>3. QED
      BY <2>1, <3>2
  <2>3. QED
    BY <2>2, AllFit, AllMarked
<1>3. QED
  BY <1>1, <1>2

-----------------------------------------------------------------------------
(* The inductive invariant *)

Pcs == {"lock", "delay", "run", "respond", "reply", "backoff", "own", "all", "return"}
Hows == {"ok", "fail", "drop", "limit", "unsent", "cancelled"}
Turns == {"user", "assistant"} \X Inbox
Places == 1..Len(Pool)
Looks == [now : 0..MaxTime, todo : SUBSET ToSet(Pool), sent : ToSet(Pool) \cup {None}]
Gots == {None} \cup BOOLEAN \cup Nat \cup Looks \cup Seq(Turns)
Frames == [h : HandlerNames, pc : Pcs, try : Nat, at : Nat, ip : Nat, exit : BOOLEAN,
           got : Gots, mute : BOOLEAN, how : Hows]
Registers == [sequence : 0..Responses - 1, sample : Nat, rotation : Places, limit : 0..Burst,
              state : Nat, last : [ToSet(Pool) -> 0..MaxTime \cup {None}]]
Vals == Gots \cup Chats \cup [where : {"main", "aside"}, how : Hows]
        \cup [place : Places, up : SUBSET ToSet(Pool)] \cup [to : ToSet(Pool), at : 0..MaxTime]
Kinds == {"respond", "reply", "error", "hook", "end", "broadcast", "write", "piece", "sequence",
          "sample", "limit", "rotated", "spread", "state", "turn"}
Entries == [what : Kinds, h : HandlerNames, m : Inbox, depth : Nat, val : Vals]

(* What a frame of the built-in b has in got at its i-th instruction.      *)
GotFits(b, i, v) ==
  /\ b = "gate" /\ i = 4 => v \in BOOLEAN
  /\ b = "rate-limit" /\ i = 3 => v \in BOOLEAN
  /\ b = "round-robin" /\ i \in {4, 5} => v \in Places
  /\ b = "round-robin" /\ i = 6 => v \in Places \cup {None}
  /\ b = "lua" /\ i = 3 => v \in Nat
  /\ b = "throttle-broadcast" /\ i = 4 => v \in Looks
  /\ b \in Chats /\ i \in 3..5 => v \in Seq(Turns)

(* The handler h sends a respond of its own.                               *)
Owes(h) == config[h].respond /\ ~isConcise(config[h])

(* A frame stands in its handler, within its attempts; it knows how it     *)
(* went once it is about to say so.                                        *)
Stands(f) ==
  /\ config[f.h] # None
  /\ f.at \in DOMAIN config[f.h].steps /\ f.ip \in DOMAIN Script(f)
  /\ f.try <= 1 + config[f.h].retry
  /\ f.pc \in {"lock", "backoff"} => f.try <= config[f.h].retry
  /\ f.pc \in {"lock", "delay", "run", "respond", "reply", "backoff"} => f.how = "ok"
  /\ f.pc \in {"own", "all"} => f.how = "fail"
  /\ f.pc = "reply" => Owes(f.h)
  /\ f.pc = "delay" => f.ip = 1

FrameFits(f) == Stands(f) /\ (f.pc = "run" => GotFits(StepOf(f).uses, f.ip, f.got))

Runner(f, b, places) == f.pc = "run" /\ StepOf(f).uses = b /\ f.ip \in places

TypeInv ==
  /\ config \in Setups /\ missing \in Absences
  /\ stack \in [Goroutines -> Seq(Frames)]
  /\ reg \in [HandlerNames -> Registers]
  /\ chat \in [Chats -> Seq(Turns)]
  /\ stored \in BOOLEAN /\ clock \in 0..MaxTime /\ there \subseteq ToSet(Pool)
  /\ log \in Seq(Entries)

(* Below the running frame are frames that wait for an inner handler.      *)
StackInv ==
  \A g \in Goroutines : \A i \in DOMAIN stack[g] :
    /\ FrameFits(stack[g][i])
    /\ i < Len(stack[g]) => stack[g][i].pc = "run" /\ Script(stack[g][i])[stack[g][i].ip].op = "enter"

(* A serial handler has one frame at most past its lock.                   *)
MutexInv ==
  \A g1, g2 \in Goroutines : \A i \in DOMAIN stack[g1], j \in DOMAIN stack[g2] :
    /\ IsSerial(stack[g1][i].h) /\ stack[g1][i].h = stack[g2][j].h
    /\ stack[g1][i].pc # "lock" /\ stack[g2][j].pc # "lock"
    => g1 = g2 /\ i = j

(* What such a frame has read is still there.                              *)
Fresher(f, m) ==
  /\ Runner(f, "round-robin", {4, 5}) => f.got = reg[f.h].rotation
  /\ Runner(f, "lua", {3}) => f.got = reg[f.h].state
  /\ \A b \in Chats : OnlyIn(f.h, b) /\ Runner(f, b, 3..5) => f.got = Asked(f.h, b, m)

ReadInv ==
  \A g \in Goroutines : \A i \in DOMAIN stack[g] :
    IsSerial(stack[g][i].h) => Fresher(stack[g][i], g[1])

(* A counter has counted what it logged.                                   *)
CountInv ==
  \A h \in HandlerNames : config[h] # None =>
    /\ reg[h].sequence = Given(h, Cardinality(Logged(h, "sequence")))
    /\ reg[h].sample = Cardinality(Logged(h, "sample"))
    /\ InSequence(h)

(* The place after the last client is in the registry, or with the frame   *)
(* that will put it there.                                                 *)
Rotating(f, h) == f.h = h /\ Runner(f, "round-robin", {6}) /\ f.got # None

LastRotated(h, i) == i \in Logged(h, "rotated") /\ \A j \in Logged(h, "rotated") : j <= i

RotationOf(h) ==
  /\ Rotated(h)
  /\ \A i \in Logged(h, "rotated") : log[i].val \in [place : Places, up : SUBSET ToSet(Pool)]
  /\ \A i \in Logged(h, "rotated") : LastRotated(h, i) =>
       \/ reg[h].rotation = After(log[i].val.place)
       \/ \E g \in Goroutines : \E j \in DOMAIN stack[g] : Rotating(stack[g][j], h)
  /\ \A g \in Goroutines : \A j \in DOMAIN stack[g] : Rotating(stack[g][j], h) =>
       \A i \in Logged(h, "rotated") : LastRotated(h, i) => stack[g][j].got = After(log[i].val.place)

RotationInv == \A h \in HandlerNames : IsSerial(h) => RotationOf(h)

(* The same for the time of a client's last broadcast.                     *)
Spreading(f, h, c) == f.h = h /\ Runner(f, "throttle-broadcast", {4}) /\ f.got.sent = c

SpreadOf(h) ==
  \A i \in Logged(h, "spread") :
    /\ log[i].val \in [to : ToSet(Pool), at : 0..MaxTime]
    /\ \A j \in Logged(h, "spread") :
         i < j /\ log[i].val.to = log[j].val.to => log[j].val.at >= log[i].val.at + Window
    /\ LET c == log[i].val.to IN
       /\ \/ c \notin there
          \/ reg[h].last[c] # None /\ reg[h].last[c] >= log[i].val.at
          \/ \E g \in Goroutines : \E j \in DOMAIN stack[g] : Spreading(stack[g][j], h, c)
       /\ \A g \in Goroutines : \A j \in DOMAIN stack[g] :
            Spreading(stack[g][j], h, c) => stack[g][j].got.now >= log[i].val.at

SpreadInv == \A h \in HandlerNames : IsSerial(h) => SpreadOf(h)

(* The table and the conversations are what was logged.                    *)
TurnInv == TurnsRemembered

(* What a message has been sent by its handler is what the handler's frame *)
(* says, until it ends.                                                    *)
Told(m, how) ==
  /\ Cardinality(Sendings(m, "reply")) = IF how = "ok" /\ Owes(First) THEN 1 ELSE 0
  /\ Cardinality(Sendings(m, "error")) = IF how = "fail" /\ config[First].onError THEN 1 ELSE 0

ToldBy(f, m) ==
  CASE f.pc = "return" -> Told(m, f.how)
    [] f.pc = "all" -> Told(m, "fail")
    [] f.pc \notin {"return", "all"} -> Sendings(m, "reply") = {} /\ Sendings(m, "error") = {}

AnswerInv ==
  \A m \in Inbox :
    LET g == <<m, "main">> IN
    IF stack[g] = <<>>
    THEN \E i \in Ends(m) : Ends(m) = {i} /\ Told(m, log[i].val.how)
    ELSE Ends(m) = {} /\ stack[g][1].h = First /\ ToldBy(stack[g][1], m)

ActionsInv ==
  /\ TypeInv /\ StackInv /\ MutexInv /\ ReadInv
  /\ CountInv /\ RotationInv /\ SpreadInv /\ TurnInv /\ AnswerInv
-----------------------------------------------------------------------------
(* Frames *)

(* A handler that is configured is one.                                    *)
LEMMA Configured ==
  ASSUME config \in Setups, NEW n \in HandlerNames, config[n] # None
  PROVE  /\ IsHandler(config[n]) /\ config[n].steps \in Seq(Step)
         /\ Len(config[n].steps) \in Nat /\ DOMAIN config[n].steps = 1..Len(config[n].steps)
         /\ 1 \in DOMAIN config[n].steps /\ config[n].retry \in Nat
         /\ {config[n].serial, config[n].respond, config[n].onError, config[n].loop} \subseteq BOOLEAN
<1> DEFINE h == config[n]
<1>1. IsHandler(h)
  BY ActionsAssumption
<1> HIDE DEF h
<1>2. h.steps \in Seq(Step) /\ h.steps # <<>> /\ h.retry \in Nat
      /\ {h.serial, h.respond, h.onError, h.loop} \subseteq BOOLEAN
  BY <1>1 DEF IsHandler
<1>3. Len(h.steps) \in Nat /\ DOMAIN h.steps = 1..Len(h.steps) /\ Len(h.steps) # 0
  BY <1>2, EmptySeq, LenProperties
<1>4. QED
  BY <1>1, <1>2, <1>3 DEF h

(* What runs at a frame's instruction.                                     *)
LEMMA AtScript ==
  ASSUME config \in Setups, NEW f \in Frames, Stands(f)
  PROVE  /\ StepOf(f) \in Step /\ StepOf(f).uses \in DOMAIN builtinRegistry
         /\ StepOf(f).target \in HandlerNames /\ StepOf(f).responds \in BOOLEAN
         /\ Len(Script(f)) \in Nat /\ DOMAIN Script(f) = 1..Len(Script(f)) /\ 1 \in DOMAIN Script(f)
         /\ f.ip \in 1..Len(Script(f))
         /\ Fits(StepOf(f).uses, f.ip, Script(f)[f.ip]) /\ Marked(StepOf(f).uses, Script(f))
<1>1. f.h \in HandlerNames /\ config[f.h] # None /\ f.at \in DOMAIN config[f.h].steps
      /\ f.ip \in DOMAIN Script(f)
  BY DEF Stands, Frames
<1>2. StepOf(f) \in Step
  BY <1>1, Configured, ElementOfSeq DEF StepOf
<1>3. StepOf(f).uses \in DOMAIN builtinRegistry /\ StepOf(f).target \in HandlerNames
      /\ StepOf(f).responds \in BOOLEAN
  BY <1>2 DEF Step
<1>4. ScriptFits(StepOf(f).uses, Script(f)) /\ Marked(StepOf(f).uses, Script(f))
  BY <1>3, ScriptsFit DEF Script
<1>5. QED
  BY <1>1, <1>2, <1>3, <1>4 DEF ScriptFits

(* Frames at one place run one script.                                     *)
LEMMA SamePlace ==
  ASSUME NEW f, NEW e, e.h = f.h, e.at = f.at
  PROVE  StepOf(e) = StepOf(f) /\ Script(e) = Script(f)
BY DEF StepOf, Script

(* Where a working frame may land: it goes on to its next instruction with *)
(* v in hand, or stands at a step's first one, or is done with a step or   *)
(* an attempt.                                                             *)
Lands(f, v, e) ==
  /\ e \in Frames /\ FrameFits(e) /\ e.h = f.h
  /\ e.pc \in {"delay", "run", "respond", "reply", "backoff", "own", "return"}
  /\ e.pc = "return" => e.how \in {"drop", "limit", "cancelled"} \/ (e.how = "ok" /\ ~Owes(f.h))
  /\ e.pc = "run" /\ e.ip # 1 => f.pc = "run" /\ e.at = f.at /\ e.ip = f.ip + 1 /\ e.got = v

(* A frame that starts a step stands at its first instruction.             *)
LEMMA StepLands ==
  ASSUME config \in Setups, NEW f \in Frames, Stands(f), f.how = "ok", NEW v,
         NEW i \in DOMAIN config[f.h].steps
  PROVE  Lands(f, v, AtStep(f, i)) /\ AtStep(f, i).try = f.try
<1> DEFINE e == AtStep(f, i)
           pc == IF config[f.h].steps[i].delay THEN "delay" ELSE "run"
<1>1. f.h \in HandlerNames /\ config[f.h] # None /\ f.try <= 1 + config[f.h].retry
  BY DEF Stands, Frames
<1>2. i \in Nat /\ i \in 1..Len(config[f.h].steps)
  BY <1>1, Configured
<1>3. pc \in {"delay", "run"} /\ e = [f EXCEPT !.at = i, !.ip = 1, !.got = None, !.mute = FALSE, !.pc = pc]
  BY DEF AtStep
<1> HIDE DEF pc, e
<1>4. None \in Gots /\ pc \in Pcs
  BY <1>3 DEF Gots, Pcs
<1>5. /\ e \in Frames /\ e.h = f.h /\ e.at = i /\ e.ip = 1 /\ e.pc = pc /\ e.try = f.try /\ e.how = f.how
  BY <1>2, <1>3, <1>4 DEF Frames
<1>6. 1 \in DOMAIN Script(e)
  <2>1. StepOf(e) = config[f.h].steps[i]
    BY <1>5 DEF StepOf
  <2>2. StepOf(e) \in Step
    BY <2>1, <1>1, <1>2, Configured, ElementOfSeq
  <2>3. StepOf(e).uses \in DOMAIN builtinRegistry
    BY <2>2 DEF Step
  <2>4. QED
    BY <2>3, ScriptsFit DEF Script, ScriptFits
<1>7. GotFits(StepOf(e).uses, 1, e.got)
  BY DEF GotFits
<1>8. FrameFits(e)
  BY <1>1, <1>3, <1>5, <1>6, <1>7 DEF FrameFits, Stands
<1>9. QED
  BY <1>3, <1>5, <1>8 DEF Lands, e

(* So does one that starts an attempt.                                     *)
LEMMA AttemptLands ==
  ASSUME config \in Setups, NEW f \in Frames, FrameFits(f), f.pc \in {"lock", "backoff"}, NEW v
  PROVE  Lands(f, v, NewAttempt(f))
<1> DEFINE d == AtStep(f, 1)
           e == [d EXCEPT !.try = @ + 1]
<1>1. f.h \in HandlerNames /\ config[f.h] # None /\ f.how = "ok" /\ f.try <= config[f.h].retry
      /\ f.try \in Nat /\ Stands(f)
  BY DEF FrameFits, Stands, Frames
<1>2. 1 \in DOMAIN config[f.h].steps /\ config[f.h].retry \in Nat
  BY <1>1, Configured
<1>3. Lands(f, v, d) /\ d.try = f.try
  BY <1>1, <1>2, StepLands
<1>4. e = NewAttempt(f)
  BY DEF NewAttempt
<1> HIDE DEF d
<1>5. /\ e \in Frames /\ e.h = d.h /\ e.pc = d.pc /\ e.how = d.how /\ e.try = f.try + 1
      /\ e.at = d.at /\ e.ip = d.ip /\ e.got = d.got
  BY <1>1, <1>3 DEF Lands, Frames
<1> HIDE DEF e
<1>6. d.pc \in {"delay", "run"} /\ d.how = "ok"
  <2>1. d.pc = IF config[f.h].steps[1].delay THEN "delay" ELSE "run"
    BY DEF d, AtStep, Frames
  <2>2. QED
    BY <1>3, <2>1 DEF Lands, FrameFits, Stands
<1>7. FrameFits(e)
  <2>1. StepOf(e) = StepOf(d) /\ Script(e) = Script(d)
    BY <1>5, SamePlace
  <2>2. FrameFits(d) /\ d.h = f.h
    BY <1>3 DEF Lands
  <2>3. e.try <= 1 + config[f.h].retry
    BY <1>1, <1>2, <1>5
  <2>4. QED
    BY <1>5, <1>6, <2>1, <2>2, <2>3 DEF FrameFits, Stands
<1>8. QED
  BY <1>3, <1>4, <1>5, <1>6, <1>7 DEF Lands

(* What follows an attempt is a reply, another attempt, the error hooks or *)
(* the return, each with what it needs to know.                            *)
LEMMA DoneLands ==
  ASSUME config \in Setups, NEW f \in Frames, Stands(f), f.how = "ok", NEW v,
         NEW how \in {"ok", "fail", "drop", "limit"}
  PROVE  Lands(f, v, Attempted(f, how))
<1> DEFINE Done(p, w) == [f EXCEPT !.pc = p, !.how = w]
<1>1. ASSUME NEW p \in {"backoff", "own", "reply", "return"}, NEW w \in Hows,
             p = "backoff" => w = "ok" /\ f.try <= config[f.h].retry,
             p = "own" => w = "fail",
             p = "reply" => w = "ok" /\ Owes(f.h),
             p = "return" => w \in {"drop", "limit", "cancelled"} \/ (w = "ok" /\ ~Owes(f.h))
      PROVE  Lands(f, v, Done(p, w))
  <2> DEFINE e == Done(p, w)
  <2>1. p \in Pcs
    BY DEF Pcs
  <2>2. /\ e \in Frames /\ e.h = f.h /\ e.pc = p /\ e.how = w /\ e.try = f.try
        /\ e.at = f.at /\ e.ip = f.ip
    BY <1>1, <2>1 DEF Frames
  <2> HIDE DEF e
  <2>3. StepOf(e) = StepOf(f) /\ Script(e) = Script(f)
    BY <2>2, SamePlace
  <2>4. FrameFits(e)
    BY <1>1, <2>2, <2>3 DEF FrameFits, Stands
  <2>5. Lands(f, v, e)
    BY <1>1, <2>2, <2>4 DEF Lands
  <2>6. QED
    BY <2>5 DEF e
<1>2. f.h \in HandlerNames /\ config[f.h] # None
  BY DEF Stands, Frames
<1>3. \A p \in Pcs : [f EXCEPT !.pc = p] = Done(p, "ok")
  <2>1. ASSUME NEW p \in Pcs
        PROVE  [f EXCEPT !.pc = p] = [f EXCEPT !.pc = p, !.how = "ok"]
    BY DEF Frames
  <2>2. QED
    BY <2>1
<1>9. f.try \in Nat /\ config[f.h].retry \in Nat
  BY <1>2, Configured DEF Frames
<1>4. CASE how \in {"drop", "limit"}
  <2>1. Attempted(f, how) = Done("return", how)
    BY <1>4 DEF Attempted
  <2>2. QED
    BY <1>1, <1>4, <2>1 DEF Hows
<1>5. CASE how = "fail" /\ f.try <= config[f.h].retry
  <2>1. Attempted(f, how) = [f EXCEPT !.pc = "backoff"]
    BY <1>5, <1>9 DEF Attempted
  <2>2. "backoff" \in Pcs
    BY DEF Pcs
  <2>3. Attempted(f, how) = Done("backoff", "ok")
    BY <1>3, <2>1, <2>2
  <2>4. QED
    BY <1>1, <1>5, <2>3 DEF Hows
<1>6. CASE how = "fail" /\ ~(f.try <= config[f.h].retry)
  <2>1. Attempted(f, how) = Done("own", "fail")
    BY <1>6, <1>9 DEF Attempted
  <2>2. QED
    BY <1>1, <1>6, <2>1 DEF Hows
<1>7. CASE how = "ok"
  <2>1. CASE Owes(f.h)
    <3>1. Attempted(f, how) = [f EXCEPT !.pc = "reply"]
      BY <1>7, <2>1 DEF Attempted, Owes
    <3>2. QED
      BY <1>1, <1>3, <2>1, <3>1 DEF Hows, Pcs
  <2>2. CASE ~Owes(f.h)
    <3>1. Attempted(f, how) = [f EXCEPT !.pc = "return"]
      BY <1>7, <2>2 DEF Attempted, Owes
    <3>2. QED
      BY <1>1, <1>3, <2>2, <3>1 DEF Hows, Pcs
  <2>3. QED
    BY <2>1, <2>2
<1>8. QED
  BY <1>4, <1>5, <1>6, <1>7

(* What follows a step is the next step or what follows the attempt.       *)
LEMMA SteppedLands ==
  ASSUME config \in Setups, NEW f \in Frames, Stands(f), f.how = "ok", NEW v,
         NEW how \in {"ok", "fail", "drop", "limit"}
  PROVE  Lands(f, v, Stepped(f, how))
<1>1. f.h \in HandlerNames /\ config[f.h] # None /\ f.at \in DOMAIN config[f.h].steps
  BY DEF Stands, Frames
<1>2. \/ Stepped(f, how) \in {Attempted(f, how), Attempted(f, "fail"), Attempted(f, "ok")}
      \/ f.at < Len(config[f.h].steps) /\ Stepped(f, how) = AtStep(f, f.at + 1)
  BY DEF Stepped
<1>3. f.at < Len(config[f.h].steps) => f.at + 1 \in DOMAIN config[f.h].steps
  BY <1>1, Configured
<1>4. QED
  BY <1>2, <1>3, DoneLands, StepLands

(* What follows the primary action of a step is its respond or what        *)
(* follows the step.                                                       *)
LEMMA ActedLands ==
  ASSUME config \in Setups, NEW f \in Frames, Stands(f), f.how = "ok", NEW v
  PROVE  Lands(f, v, Acted(f))
<1> DEFINE e == [f EXCEPT !.pc = "respond"]
<1>1. /\ e \in Frames /\ e.h = f.h /\ e.pc = "respond" /\ e.how = "ok" /\ e.try = f.try
      /\ e.at = f.at /\ e.ip = f.ip
  BY DEF Frames, Pcs
<1> HIDE DEF e
<1>2. StepOf(e) = StepOf(f) /\ Script(e) = Script(f)
  BY <1>1, SamePlace
<1>3. Lands(f, v, e)
  BY <1>1, <1>2 DEF Lands, FrameFits, Stands
<1>4. Acted(f) \in {e, Stepped(f, "ok")}
  BY DEF Acted, e
<1>5. QED
  BY <1>3, <1>4, SteppedLands

(* The end of an instruction: got may have been set meanwhile.             *)
LEMMA PassedLands ==
  ASSUME config \in Setups, NEW f \in Frames, Stands(f), f.pc = "run",
         NEW v \in Gots, GotFits(StepOf(f).uses, f.ip + 1, v)
  PROVE  Lands(f, v, Passed([f EXCEPT !.got = v]))
<1> DEFINE d == [f EXCEPT !.got = v]
           e == [d EXCEPT !.ip = @ + 1]
           r == [d EXCEPT !.pc = "return"]
<1>1. /\ f.h \in HandlerNames /\ f.how = "ok" /\ f.ip \in Nat
      /\ Len(Script(f)) \in Nat /\ DOMAIN Script(f) = 1..Len(Script(f)) /\ f.ip \in 1..Len(Script(f))
  BY AtScript DEF Stands, Frames
<1>2. /\ d \in Frames /\ d.h = f.h /\ d.pc = f.pc /\ d.how = f.how /\ d.try = f.try
      /\ d.at = f.at /\ d.ip = f.ip /\ d.got = v /\ d.exit = f.exit /\ d.mute = f.mute
  BY DEF Frames
<1> HIDE DEF d
<1>3. StepOf(d) = StepOf(f) /\ Script(d) = Script(f)
  BY <1>2, SamePlace
<1>4. CASE f.ip # Len(Script(f))
  <2>1. Passed(d) = e
    BY <1>2, <1>3, <1>4 DEF Passed
  <2>2. /\ e \in Frames /\ e.h = f.h /\ e.pc = f.pc /\ e.how = f.how /\ e.try = f.try
        /\ e.at = f.at /\ e.ip = f.ip + 1 /\ e.got = v
    BY <1>1, <1>2 DEF Frames
  <2> HIDE DEF e
  <2>3. StepOf(e) = StepOf(f) /\ Script(e) = Script(f)
    BY <2>2, SamePlace
  <2>4. f.ip + 1 \in DOMAIN Script(f)
    BY <1>1, <1>4
  <2>5. FrameFits(e)
    BY <1>1, <2>2, <2>3, <2>4 DEF FrameFits, Stands
  <2>6. Lands(f, v, e)
    BY <1>1, <2>2, <2>5 DEF Lands
  <2>7. QED
    BY <2>1, <2>6 DEF d
<1>5. CASE f.ip = Len(Script(f))
  <2>1. Passed(d) = Acted(d)
    BY <1>2, <1>3, <1>5 DEF Passed
  <2>2. Stands(d)
    BY <1>2, <1>3 DEF Stands
  <2>3. Lands(d, v, Acted(d))
    BY <1>1, <1>2, <2>2, ActedLands
  <2>4. QED
    BY <1>2, <2>1, <2>3 DEF Lands, d
<1>6. QED
  BY <1>4, <1>5

-----------------------------------------------------------------------------
(* Stacks *)

(* Exchanging the last element.                                            *)
LEMMA TopReplaced ==
  ASSUME NEW S, NEW s \in Seq(S), s # <<>>, NEW e \in S
  PROVE  LET t == Append(Front(s), e) IN
         /\ Len(s) \in Nat /\ Len(s) # 0 /\ DOMAIN s = 1..Len(s) /\ Last(s) = s[Len(s)]
         /\ t \in Seq(S) /\ Len(t) = Len(s) /\ DOMAIN t = 1..Len(s) /\ t[Len(s)] = e
         /\ \A i \in 1..Len(s) : i # Len(s) => t[i] = s[i]
<1> DEFINE r == Front(s)
           t == Append(r, e)
<1>1. Len(s) \in Nat /\ Len(s) # 0 /\ DOMAIN s = 1..Len(s) /\ Last(s) = s[Len(s)]
  BY EmptySeq, LenProperties DEF Last
<1>2. r \in Seq(S) /\ Len(r) = Len(s) - 1 /\ \A i \in 1..Len(s) - 1 : r[i] = s[i]
  BY <1>1 DEF Front
<1> HIDE DEF r
<1>3. t \in Seq(S) /\ Len(t) = Len(r) + 1 /\ DOMAIN t = 1..Len(t) /\ t[Len(t)] = e
      /\ \A i \in 1..Len(r) : t[i] = r[i]
  BY <1>2, AppendProperties, LenProperties
<1> HIDE DEF t
<1>4. /\ t \in Seq(S) /\ Len(t) = Len(s) /\ DOMAIN t = 1..Len(s) /\ t[Len(s)] = e
      /\ \A i \in 1..Len(s) : i # Len(s) => t[i] = s[i]
  <2>1. Len(t) = Len(s)
    BY <1>1, <1>2, <1>3
  <2>2. \A i \in 1..Len(s) : i # Len(s) => i \in 1..Len(s) - 1
    <3>1. Len(s) \in Nat
      BY <1>1
    <3>2. \A m \in Nat : \A i \in 1..m : i # m => i \in 1..m - 1
      OBVIOUS
    <3>3. QED
      BY ONLY <3>1, <3>2
  <2>3. QED
    BY <1>2, <1>3, <2>1, <2>2
<1>5. QED
  BY <1>1, <1>4 DEF t, r

(* What a step does to the frames: the n-th one of g becomes e, others     *)
(* stay, and new ones wait for their lock. Only one that returns goes.     *)
New(f) == \E h \in HandlerNames : config[h] # None /\ f = Frame(h)

Changes(g, n, e) ==
  /\ config' = config /\ stack' \in [Goroutines -> Seq(Frames)]
  /\ g \in Goroutines /\ n \in DOMAIN stack[g]
  /\ e \in Frames /\ FrameFits(e) /\ e.h = stack[g][n].h /\ e.pc # "lock"
  /\ \A k \in Goroutines : \A i \in DOMAIN stack'[k] :
       \/ i \in DOMAIN stack[k] /\ stack'[k][i] = stack[k][i] /\ <<k, i>> # <<g, n>>
       \/ k = g /\ i = n /\ stack'[k][i] = e
       \/ i \notin DOMAIN stack[k] /\ New(stack'[k][i])
  /\ \A k \in Goroutines : \A i \in DOMAIN stack[k] :
       \/ i \in DOMAIN stack'[k]
       \/ stack[k][i].pc = "return"

(* The stack of one goroutine is exchanged.                                *)
LEMMA StackOf ==
  ASSUME stack \in [Goroutines -> Seq(Frames)], NEW g \in Goroutines, NEW t \in Seq(Frames),
         stack' = [stack EXCEPT ![g] = t]
  PROVE  /\ stack' \in [Goroutines -> Seq(Frames)] /\ stack'[g] = t
         /\ \A k \in Goroutines : k # g => stack'[k] = stack[k]
OBVIOUS

(* The running frame goes on.                                              *)
LEMMA BecomesChanges ==
  ASSUME TypeInv, StackInv, config' = config, NEW g \in Goroutines, stack[g] # <<>>,
         NEW e \in Frames, FrameFits(e), e.h = Top(g).h, e.pc # "lock", Becomes(g, e)
  PROVE  LET n == Len(stack[g]) IN
         /\ Changes(g, n, e) /\ n \in DOMAIN stack[g] /\ stack[g][n] = Top(g)
         /\ \A k \in Goroutines : DOMAIN stack'[k] = DOMAIN stack[k] /\ Len(stack'[k]) = Len(stack[k])
         /\ stack'[g][n] = e
<1> DEFINE s == stack[g]
           t == Append(Front(s), e)
           n == Len(s)
<1>1. s \in Seq(Frames) /\ s # <<>>
  BY DEF TypeInv
<1>2. Top(g) = Last(s)
  BY DEF Top
<1>3. stack \in [Goroutines -> Seq(Frames)] /\ stack' = [stack EXCEPT ![g] = t]
  BY DEF Becomes, TypeInv
<1> HIDE DEF s, t
<1>4. /\ n \in Nat /\ n # 0 /\ DOMAIN s = 1..n /\ Last(s) = s[n]
      /\ t \in Seq(Frames) /\ Len(t) = n /\ DOMAIN t = 1..n /\ t[n] = e
      /\ \A i \in 1..n : i # n => t[i] = s[i]
  BY <1>1, TopReplaced DEF t
<1>5. /\ stack' \in [Goroutines -> Seq(Frames)] /\ stack'[g] = t
      /\ \A k \in Goroutines : k # g => stack'[k] = stack[k]
  BY <1>3, <1>4, StackOf
<1>6. \A k \in Goroutines : DOMAIN stack'[k] = DOMAIN stack[k] /\ Len(stack'[k]) = Len(stack[k])
  BY <1>4, <1>5 DEF s
<1>7. ASSUME NEW k \in Goroutines, NEW i \in DOMAIN stack'[k]
      PROVE  \/ i \in DOMAIN stack[k] /\ stack'[k][i] = stack[k][i] /\ <<k, i>> # <<g, n>>
             \/ k = g /\ i = n /\ stack'[k][i] = e
  <2>1. CASE k = g
    BY <1>4, <1>5, <1>7, <2>1 DEF s
  <2>2. CASE k # g
    BY <1>5, <1>7, <2>2
  <2>3. QED
    BY <2>1, <2>2
<1>8. n \in DOMAIN stack[g] /\ stack[g][n] = Top(g)
  BY <1>2, <1>4 DEF s
<1>9. Changes(g, n, e)
  BY <1>5, <1>6, <1>7, <1>8 DEF Changes
<1>10. QED
  BY <1>4, <1>5, <1>6, <1>8, <1>9 DEF s

-----------------------------------------------------------------------------
(* The log *)

(* What is appended is of one handler and one kind.                        *)
LEMMA LogGrows ==
  ASSUME log \in Seq(Entries), NEW x \in Entries, log' = Append(log, x)
  PROVE  /\ log' \in Seq(Entries) /\ Len(log) \in Nat /\ Len(log') = Len(log) + 1
         /\ DOMAIN log = 1..Len(log) /\ DOMAIN log' = 1..Len(log) + 1
         /\ log'[Len(log) + 1] = x /\ \A i \in DOMAIN log : log'[i] = log[i]
         /\ \A h, w : Logged(h, w)' = IF x.h = h /\ x.what = w THEN Logged(h, w) \cup {Len(log) + 1} ELSE Logged(h, w)
<1>1. /\ log' \in Seq(Entries) /\ Len(log) \in Nat /\ Len(log') = Len(log) + 1
      /\ DOMAIN log = 1..Len(log) /\ DOMAIN log' = 1..Len(log')
      /\ log'[Len(log) + 1] = x /\ \A i \in 1..Len(log) : log'[i] = log[i]
  BY AppendProperties, LenProperties
<1>2. ASSUME NEW h, NEW w
      PROVE  Logged(h, w)' = IF x.h = h /\ x.what = w THEN Logged(h, w) \cup {Len(log) + 1} ELSE Logged(h, w)
  <2>1. Logged(h, w) \subseteq 1..Len(log)
    BY <1>1 DEF Logged
  <2>2. ASSUME NEW i
        PROVE  i \in Logged(h, w)' <=> i \in Logged(h, w) \/ (i = Len(log) + 1 /\ x.h = h /\ x.what = w)
    BY <1>1 DEF Logged
  <2>3. QED
    BY <2>2
<1>3. QED
  BY <1>1, <1>2

(* The places of a kind are finitely many places of the log.               *)
LEMMA Finite ==
  ASSUME log \in Seq(Entries), NEW h, NEW w
  PROVE  /\ Logged(h, w) \subseteq DOMAIN log /\ IsFiniteSet(Logged(h, w)) /\ Cardinality(Logged(h, w)) \in Nat
         /\ Len(log) \in Nat /\ DOMAIN log = 1..Len(log)
<1>1. Len(log) \in Nat /\ DOMAIN log = 1..Len(log) /\ Logged(h, w) \subseteq DOMAIN log
  BY LenProperties DEF Logged
<1>2. IsFiniteSet(1..Len(log))
  BY <1>1, FS_Interval
<1>3. IsFiniteSet(Logged(h, w))
  BY <1>1, <1>2, FS_Subset
<1>4. QED
  BY <1>1, <1>3, FS_CardinalityType

(* At most one entry is added, of none of the kinds in K.                  *)
LogKeeps(K) ==
  \/ log' = log
  \/ \E x \in Entries : log' = Append(log, x) /\ x.what \notin K

(* What such a step leaves of the log: all the places of the kinds in K.   *)
LEMMA LogKept ==
  ASSUME log \in Seq(Entries), NEW K, LogKeeps(K)
  PROVE  /\ log' \in Seq(Entries) /\ \A i \in DOMAIN log : i \in DOMAIN log' /\ log'[i] = log[i]
         /\ \A h : \A w \in K : Logged(h, w)' = Logged(h, w)
<1>1. CASE log' = log
  BY <1>1 DEF Logged
<1>2. ASSUME NEW x \in Entries, log' = Append(log, x), x.what \notin K
      PROVE  /\ log' \in Seq(Entries) /\ \A i \in DOMAIN log : i \in DOMAIN log' /\ log'[i] = log[i]
             /\ \A h : \A w \in K : Logged(h, w)' = Logged(h, w)
  <2>1. ASSUME NEW h, NEW w \in K PROVE Logged(h, w)' = Logged(h, w)
    BY <1>2, <2>1, LogGrows
  <2>2. QED
    BY <1>2, <2>1, LogGrows
<1>3. QED
  BY <1>1, <1>2 DEF LogKeeps

-----------------------------------------------------------------------------
(* What a change of one frame leaves true *)

(* One frame past its lock moves, or one gets past it while nobody else    *)
(* is: the mutex holds.                                                    *)
LEMMA MutexKept ==
  ASSUME MutexInv, NEW g, NEW n, NEW e, Changes(g, n, e),
         stack[g][n].pc # "lock" \/ (IsSerial(e.h) => Free(e.h))
  PROVE  MutexInv'
<1> DEFINE f == stack[g][n]
<1>1. /\ config' = config /\ g \in Goroutines /\ n \in DOMAIN stack[g] /\ e.h = f.h
  BY DEF Changes
<1>2. ASSUME NEW k \in Goroutines, NEW i \in DOMAIN stack'[k], stack'[k][i].pc # "lock"
      PROVE  i \in DOMAIN stack[k] /\ stack'[k][i].h = stack[k][i].h
             /\ (<<k, i>> = <<g, n>> \/ stack[k][i].pc # "lock")
  <2>1. ~New(stack'[k][i])
    <3>1. \A h \in HandlerNames : Frame(h).pc = "lock"
      BY DEF Frame
    <3>2. QED
      BY <1>2, <3>1 DEF New
  <2>2. QED
    BY <1>1, <1>2, <2>1 DEF Changes
<1>3. ASSUME NEW g1 \in Goroutines, NEW g2 \in Goroutines,
             NEW i \in DOMAIN stack'[g1], NEW j \in DOMAIN stack'[g2],
             IsSerial(stack'[g1][i].h), stack'[g1][i].h = stack'[g2][j].h,
             stack'[g1][i].pc # "lock", stack'[g2][j].pc # "lock"
      PROVE  g1 = g2 /\ i = j
  <2>1. /\ i \in DOMAIN stack[g1] /\ stack'[g1][i].h = stack[g1][i].h
        /\ (<<g1, i>> = <<g, n>> \/ stack[g1][i].pc # "lock")
    BY <1>2, <1>3
  <2>2. /\ j \in DOMAIN stack[g2] /\ stack'[g2][j].h = stack[g2][j].h
        /\ (<<g2, j>> = <<g, n>> \/ stack[g2][j].pc # "lock")
    BY <1>2, <1>3
  <2>3. CASE stack[g1][i].pc # "lock" /\ stack[g2][j].pc # "lock"
    <3>1. IsSerial(stack[g1][i].h) /\ stack[g1][i].h = stack[g2][j].h
      BY <1>3, <2>1, <2>2
    <3>2. QED
      BY <2>1, <2>2, <2>3, <3>1 DEF MutexInv
  <2>4. CASE <<g1, i>> = <<g, n>> /\ <<g2, j>> = <<g, n>>
    BY <2>4
  <2>5. ASSUME stack[g][n].pc = "lock", NEW k \in Goroutines, NEW l \in DOMAIN stack[k],
               stack[k][l].pc # "lock", stack[k][l].h = f.h, IsSerial(f.h)
        PROVE  FALSE
    <3>1. Free(f.h)
      BY <1>1, <2>5
    <3>2. Holds(k, f.h)
      BY <2>5 DEF Holds
    <3>3. QED
      BY <2>5, <3>1, <3>2 DEF Free, IsSerial
  <2>6. QED
    BY <1>3, <2>1, <2>2, <2>3, <2>4, <2>5
<1>4. QED
  BY <1>1, <1>3 DEF MutexInv, IsSerial

-----------------------------------------------------------------------------
(* An element of a sequence.                                               *)
LEMMA MemberOf ==
  ASSUME NEW S, NEW s \in Seq(S), NEW i \in DOMAIN s
  PROVE  s[i] \in S /\ Len(s) \in Nat /\ DOMAIN s = 1..Len(s) /\ i \in 1..Len(s) /\ s # <<>>
BY LenProperties, ElementOfSeq, EmptySeq

(* The configuration does not change, and what follows from it does not.   *)
LEMMA SameConfig ==
  ASSUME config' = config
  PROVE  /\ \A f : StepOf(f)' = StepOf(f) /\ Script(f)' = Script(f)
         /\ \A f : Stands(f)' = Stands(f) /\ FrameFits(f)' = FrameFits(f)
         /\ \A f, b, p : Runner(f, b, p)' = Runner(f, b, p)
         /\ \A h, b : OnlyIn(h, b)' = OnlyIn(h, b)
         /\ \A h : IsSerial(h)' = IsSerial(h) /\ Owes(h)' = Owes(h) /\ Limit(h)' = Limit(h)
         /\ \A h, n : Given(h, n)' = Given(h, n)
         /\ \A f : New(f)' = New(f)
<1>1. \A f : StepOf(f)' = StepOf(f) /\ Script(f)' = Script(f)
  BY DEF StepOf, Script
<1>2. \A f : Stands(f)' = Stands(f)
  BY <1>1 DEF Stands, Owes
<1>3. \A f : FrameFits(f)' = FrameFits(f)
  BY <1>1, <1>2 DEF FrameFits
<1>4. \A f, b, p : Runner(f, b, p)' = Runner(f, b, p)
  BY <1>1 DEF Runner
<1>5. \A h, b : OnlyIn(h, b)' = OnlyIn(h, b)
  BY DEF OnlyIn
<1>6. \A h : IsSerial(h)' = IsSerial(h) /\ Owes(h)' = Owes(h) /\ Limit(h)' = Limit(h)
  BY DEF IsSerial, Owes, Limit
<1>7. \A h, n : Given(h, n)' = Given(h, n)
  BY DEF Given
<1>8. \A f : New(f)' = New(f)
  BY DEF New, Frame
<1>9. QED
  BY <1>1, <1>2, <1>3, <1>4, <1>5, <1>6, <1>7, <1>8

(* What a frame has read stays what is there when that does not change.    *)
LEMMA FresherSame ==
  ASSUME config' = config, NEW f, NEW m, Fresher(f, m),
         reg'[f.h].rotation = reg[f.h].rotation, reg'[f.h].state = reg[f.h].state,
         \A b \in Chats : OnlyIn(f.h, b) /\ Runner(f, b, 3..5) => chat'[b] = chat[b]
  PROVE  Fresher(f, m)'
<1>1. \A b, p : Runner(f, b, p)' = Runner(f, b, p)
  BY SameConfig
<1>2. \A b : OnlyIn(f.h, b)' = OnlyIn(f.h, b)
  BY SameConfig
<1>3. \A seq : Kept(f.h, seq)' = Kept(f.h, seq)
  BY DEF Kept, Limit
<1>4. ASSUME NEW b \in Chats, OnlyIn(f.h, b), Runner(f, b, 3..5)
      PROVE  f.got = Asked(f.h, b, m)'
  <2>1. f.got = Asked(f.h, b, m) /\ chat'[b] = chat[b]
    BY <1>4 DEF Fresher
  <2>2. QED
    BY <1>3, <2>1 DEF Asked
<1>5. (Runner(f, "round-robin", {4, 5}) => f.got = reg'[f.h].rotation)
      /\ (Runner(f, "lua", {3}) => f.got = reg'[f.h].state)
  BY DEF Fresher
<1>6. QED
  BY <1>1, <1>2, <1>4, <1>5 DEF Fresher

(* Whoever changes what is read is the one frame of its serial handler,    *)
(* and the others have read nothing.                                       *)
LEMMA ReadKept ==
  ASSUME ReadInv, MutexInv', NEW g, NEW n, NEW e, Changes(g, n, e),
         IsSerial(e.h) => Fresher(e, g[1])',
         \A h \in HandlerNames : h # e.h \/ n \notin DOMAIN stack'[g] =>
           reg'[h].rotation = reg[h].rotation /\ reg'[h].state = reg[h].state,
         \A b \in Chats : chat'[b] = chat[b] \/ (StepOf(stack[g][n]).uses = b /\ n \in DOMAIN stack'[g]),
         FrameFits(stack[g][n])
  PROVE  ReadInv'
<1>1. /\ config' = config /\ g \in Goroutines /\ n \in DOMAIN stack[g] /\ e.pc # "lock" /\ e \in Frames
      /\ FrameFits(e) /\ e.h \in HandlerNames
  BY DEF Changes, Frames
<1>2. \A h : IsSerial(h)' = IsSerial(h)
  BY <1>1, SameConfig
<1>3. n \in DOMAIN stack'[g] => stack'[g][n] = e
  BY <1>1 DEF Changes
<1>4. ASSUME NEW k \in Goroutines, NEW i, NEW f, f = stack'[k][i], i \in DOMAIN stack'[k], IsSerial(f.h),
             i \in DOMAIN stack[k], f = stack[k][i], <<k, i>> # <<g, n>>
      PROVE  Fresher(f, k[1])'
  <2>1. Fresher(f, k[1])
    BY <1>4 DEF ReadInv
  <2>2. f.h \in HandlerNames
    <3>1. stack'[k] \in Seq(Frames)
      BY DEF Changes
    <3>2. stack'[k][i] \in Frames
      BY <1>4, <3>1, MemberOf
    <3>3. QED
      BY <1>4, <3>2 DEF Frames
  <2>3. CASE f.pc # "run"
    <3>1. \A b, p : ~Runner(f, b, p)'
      BY <2>3 DEF Runner
    <3>2. QED
      BY <3>1 DEF Fresher
  <2>4. CASE f.h = e.h /\ n \in DOMAIN stack'[g] /\ f.pc = "run"
    <3>1. /\ stack'[g][n] = e /\ stack'[k][i] = f /\ IsSerial(f.h)' /\ f.h = e.h
          /\ f.pc # "lock" /\ e.pc # "lock" /\ n \in DOMAIN stack'[g] /\ i \in DOMAIN stack'[k]
      BY <1>1, <1>2, <1>3, <1>4, <2>4
    <3>2. k = g /\ i = n
      BY <1>1, <3>1 DEF MutexInv
    <3>3. QED
      BY <1>4, <3>2
  <2>5. CASE f.h # e.h \/ n \notin DOMAIN stack'[g]
    <3>1. ASSUME NEW b \in Chats, OnlyIn(f.h, b), chat'[b] # chat[b]
          PROVE  FALSE
      <4> DEFINE c == stack[g][n]
      <4>1. StepOf(c).uses = b /\ c.at \in DOMAIN config[c.h].steps /\ config[c.h] # None /\ e.h = c.h
        BY <1>1, <3>1 DEF FrameFits, Stands, Changes
      <4>2. f.h = e.h
        BY <1>1, <3>1, <4>1 DEF OnlyIn, StepOf
      <4>3. QED
        BY <2>5, <3>1, <4>2
    <3>2. reg'[f.h].rotation = reg[f.h].rotation /\ reg'[f.h].state = reg[f.h].state
      BY <2>2, <2>5
    <3>3. \A b \in Chats : OnlyIn(f.h, b) /\ Runner(f, b, 3..5) => chat'[b] = chat[b]
      BY <3>1
    <3>4. QED
      BY <1>1, <2>1, <3>2, <3>3, FresherSame
  <2>6. QED
    BY <2>3, <2>4, <2>5
<1>5. ASSUME NEW k \in Goroutines, NEW i, NEW f, f = stack'[k][i], i \in DOMAIN stack'[k], IsSerial(f.h)
      PROVE  Fresher(f, k[1])'
  <2>1. CASE i \in DOMAIN stack[k] /\ stack'[k][i] = stack[k][i] /\ <<k, i>> # <<g, n>>
    <3>1. f = stack[k][i]
      BY <1>5, <2>1
    <3>2. QED
      BY <1>4, <1>5, <2>1, <3>1
  <2>2. CASE k = g /\ i = n /\ stack'[k][i] = e
    BY <1>5, <2>2
  <2>3. CASE New(stack'[k][i])
    <3>1. \A h \in HandlerNames : Frame(h).pc = "lock"
      BY DEF Frame
    <3>2. f.pc # "run"
      BY <1>5, <2>3, <3>1 DEF New
    <3>3. \A b, p : ~Runner(f, b, p)'
      BY <3>2 DEF Runner
    <3>4. QED
      BY <3>3 DEF Fresher
  <2>4. QED
    BY <1>5, <2>1, <2>2, <2>3 DEF Changes
<1>6. QED
  BY <1>2, <1>5 DEF ReadInv

(* Which frames are about to write their place back is as before.          *)
LEMMA RotationOfKept ==
  ASSUME NEW h \in HandlerNames, IsSerial(h), RotationOf(h), NEW g, NEW n, NEW e, Changes(g, n, e),
         Logged(h, "rotated")' = Logged(h, "rotated"), \A i \in Logged(h, "rotated") : log'[i] = log[i],
         reg'[h].rotation = reg[h].rotation,
         n \in DOMAIN stack'[g] \/ stack[g][n].pc = "return",
         Rotating(e, h) = Rotating(stack[g][n], h),
         Rotating(e, h) => e.got = stack[g][n].got
  PROVE  RotationOf(h)'
<1>1. /\ config' = config /\ g \in Goroutines /\ n \in DOMAIN stack[g]
  BY DEF Changes
<1>2. \A x : Rotating(x, h)' = Rotating(x, h)
  BY <1>1, SameConfig DEF Rotating
<1>3. \A i : LastRotated(h, i)' = LastRotated(h, i)
  BY DEF LastRotated
<1>4. ASSUME NEW k \in Goroutines, NEW j \in DOMAIN stack'[k], Rotating(stack'[k][j], h)
      PROVE  j \in DOMAIN stack[k] /\ Rotating(stack[k][j], h) /\ stack'[k][j].got = stack[k][j].got
  <2>1. ~New(stack'[k][j])
    <3>1. \A x \in HandlerNames : Frame(x).pc = "lock"
      BY DEF Frame
    <3>2. QED
      BY <1>4, <3>1 DEF New, Rotating, Runner
  <2>2. QED
    BY <1>1, <1>4, <2>1 DEF Changes
<1>5. ASSUME NEW k \in Goroutines, NEW j \in DOMAIN stack[k], Rotating(stack[k][j], h)
      PROVE  j \in DOMAIN stack'[k] /\ Rotating(stack'[k][j], h)
  <2>1. stack[k][j].pc = "run"
    BY <1>5 DEF Rotating, Runner
  <2>2. j \in DOMAIN stack'[k]
    BY <2>1 DEF Changes
  <2>3. QED
    BY <1>1, <1>5, <2>2 DEF Changes
<1>6. /\ Rotated(h)'
      /\ \A i \in Logged(h, "rotated")' : log'[i].val \in [place : Places, up : SUBSET ToSet(Pool)]
  <2>1. Rotated(h) /\ \A i \in Logged(h, "rotated") : log[i].val \in [place : Places, up : SUBSET ToSet(Pool)]
    BY DEF RotationOf
  <2>2. QED
    BY <2>1 DEF Rotated
<1>7. ASSUME NEW i \in Logged(h, "rotated")', LastRotated(h, i)'
      PROVE  \/ reg'[h].rotation = After(log'[i].val.place)
             \/ \E k \in Goroutines : \E j \in DOMAIN stack'[k] : Rotating(stack'[k][j], h)
  <2>1. i \in Logged(h, "rotated") /\ LastRotated(h, i) /\ log'[i] = log[i]
    BY <1>3, <1>7
  <2>2. \/ reg[h].rotation = After(log[i].val.place)
        \/ \E k \in Goroutines : \E j \in DOMAIN stack[k] : Rotating(stack[k][j], h)
    BY <2>1 DEF RotationOf
  <2>3. QED
    BY <1>5, <2>1, <2>2
<1>8. ASSUME NEW k \in Goroutines, NEW j \in DOMAIN stack'[k], Rotating(stack'[k][j], h),
             NEW i \in Logged(h, "rotated")', LastRotated(h, i)'
      PROVE  stack'[k][j].got = After(log'[i].val.place)
  <2>1. i \in Logged(h, "rotated") /\ LastRotated(h, i) /\ log'[i] = log[i]
    BY <1>3, <1>8
  <2>2. j \in DOMAIN stack[k] /\ Rotating(stack[k][j], h) /\ stack'[k][j].got = stack[k][j].got
    BY <1>4, <1>8
  <2>3. QED
    BY <2>1, <2>2 DEF RotationOf
<1>9. QED
  BY <1>2, <1>6, <1>7, <1>8 DEF RotationOf, After

(* The same for the time of a client's last broadcast.                     *)
LEMMA SpreadOfKept ==
  ASSUME NEW h \in HandlerNames, IsSerial(h), SpreadOf(h), NEW g, NEW n, NEW e, Changes(g, n, e),
         Logged(h, "spread")' = Logged(h, "spread"), \A i \in Logged(h, "spread") : log'[i] = log[i],
         there' = there, reg'[h].last = reg[h].last,
         n \in DOMAIN stack'[g] \/ stack[g][n].pc = "return",
         \A c \in ToSet(Pool) :
           /\ Spreading(e, h, c) = Spreading(stack[g][n], h, c)
           /\ Spreading(e, h, c) => e.got.now = stack[g][n].got.now
  PROVE  SpreadOf(h)'
<1>1. /\ config' = config /\ g \in Goroutines /\ n \in DOMAIN stack[g]
  BY DEF Changes
<1>2. \A x, c : Spreading(x, h, c)' = Spreading(x, h, c)
  BY <1>1, SameConfig DEF Spreading
<1>3. ASSUME NEW c \in ToSet(Pool), NEW k \in Goroutines, NEW j \in DOMAIN stack'[k], Spreading(stack'[k][j], h, c)
      PROVE  /\ j \in DOMAIN stack[k] /\ Spreading(stack[k][j], h, c)
             /\ stack'[k][j].got.now = stack[k][j].got.now
  <2>1. ~New(stack'[k][j])
    <3>1. \A x \in HandlerNames : Frame(x).pc = "lock"
      BY DEF Frame
    <3>2. QED
      BY <1>3, <3>1 DEF New, Spreading, Runner
  <2>2. QED
    BY <1>1, <1>3, <2>1 DEF Changes
<1>4. ASSUME NEW c \in ToSet(Pool), NEW k \in Goroutines, NEW j \in DOMAIN stack[k], Spreading(stack[k][j], h, c)
      PROVE  j \in DOMAIN stack'[k] /\ Spreading(stack'[k][j], h, c)
  <2>1. stack[k][j].pc = "run"
    BY <1>4 DEF Spreading, Runner
  <2>2. j \in DOMAIN stack'[k]
    BY <2>1 DEF Changes
  <2>3. QED
    BY <1>1, <1>4, <2>2 DEF Changes
<1>5. ASSUME NEW i \in Logged(h, "spread"), NEW c, c = log[i].val.to
      PROVE  /\ log'[i].val \in [to : ToSet(Pool), at : 0..MaxTime]
             /\ \A j \in Logged(h, "spread") :
                  i < j /\ log'[i].val.to = log'[j].val.to => log'[j].val.at >= log'[i].val.at + Window
             /\ \/ c \notin there'
                \/ reg'[h].last[c] # None /\ reg'[h].last[c] >= log'[i].val.at
                \/ \E k \in Goroutines : \E j \in DOMAIN stack'[k] : Spreading(stack'[k][j], h, c)
             /\ \A k \in Goroutines : \A j \in DOMAIN stack'[k] :
                  Spreading(stack'[k][j], h, c) => stack'[k][j].got.now >= log'[i].val.at
  <2>1. /\ log[i].val \in [to : ToSet(Pool), at : 0..MaxTime]
        /\ \A j \in Logged(h, "spread") :
             i < j /\ log[i].val.to = log[j].val.to => log[j].val.at >= log[i].val.at + Window
        /\ \/ c \notin there
           \/ reg[h].last[c] # None /\ reg[h].last[c] >= log[i].val.at
           \/ \E k \in Goroutines : \E j \in DOMAIN stack[k] : Spreading(stack[k][j], h, c)
        /\ \A k \in Goroutines : \A j \in DOMAIN stack[k] :
             Spreading(stack[k][j], h, c) => stack[k][j].got.now >= log[i].val.at
    BY <1>5 DEF SpreadOf
  <2>2. c \in ToSet(Pool)
    BY <1>5, <2>1
  <2>3. log'[i] = log[i] /\ \A j \in Logged(h, "spread") : log'[j] = log[j]
    OBVIOUS
  <2>4. \/ c \notin there'
        \/ reg'[h].last[c] # None /\ reg'[h].last[c] >= log'[i].val.at
        \/ \E k \in Goroutines : \E j \in DOMAIN stack'[k] : Spreading(stack'[k][j], h, c)
    BY <1>4, <2>1, <2>2, <2>3
  <2>5. \A k \in Goroutines : \A j \in DOMAIN stack'[k] :
          Spreading(stack'[k][j], h, c) => stack'[k][j].got.now >= log'[i].val.at
    BY <1>3, <2>1, <2>2, <2>3
  <2>6. QED
    BY <2>1, <2>3, <2>4, <2>5
<1>6. QED
  BY <1>2, <1>5 DEF SpreadOf

(* The places of a kind that is not logged.                                *)
LEMMA AtKept ==
  ASSUME log \in Seq(Entries), NEW K, LogKeeps(K), NEW w \in K
  PROVE  \A h : Logged(h, w)' = Logged(h, w) /\ \A i \in Logged(h, w) : log'[i] = log[i]
<1>1. /\ \A i \in DOMAIN log : log'[i] = log[i]
      /\ \A h : Logged(h, w)' = Logged(h, w)
  BY LogKept
<1>2. \A h : Logged(h, w) \subseteq DOMAIN log
  BY DEF Logged
<1>3. QED
  BY <1>1, <1>2

(* For all handlers at once.                                               *)
LEMMA RotationKept ==
  ASSUME RotationInv, NEW g, NEW n, NEW e, Changes(g, n, e), NEW K, "rotated" \in K,
         log \in Seq(Entries), LogKeeps(K),
         \A h \in HandlerNames : reg'[h].rotation = reg[h].rotation,
         n \in DOMAIN stack'[g] \/ stack[g][n].pc = "return",
         \A h \in HandlerNames : Rotating(e, h) = Rotating(stack[g][n], h),
         \A h \in HandlerNames : Rotating(e, h) => e.got = stack[g][n].got
  PROVE  RotationInv'
<1>1. \A h : IsSerial(h)' = IsSerial(h)
  BY SameConfig DEF Changes
<1>2. \A h : Logged(h, "rotated")' = Logged(h, "rotated") /\ \A i \in Logged(h, "rotated") : log'[i] = log[i]
  BY AtKept
<1>3. ASSUME NEW h \in HandlerNames, IsSerial(h)
      PROVE  RotationOf(h)'
  <2>1. RotationOf(h)
    BY <1>3 DEF RotationInv
  <2>2. QED
    BY <1>2, <1>3, <2>1, RotationOfKept
<1>4. QED
  BY <1>1, <1>3 DEF RotationInv

(* The same for the times of the clients, for all handlers at once.        *)
LEMMA SpreadKept ==
  ASSUME SpreadInv, NEW g, NEW n, NEW e, Changes(g, n, e), NEW K, "spread" \in K,
         log \in Seq(Entries), LogKeeps(K), there' = there,
         \A h \in HandlerNames : reg'[h].last = reg[h].last,
         n \in DOMAIN stack'[g] \/ stack[g][n].pc = "return",
         \A h \in HandlerNames, c \in ToSet(Pool) :
           /\ Spreading(e, h, c) = Spreading(stack[g][n], h, c)
           /\ Spreading(e, h, c) => e.got.now = stack[g][n].got.now
  PROVE  SpreadInv'
<1>1. \A h : IsSerial(h)' = IsSerial(h)
  BY SameConfig DEF Changes
<1>2. \A h : Logged(h, "spread")' = Logged(h, "spread") /\ \A i \in Logged(h, "spread") : log'[i] = log[i]
  BY AtKept
<1>3. ASSUME NEW h \in HandlerNames, IsSerial(h)
      PROVE  SpreadOf(h)'
  <2>1. SpreadOf(h)
    BY <1>3 DEF SpreadInv
  <2>2. QED
    BY <1>2, <1>3, <2>1, SpreadOfKept
<1>4. QED
  BY <1>1, <1>3 DEF SpreadInv

-----------------------------------------------------------------------------
(* A new frame is at the start of its handler.                             *)
LEMMA NewFits ==
  ASSUME config \in Setups, NEW f, New(f)
  PROVE  f \in Frames /\ FrameFits(f) /\ f.pc = "lock"
<1>1. PICK h \in HandlerNames : config[h] # None /\ f = Frame(h)
  BY DEF New
<1>2. /\ f.h = h /\ f.pc = "lock" /\ f.try = 0 /\ f.at = 1 /\ f.ip = 1 /\ f.how = "ok" /\ f.got = None
      /\ f.exit = FALSE /\ f.mute = FALSE
  BY <1>1 DEF Frame
<1>3. f \in Frames
  BY <1>1 DEF Frame, Frames, Pcs, Hows, Gots
<1>4. 1 \in DOMAIN config[h].steps /\ config[h].retry \in Nat
  BY <1>1, Configured
<1>5. 1 \in DOMAIN Script(f)
  <2>1. StepOf(f) = config[h].steps[1]
    BY <1>2 DEF StepOf
  <2>2. StepOf(f) \in Step
    BY <1>1, <1>4, <2>1, Configured, MemberOf
  <2>3. StepOf(f).uses \in DOMAIN builtinRegistry
    BY <2>2 DEF Step
  <2>4. QED
    BY <2>3, ScriptsFit DEF Script, ScriptFits
<1>6. QED
  BY <1>1, <1>2, <1>3, <1>4, <1>5 DEF FrameFits, Stands

(* A change of one frame leaves the frames below to wait.                  *)
LEMMA StackKept ==
  ASSUME StackInv, config \in Setups, NEW g, NEW n, NEW e, Changes(g, n, e),
         \A k \in Goroutines : \A i \in DOMAIN stack'[k] : i < Len(stack'[k]) =>
           \/ i \in DOMAIN stack[k] /\ i < Len(stack[k]) /\ stack'[k][i] = stack[k][i]
           \/ k = g /\ i = n /\ stack'[k][i] = e /\ e.pc = "run" /\ Script(e)[e.ip].op = "enter"
  PROVE  StackInv'
<1>1. config' = config
  BY DEF Changes
<1>2. \A f : FrameFits(f)' = FrameFits(f) /\ Script(f)' = Script(f)
  BY <1>1, SameConfig
<1>3. ASSUME NEW k \in Goroutines, NEW i, NEW f, i \in DOMAIN stack'[k], f = stack'[k][i]
      PROVE  /\ FrameFits(f)
             /\ i < Len(stack'[k]) => f.pc = "run" /\ Script(f)[f.ip].op = "enter"
  <2>1. FrameFits(f)
    <3>1. CASE i \in DOMAIN stack[k] /\ stack'[k][i] = stack[k][i]
      BY <1>3, <3>1 DEF StackInv
    <3>2. CASE stack'[k][i] = e
      BY <1>3, <3>2 DEF Changes
    <3>3. CASE New(stack'[k][i])
      BY <1>3, <3>3, NewFits
    <3>4. QED
      BY <1>3, <3>1, <3>2, <3>3 DEF Changes
  <2>2. ASSUME i < Len(stack'[k])
        PROVE  f.pc = "run" /\ Script(f)[f.ip].op = "enter"
    BY <1>3, <2>2 DEF StackInv
  <2>3. QED
    BY <2>1, <2>2
<1>4. QED
  BY <1>2, <1>3 DEF StackInv

(* The counters, when neither they nor what they logged changes.           *)
LEMMA CountKept ==
  ASSUME CountInv, config' = config, log \in Seq(Entries), NEW K, LogKeeps(K), {"sequence", "sample"} \subseteq K,
         \A h \in HandlerNames : reg'[h].sequence = reg[h].sequence /\ reg'[h].sample = reg[h].sample
  PROVE  CountInv'
<1>1. /\ \A i \in DOMAIN log : log'[i] = log[i]
      /\ \A h : Logged(h, "sequence")' = Logged(h, "sequence") /\ Logged(h, "sample")' = Logged(h, "sample")
  BY LogKept
<1>2. \A h, w : Logged(h, w) \subseteq DOMAIN log
  BY DEF Logged
<1>3. \A h, k : Given(h, k)' = Given(h, k)
  BY SameConfig
<1>4. ASSUME NEW h \in HandlerNames, InSequence(h)
      PROVE  InSequence(h)'
  BY <1>1, <1>2, <1>3, <1>4 DEF InSequence, Earlier
<1>5. QED
  BY <1>1, <1>3, <1>4 DEF CountInv

(* The conversations and the tables, when neither they nor what they       *)
(* logged changes.                                                         *)
LEMMA TurnKept ==
  ASSUME TurnInv, config' = config, log \in Seq(Entries), NEW K, LogKeeps(K), {"state", "turn"} \subseteq K,
         \A h \in HandlerNames : reg'[h].state = reg[h].state, chat' = chat
  PROVE  TurnInv'
<1>1. /\ \A i \in DOMAIN log : log'[i] = log[i]
      /\ \A h : Logged(h, "state")' = Logged(h, "state") /\ Logged(h, "turn")' = Logged(h, "turn")
  BY LogKept
<1>2. \A h, w : Logged(h, w) \subseteq DOMAIN log
  BY DEF Logged
<1>3. \A h, b : IsSerial(h)' = IsSerial(h) /\ OnlyIn(h, b)' = OnlyIn(h, b) /\ Limit(h)' = Limit(h)
  BY SameConfig
<1>4. ASSUME NEW h, NEW b, NEW seq, Remembered(h, b, seq)
      PROVE  Remembered(h, b, seq)'
  <2>1. {i \in Logged(h, "turn") : log[i].val = b}' = {i \in Logged(h, "turn") : log[i].val = b}
    BY <1>1, <1>2
  <2>2. \A i \in Logged(h, "turn") : log'[i] = log[i]
    BY <1>1, <1>2
  <2>3. QED
    BY <1>3, <1>4, <2>1, <2>2 DEF Remembered
<1>5. QED
  BY <1>1, <1>3, <1>4 DEF TurnInv, TurnsRemembered

(* A frame still on its way has told nothing.                              *)
Untold(e) ==
  e.pc # "all" /\ (e.pc = "return" => e.how \in {"drop", "limit", "cancelled"} \/ (e.how = "ok" /\ ~Owes(e.h)))

(* The answers, when nothing of them is logged and no goroutine's first    *)
(* frame says how it went.                                                 *)
LEMMA AnswerKept ==
  ASSUME AnswerInv, NEW g, NEW n, NEW e, Changes(g, n, e), log \in Seq(Entries),
         stack \in [Goroutines -> Seq(Frames)],
         NEW K, LogKeeps(K), {"reply", "error", "end"} \subseteq K,
         \A m \in Inbox : stack'[<<m, "main">>] = <<>> <=> stack[<<m, "main">>] = <<>>,
         e = stack[g][n] \/ (stack[g][n].pc \notin {"return", "all"} /\ Untold(e))
  PROVE  AnswerInv'
<1>1. /\ config' = config /\ stack' \in [Goroutines -> Seq(Frames)] /\ e.h = stack[g][n].h
  BY DEF Changes
<1>2. /\ \A i \in DOMAIN log : log'[i] = log[i]
      /\ \A h : Logged(h, "reply")' = Logged(h, "reply") /\ Logged(h, "error")' = Logged(h, "error")
      /\ \A h : Logged(h, "end")' = Logged(h, "end")
  BY LogKept
<1>3. \A h, w : Logged(h, w) \subseteq DOMAIN log
  BY DEF Logged
<1>4. \A m : Sendings(m, "reply")' = Sendings(m, "reply") /\ Sendings(m, "error")' = Sendings(m, "error")
  BY <1>2, <1>3 DEF Sendings
<1>5. \A m : Ends(m)' = Ends(m) /\ Ends(m) \subseteq DOMAIN log
  <2>1. CASE log' = log
    BY <2>1 DEF Ends
  <2>2. ASSUME NEW x \in Entries, log' = Append(log, x), x.what # "end"
        PROVE  \A m : Ends(m)' = Ends(m)
    BY <2>2, LogGrows DEF Ends
  <2>3. QED
    BY <2>1, <2>2 DEF LogKeeps, Ends
<1>6. \A m, how : Told(m, how)' = Told(m, how)
  BY <1>1, <1>4, SameConfig DEF Told
<1>7. \A f, m : ToldBy(f, m)' = ToldBy(f, m)
  BY <1>4, <1>6 DEF ToldBy
<1>8. ASSUME NEW m \in Inbox, NEW k, k = <<m, "main">>, stack[k] = <<>>
      PROVE  \E i \in Ends(m) : Ends(m) = {i} /\ Told(m, log[i].val.how)
  BY <1>8 DEF AnswerInv
<1>9. ASSUME NEW m \in Inbox, NEW k, k = <<m, "main">>, stack[k] # <<>>, NEW f, f = stack'[k][1]
      PROVE  Ends(m) = {} /\ f.h = First /\ ToldBy(f, m)
  <2>1. k \in Goroutines /\ stack'[k] # <<>>
    BY <1>9 DEF Goroutines
  <2>2. Ends(m) = {} /\ stack[k][1].h = First /\ ToldBy(stack[k][1], m)
    BY <1>9 DEF AnswerInv
  <2>3. 1 \in DOMAIN stack[k] /\ 1 \in DOMAIN stack'[k]
    <3>1. stack[k] \in Seq(Frames) /\ stack'[k] \in Seq(Frames)
      BY <1>1, <2>1
    <3>2. \A s \in Seq(Frames) : s # <<>> => 1 \in DOMAIN s
      BY EmptySeq, LenProperties
    <3>3. QED
      BY <1>9, <2>1, <3>1, <3>2
  <2>4. stack'[k][1] = stack[k][1] \/ (k = g /\ n = 1 /\ stack'[k][1] = e)
    BY <2>1, <2>3 DEF Changes
  <2>5. CASE stack'[k][1] = stack[k][1]
    BY <1>9, <2>2, <2>5
  <2>6. CASE k = g /\ n = 1 /\ stack'[k][1] = e /\ e # stack[g][n]
    <3>1. stack[k][1].pc \notin {"return", "all"} /\ Untold(e) /\ f = e /\ e.h = First
      BY <1>1, <1>9, <2>2, <2>6
    <3>2. Sendings(m, "reply") = {} /\ Sendings(m, "error") = {}
      BY <2>2, <3>1 DEF ToldBy
    <3>3. ASSUME NEW how, how \notin {"fail"}, how # "ok" \/ ~Owes(First)
          PROVE  Told(m, how)
      BY <3>2, <3>3, FS_EmptySet DEF Told
    <3>4. QED
      BY <2>2, <3>1, <3>2, <3>3 DEF ToldBy, Untold
  <2>7. QED
    BY <2>4, <2>5, <2>6
<1>10. QED
  <2>1. ASSUME NEW m \in Inbox, stack'[<<m, "main">>] = <<>>
        PROVE  \E i \in Ends(m)' : Ends(m)' = {i} /\ Told(m, log[i].val.how)'
    BY <1>2, <1>5, <1>6, <1>8, <2>1
  <2>2. ASSUME NEW m \in Inbox, stack'[<<m, "main">>] # <<>>
        PROVE  /\ Ends(m)' = {} /\ stack'[<<m, "main">>][1].h = First
               /\ ToldBy(stack[<<m, "main">>][1], m)'
    BY <1>5, <1>7, <1>9, <2>2
  <2>3. QED
    BY <2>1, <2>2 DEF AnswerInv

-----------------------------------------------------------------------------
(* Calm steps: those that touch nothing the built-ins share *)

Sharing == {"look", "keep", "rotate", "take", "spread"}
Counted == {"sequence", "sample", "rotated", "spread", "state", "turn"}
Shared == Counted \cup {"reply", "error", "end"}

(* Who lands inside a script was one instruction before.                   *)
LEMMA CameFrom ==
  ASSUME NEW f \in Frames, NEW v, NEW e, Lands(f, v, e), NEW b, NEW P, Runner(e, b, P), 1 \notin P
  PROVE  /\ f.pc = "run" /\ StepOf(f).uses = b /\ e.ip = f.ip + 1 /\ e.ip \in P /\ e.got = v
         /\ f.ip \in Nat
<1>1. e.pc = "run" /\ e.ip # 1 /\ StepOf(e).uses = b /\ e.ip \in P /\ f.ip \in Nat
  BY DEF Runner, Frames
<1>2. f.pc = "run" /\ e.at = f.at /\ e.h = f.h /\ e.ip = f.ip + 1 /\ e.got = v
  BY <1>1 DEF Lands
<1>3. StepOf(f).uses = b
  BY <1>1, <1>2, SamePlace
<1>4. QED
  BY <1>1, <1>2, <1>3

(* A calm instruction has read nothing new and is about to write nothing.  *)
LEMMA CalmFrame ==
  ASSUME config \in Setups, config' = config, NEW f \in Frames, FrameFits(f), NEW e, Lands(f, f.got, e),
         f.pc = "run" => Script(f)[f.ip].op \notin Sharing,
         NEW m, IsSerial(f.h) => Fresher(f, m),
         \A h \in HandlerNames : reg'[h].rotation = reg[h].rotation /\ reg'[h].state = reg[h].state,
         chat' = chat
  PROVE  /\ IsSerial(e.h) => Fresher(e, m)'
         /\ \A h \in HandlerNames : Rotating(e, h) = FALSE /\ Rotating(f, h) = FALSE
         /\ \A h \in HandlerNames, c \in ToSet(Pool) : Spreading(e, h, c) = FALSE /\ Spreading(f, h, c) = FALSE
<1>1. /\ e.h = f.h /\ f.h \in HandlerNames /\ f.ip \in Nat
  BY DEF Lands, Frames
<1>2. Marked(StepOf(f).uses, Script(f))
  BY AtScript DEF FrameFits
<1>3. ASSUME NEW b, NEW P, Runner(e, b, P), 1 \notin P
      PROVE  /\ f.pc = "run" /\ StepOf(f).uses = b /\ e.ip = f.ip + 1 /\ e.ip \in P /\ e.got = f.got
             /\ Script(f)[f.ip].op \notin Sharing
  BY <1>3, CameFrom
<1>4. ASSUME Runner(e, "round-robin", {6}) PROVE FALSE
  <2>1. f.ip = 5 /\ StepOf(f).uses = "round-robin" /\ Script(f)[f.ip].op \notin Sharing
    BY <1>1, <1>3, <1>4
  <2>2. QED
    BY <1>2, <2>1 DEF Marked, Sharing
<1>5. ASSUME Runner(e, "throttle-broadcast", {4}) PROVE FALSE
  <2>1. f.ip = 3 /\ StepOf(f).uses = "throttle-broadcast" /\ Script(f)[f.ip].op \notin Sharing
    BY <1>1, <1>3, <1>5
  <2>2. QED
    BY <1>2, <2>1 DEF Marked, Sharing
<1>6. ~Runner(f, "round-robin", {6}) /\ ~Runner(f, "throttle-broadcast", {4})
  BY <1>2 DEF Marked, Sharing, Runner
<1>7. ASSUME IsSerial(e.h)
      PROVE  Fresher(e, m)'
  <2>1. Fresher(f, m)
    BY <1>1, <1>7
  <2>2. ASSUME Runner(e, "round-robin", {4, 5})
        PROVE  e.got = reg[f.h].rotation
    <3>1. f.pc = "run" /\ StepOf(f).uses = "round-robin" /\ e.ip = f.ip + 1 /\ e.got = f.got
          /\ Script(f)[f.ip].op \notin Sharing /\ e.ip \in {4, 5}
      BY <1>3, <2>2
    <3>2. f.ip # 3
      BY <1>2, <3>1 DEF Marked, Sharing
    <3>3. f.ip = 4
      BY <1>1, <3>1, <3>2
    <3>4. Runner(f, "round-robin", {4, 5})
      BY <3>1, <3>3 DEF Runner
    <3>5. QED
      BY <2>1, <3>1, <3>4 DEF Fresher
  <2>3. ASSUME Runner(e, "lua", {3})
        PROVE  FALSE
    <3>1. f.ip = 2 /\ StepOf(f).uses = "lua" /\ Script(f)[f.ip].op \notin Sharing
      BY <1>1, <1>3, <2>3
    <3>2. QED
      BY <1>2, <3>1 DEF Marked, Sharing
  <2>4. ASSUME NEW b \in Chats, OnlyIn(f.h, b), Runner(e, b, 3..5)
        PROVE  e.got = Asked(f.h, b, m)
    <3>1. f.pc = "run" /\ StepOf(f).uses = b /\ e.ip = f.ip + 1 /\ e.got = f.got
          /\ Script(f)[f.ip].op \notin Sharing /\ e.ip \in 3..5
      BY <1>3, <2>4
    <3>2. f.ip # 2
      BY <1>2, <3>1 DEF Marked, Sharing
    <3>3. f.ip \in 3..5
      BY <1>1, <3>1, <3>2
    <3>4. Runner(f, b, 3..5)
      BY <3>1, <3>3 DEF Runner
    <3>5. QED
      BY <2>1, <2>4, <3>1, <3>4 DEF Fresher
  <2>5. Fresher(e, m)
    BY <1>1, <2>2, <2>3, <2>4 DEF Fresher
  <2>6. QED
    BY <1>1, <2>5, FresherSame
<1>8. QED
  BY <1>4, <1>5, <1>6, <1>7 DEF Rotating, Spreading

(* What every step of a running frame establishes.                         *)
LEMMA GoesOn ==
  ASSUME ActionsInv, NEW g \in Goroutines, stack[g] # <<>>, NEW f, f = Top(g), NEW e, Becomes(g, e),
         e \in Frames, FrameFits(e), e.h = f.h, e.pc # "lock", config' = config,
         f.pc = "lock" => Free(f.h)
  PROVE  LET n == Len(stack[g]) IN
         /\ Changes(g, n, e) /\ n \in DOMAIN stack[g] /\ n \in DOMAIN stack'[g]
         /\ stack[g][n] = f /\ stack'[g][n] = e
         /\ f \in Frames /\ FrameFits(f) /\ (IsSerial(f.h) => Fresher(f, g[1]))
         /\ config \in Setups /\ log \in Seq(Entries) /\ f.h \in HandlerNames
         /\ stack \in [Goroutines -> Seq(Frames)] /\ stack' \in [Goroutines -> Seq(Frames)]
         /\ \A m \in Inbox : stack'[<<m, "main">>] = <<>> <=> stack[<<m, "main">>] = <<>>
         /\ MutexInv' /\ StackInv'
<1> DEFINE n == Len(stack[g])
<1>1. /\ TypeInv /\ StackInv /\ MutexInv /\ ReadInv /\ config \in Setups /\ log \in Seq(Entries)
      /\ stack \in [Goroutines -> Seq(Frames)]
  BY DEF ActionsInv, TypeInv
<1>2. /\ Changes(g, n, e) /\ n \in DOMAIN stack[g] /\ stack[g][n] = f
      /\ \A k \in Goroutines : DOMAIN stack'[k] = DOMAIN stack[k] /\ Len(stack'[k]) = Len(stack[k])
      /\ stack'[g][n] = e
  BY <1>1, BecomesChanges
<1> HIDE DEF n
<1>3. f \in Frames /\ FrameFits(f) /\ (IsSerial(f.h) => Fresher(f, g[1])) /\ f.h \in HandlerNames
  <2>1. f \in Frames
    BY <1>1, <1>2, MemberOf
  <2>2. QED
    BY <1>1, <1>2, <2>1 DEF StackInv, ReadInv, Frames
<1>4. stack' \in [Goroutines -> Seq(Frames)]
  BY <1>2 DEF Changes
<1>5. ASSUME NEW m \in Inbox
      PROVE  stack'[<<m, "main">>] = <<>> <=> stack[<<m, "main">>] = <<>>
  <2> DEFINE k == <<m, "main">>
  <2>1. k \in Goroutines
    BY DEF Goroutines
  <2> HIDE DEF k
  <2>2. stack[k] \in Seq(Frames) /\ stack'[k] \in Seq(Frames) /\ Len(stack'[k]) = Len(stack[k])
    BY <1>1, <1>2, <1>4, <2>1
  <2>3. \A s \in Seq(Frames) : s = <<>> <=> Len(s) = 0
    BY EmptySeq
  <2>4. stack'[k] = <<>> <=> stack[k] = <<>>
    BY <2>2, <2>3
  <2>5. QED
    BY <2>4 DEF k
<1>6. MutexInv'
  BY <1>1, <1>2, MutexKept
<1>7. StackInv'
  <2>1. ASSUME NEW k \in Goroutines, NEW i \in DOMAIN stack'[k], i < Len(stack'[k])
        PROVE  i \in DOMAIN stack[k] /\ i < Len(stack[k]) /\ stack'[k][i] = stack[k][i]
    <3>1. ~(k = g /\ i = n)
      <4>1. Len(stack'[g]) = n /\ n \in Nat
        BY <1>2, <1>1, LenProperties DEF n
      <4>2. QED
        BY <2>1, <4>1
    <3>2. i \in DOMAIN stack[k] /\ i < Len(stack[k])
      BY <1>2, <2>1
    <3>3. QED
      BY <1>2, <2>1, <3>1, <3>2 DEF Changes
  <2>2. QED
    BY <1>1, <1>2, <2>1, StackKept
<1>8. QED
  BY <1>1, <1>2, <1>3, <1>4, <1>5, <1>6, <1>7 DEF n

(* Two frames are to write the same back.                                  *)
WritesSame(f, e) ==
  /\ \A h \in HandlerNames : Rotating(e, h) = Rotating(f, h) /\ (Rotating(e, h) => e.got = f.got)
  /\ \A h \in HandlerNames, c \in ToSet(Pool) :
       Spreading(e, h, c) = Spreading(f, h, c) /\ (Spreading(e, h, c) => e.got.now = f.got.now)

(* A change of one frame with which the built-ins' registers stay and no   *)
(* more or less is about to be written to them.                            *)
LEMMA QuietChange ==
  ASSUME ActionsInv, NEW g, NEW n, NEW e, Changes(g, n, e),
         n \in DOMAIN stack'[g] \/ stack[g][n].pc = "return",
         UNCHANGED <<config, missing, reg, chat, there, clock>>, stored' \in BOOLEAN,
         LogKeeps(Counted),
         IsSerial(e.h) => Fresher(e, g[1])',
         WritesSame(stack[g][n], e),
         MutexInv', StackInv', AnswerInv'
  PROVE  ActionsInv'
<1>1. /\ config \in Setups /\ log \in Seq(Entries) /\ stack' \in [Goroutines -> Seq(Frames)]
      /\ {"sequence", "sample"} \subseteq Counted /\ {"state", "turn"} \subseteq Counted
      /\ "rotated" \in Counted /\ "spread" \in Counted
      /\ FrameFits(stack[g][n])
  BY DEF ActionsInv, TypeInv, StackInv, Changes, Counted
<1>2. TypeInv'
  <2>1. log' \in Seq(Entries)
    BY <1>1, LogKept
  <2>2. QED
    BY <1>1, <2>1 DEF ActionsInv, TypeInv
<1>3. ReadInv'
  <2>1. ReadInv
    BY DEF ActionsInv
  <2>2. QED
    BY <1>1, <2>1, ReadKept
<1>4. CountInv'
  <2>1. CountInv
    BY DEF ActionsInv
  <2>2. QED
    BY <1>1, <2>1, CountKept
<1>5. RotationInv'
  <2>1. RotationInv
    BY DEF ActionsInv
  <2>2. QED
    BY <1>1, <2>1, RotationKept DEF WritesSame
<1>6. SpreadInv'
  <2>1. SpreadInv
    BY DEF ActionsInv
  <2>2. QED
    BY <1>1, <2>1, SpreadKept DEF WritesSame
<1>7. TurnInv'
  <2>1. TurnInv
    BY DEF ActionsInv
  <2>2. QED
    BY <1>1, <2>1, TurnKept
<1>8. QED
  BY <1>2, <1>3, <1>4, <1>5, <1>6, <1>7 DEF ActionsInv

(* What holds of every calm step of a running frame.                       *)
LEMMA CalmStep ==
  ASSUME ActionsInv, NEW g \in Goroutines, stack[g] # <<>>, NEW f, f = Top(g), NEW e, Becomes(g, e),
         Lands(f, f.got, e), f.pc \notin {"return", "all"}, f.pc = "lock" => Free(f.h),
         f.pc = "run" => Script(f)[f.ip].op \notin Sharing,
         UNCHANGED <<config, missing, reg, chat, there, clock>>, stored' \in BOOLEAN, LogKeeps(Shared)
  PROVE  ActionsInv'
<1> DEFINE n == Len(stack[g])
<1>1. e \in Frames /\ FrameFits(e) /\ e.h = f.h /\ e.pc # "lock"
  BY DEF Lands
<1>2. /\ Changes(g, n, e) /\ n \in DOMAIN stack[g] /\ n \in DOMAIN stack'[g]
      /\ stack[g][n] = f /\ stack'[g][n] = e
      /\ f \in Frames /\ FrameFits(f) /\ (IsSerial(f.h) => Fresher(f, g[1]))
      /\ config \in Setups /\ log \in Seq(Entries) /\ f.h \in HandlerNames
      /\ stack \in [Goroutines -> Seq(Frames)] /\ stack' \in [Goroutines -> Seq(Frames)]
      /\ \A m \in Inbox : stack'[<<m, "main">>] = <<>> <=> stack[<<m, "main">>] = <<>>
      /\ MutexInv' /\ StackInv'
  BY <1>1, GoesOn
<1> HIDE DEF n
<1>3. /\ IsSerial(e.h) => Fresher(e, g[1])'
      /\ \A h \in HandlerNames : Rotating(e, h) = FALSE /\ Rotating(f, h) = FALSE
      /\ \A h \in HandlerNames, c \in ToSet(Pool) : Spreading(e, h, c) = FALSE /\ Spreading(f, h, c) = FALSE
  BY <1>2, CalmFrame
<1>4. AnswerInv'
  <2>1. AnswerInv /\ {"reply", "error", "end"} \subseteq Shared
    BY DEF ActionsInv, Shared
  <2>2. Untold(e)
    BY <1>1 DEF Lands, Untold
  <2>3. QED
    BY <1>2, <2>1, <2>2, AnswerKept
<1>5. LogKeeps(Counted)
  BY DEF LogKeeps, Shared
<1>6. WritesSame(stack[g][n], e)
  BY <1>2, <1>3 DEF WritesSame
<1>7. UNCHANGED <<config, missing, reg, chat, there, clock>> /\ stored' \in BOOLEAN
  OBVIOUS
<1>8. QED
  BY ONLY ActionsInv, <1>2, <1>3, <1>4, <1>5, <1>6, <1>7, QuietChange

-----------------------------------------------------------------------------
(* The running frame.                                                      *)
LEMMA AtTop ==
  ASSUME ActionsInv, NEW g \in Goroutines, stack[g] # <<>>, NEW f, f = Top(g)
  PROVE  /\ f \in Frames /\ FrameFits(f) /\ Stands(f) /\ config \in Setups
         /\ f.h \in HandlerNames /\ config[f.h] # None /\ log \in Seq(Entries)
         /\ f.pc \in {"lock", "delay", "run", "respond", "reply", "backoff"} => f.how = "ok"
         /\ Len(stack[g]) \in Nat /\ Len(stack[g]) \in DOMAIN stack[g] /\ stack[g][Len(stack[g])] = f
<1>1. stack[g] \in Seq(Frames) /\ config \in Setups /\ log \in Seq(Entries)
  BY DEF ActionsInv, TypeInv
<1>2. Len(stack[g]) \in Nat /\ Len(stack[g]) \in DOMAIN stack[g] /\ stack[g][Len(stack[g])] = f
  <2>1. \A s \in Seq(Frames) : s # <<>> => Len(s) \in Nat /\ Len(s) \in DOMAIN s
    BY EmptySeq, LenProperties
  <2>2. QED
    BY <1>1, <2>1 DEF Top, Last
<1>3. f \in Frames /\ FrameFits(f)
  BY <1>1, <1>2, MemberOf DEF ActionsInv, StackInv
<1>4. QED
  BY <1>1, <1>2, <1>3 DEF FrameFits, Stands, Frames

(* A frame that runs an instruction.                                       *)
LEMMA AtInstruction ==
  ASSUME ActionsInv, NEW g \in Goroutines, NEW op, Runs(g, op), NEW f, f = Top(g)
  PROVE  /\ stack[g] # <<>> /\ f \in Frames /\ FrameFits(f) /\ Stands(f) /\ f.pc = "run" /\ f.how = "ok"
         /\ config \in Setups /\ f.h \in HandlerNames /\ config[f.h] # None /\ log \in Seq(Entries)
         /\ StepOf(f).uses \in DOMAIN builtinRegistry /\ StepOf(f).target \in HandlerNames
         /\ StepOf(f).responds \in BOOLEAN
         /\ Script(f)[f.ip].op = op /\ On(g) = Script(f)[f.ip].on
         /\ Fits(StepOf(f).uses, f.ip, Script(f)[f.ip]) /\ Marked(StepOf(f).uses, Script(f))
         /\ f.ip \in Nat /\ GotFits(StepOf(f).uses, f.ip, f.got) /\ f.got \in Gots
<1>1. stack[g] # <<>> /\ f.pc = "run" /\ Script(f)[f.ip].op = op /\ On(g) = Script(f)[f.ip].on
  BY DEF Runs, Is, On
<1>2. f \in Frames /\ FrameFits(f) /\ Stands(f) /\ config \in Setups /\ f.h \in HandlerNames
      /\ config[f.h] # None /\ f.how = "ok" /\ log \in Seq(Entries)
  BY <1>1, AtTop
<1>3. f.ip \in Nat /\ GotFits(StepOf(f).uses, f.ip, f.got) /\ f.got \in Gots
  BY <1>1, <1>2 DEF Frames, FrameFits
<1>4. QED
  BY <1>1, <1>2, <1>3, AtScript

(* What a calm instruction leaves in got is right for the next one.        *)
LEMMA GotOnward ==
  ASSUME config \in Setups, NEW f \in Frames, FrameFits(f), f.pc = "run", Script(f)[f.ip].op \notin Sharing
  PROVE  GotFits(StepOf(f).uses, f.ip + 1, f.got)
<1>1. GotFits(StepOf(f).uses, f.ip, f.got) /\ Marked(StepOf(f).uses, Script(f)) /\ f.ip \in Nat
  BY AtScript DEF FrameFits, Frames
<1> DEFINE b == StepOf(f).uses
           i == f.ip
           s == Script(f)
           v == f.got
<1>2. GotFits(b, i, v) /\ Marked(b, s) /\ i \in Nat /\ s[i].op \notin Sharing
  BY <1>1
<1> HIDE DEF b, i, s, v
<1>3. (b = "gate" => i # 3) /\ (b = "rate-limit" => i # 2) /\ (b = "lua" => i # 2)
      /\ (b = "round-robin" => i \notin {3, 5}) /\ (b = "throttle-broadcast" => i # 3)
      /\ (b \in Chats => i # 2)
  BY <1>2 DEF Marked, Sharing
<1>4. GotFits(b, i + 1, v)
  BY <1>2, <1>3 DEF GotFits
<1>5. QED
  BY <1>4 DEF b, i, v

(* An instruction passes, with what the frame has or with v.               *)
LEMMA PassesLands ==
  ASSUME config \in Setups, NEW f \in Frames, FrameFits(f), f.pc = "run", Script(f)[f.ip].op \notin Sharing
  PROVE  Lands(f, f.got, Passed(f))
<1>1. GotFits(StepOf(f).uses, f.ip + 1, f.got) /\ f.got \in Gots /\ Stands(f)
  BY GotOnward DEF Frames, FrameFits
<1>2. Lands(f, f.got, Passed([f EXCEPT !.got = f.got]))
  BY <1>1, PassedLands
<1>3. [f EXCEPT !.got = f.got] = f
  BY DEF Frames
<1>4. QED
  BY <1>2, <1>3

(* So does a frame whose exit code or respond flag alone was set.          *)
LEMMA PassesLandsAs ==
  ASSUME config \in Setups, NEW f \in Frames, FrameFits(f), f.pc = "run", Script(f)[f.ip].op \notin Sharing,
         NEW d \in Frames, d.h = f.h, d.pc = "run", d.try = f.try, d.at = f.at, d.ip = f.ip,
         d.got = f.got, d.how = f.how
  PROVE  /\ FrameFits(d) /\ Lands(f, f.got, Passed(d))
         /\ \A how \in {"ok", "fail", "drop", "limit"} : Lands(f, f.got, Stepped(d, how))
<1>1. StepOf(d) = StepOf(f) /\ Script(d) = Script(f)
  BY SamePlace
<1>2. FrameFits(d)
  BY <1>1 DEF FrameFits, Stands
<1>3. Lands(d, d.got, Passed(d))
  BY <1>1, <1>2, PassesLands
<1>4. \A how \in {"ok", "fail", "drop", "limit"} : Lands(d, f.got, Stepped(d, how))
  <2>1. Stands(d) /\ d.how = "ok"
    BY <1>2 DEF FrameFits, Stands
  <2>2. QED
    BY <2>1, SteppedLands
<1>5. QED
  BY <1>2, <1>3, <1>4 DEF Lands

(* What is logged is an entry.                                             *)
LEMMA Noted ==
  ASSUME ActionsInv, NEW g \in Goroutines, stack[g] # <<>>, NEW what \in Kinds, NEW val \in Vals
  PROVE  /\ Note(g, what, val) \in Entries /\ Note(g, what, val).what = what
         /\ Note(g, what, val).h = Top(g).h /\ Note(g, what, val).m = g[1]
         /\ Note(g, what, val).depth = Len(stack[g]) /\ Note(g, what, val).val = val
<1>1. Top(g).h \in HandlerNames /\ Len(stack[g]) \in Nat
  BY AtTop
<1>2. g[1] \in Inbox
  BY DEF Goroutines
<1>3. QED
  BY <1>1, <1>2 DEF Note, Entries

(* An entry of one kind leaves the places of the others.                   *)
LEMMA LogsKeep ==
  ASSUME ActionsInv, NEW g \in Goroutines, stack[g] # <<>>, NEW what \in Kinds, NEW val \in Vals,
         NEW K, what \notin K, Logs(g, what, val) \/ log' = log
  PROVE  LogKeeps(K)
BY Noted DEF Logs, LogKeeps

(* So does what is sent, or not, on the message's connection.              *)
LEMMA SentKeeps ==
  ASSUME ActionsInv, NEW g \in Goroutines, stack[g] # <<>>, NEW what \in Kinds,
         NEW K, what \notin K, Sent(g, what) \/ UNCHANGED log
  PROVE  LogKeeps(K)
<1>1. 0 \in Vals
  BY DEF Vals, Gots
<1>2. Logs(g, what, 0) \/ log' = log
  BY DEF Sent
<1>3. QED
  BY <1>1, <1>2, LogsKeep

-----------------------------------------------------------------------------
(* The calm actions *)

(* The mutex is taken and the first attempt begins.                        *)
LEMMA BeginKeeps ==
  ASSUME ActionsInv, NEW g \in Goroutines, Begin(g)
  PROVE  ActionsInv'
<1> DEFINE f == Top(g)
<1>1. stack[g] # <<>> /\ f.pc = "lock" /\ Free(f.h) /\ Becomes(g, NewAttempt(f))
      /\ UNCHANGED <<config, missing, reg, chat, stored, there, clock, log>>
  BY DEF Begin, Is, shared
<1>2. f \in Frames /\ FrameFits(f) /\ config \in Setups
  BY <1>1, AtTop
<1> HIDE DEF f
<1>3. Lands(f, f.got, NewAttempt(f))
  BY <1>1, <1>2, AttemptLands
<1>4. LogKeeps(Shared) /\ stored' \in BOOLEAN
  BY <1>1 DEF LogKeeps, ActionsInv, TypeInv
<1>5. QED
  BY <1>1, <1>3, <1>4, CalmStep DEF f

(* The delay of an action passes, or the context ends.                     *)
LEMMA DelayKeeps ==
  ASSUME ActionsInv, NEW g \in Goroutines, Delay(g)
  PROVE  ActionsInv'
<1> DEFINE f == Top(g)
           d == [f EXCEPT !.pc = "run"]
<1>1. stack[g] # <<>> /\ f.pc = "delay" /\ (Becomes(g, d) \/ Becomes(g, Stepped(f, "fail")))
      /\ UNCHANGED <<config, missing, reg, chat, stored, there, clock, log>>
  BY DEF Delay, Is, shared, Fails
<1>2. f \in Frames /\ FrameFits(f) /\ Stands(f) /\ config \in Setups /\ f.how = "ok"
  BY <1>1, AtTop
<1>3. Lands(f, f.got, d)
  <2>1. /\ d \in Frames /\ d.h = f.h /\ d.pc = "run" /\ d.how = "ok" /\ d.try = f.try /\ d.at = f.at
        /\ d.ip = 1 /\ d.got = f.got /\ f.ip = 1
    BY <1>1, <1>2 DEF Frames, Pcs, FrameFits, Stands
  <2> HIDE DEF d, f
  <2>2. StepOf(d) = StepOf(f) /\ Script(d) = Script(f)
    BY <2>1, SamePlace
  <2>3. GotFits(StepOf(d).uses, 1, d.got)
    BY DEF GotFits
  <2>4. QED
    BY <1>2, <2>1, <2>2, <2>3 DEF Lands, FrameFits, Stands
<1> HIDE DEF f, d
<1>4. Lands(f, f.got, Stepped(f, "fail"))
  BY <1>2, SteppedLands
<1>5. LogKeeps(Shared) /\ stored' \in BOOLEAN
  BY <1>1 DEF LogKeeps, ActionsInv, TypeInv
<1>6. f = Top(g)
  BY DEF f
<1>7. QED
  BY <1>1, <1>3, <1>4, <1>5, <1>6, CalmStep

(* The respond of an action.                                               *)
LEMMA RespondKeeps ==
  ASSUME ActionsInv, NEW g \in Goroutines, Respond(g)
  PROVE  ActionsInv'
<1> DEFINE f == Top(g)
<1>1. stack[g] # <<>> /\ f.pc = "respond" /\ (Becomes(g, Stepped(f, "ok")) \/ Becomes(g, Stepped(f, "fail")))
      /\ (Sent(g, "respond") \/ UNCHANGED log)
      /\ UNCHANGED <<config, missing, reg, chat, stored, there, clock>>
  BY DEF Respond, Is, shared, Fails
<1>2. f \in Frames /\ FrameFits(f) /\ Stands(f) /\ config \in Setups /\ f.how = "ok"
  BY <1>1, AtTop
<1> HIDE DEF f
<1>3. Lands(f, f.got, Stepped(f, "ok")) /\ Lands(f, f.got, Stepped(f, "fail"))
  BY <1>2, SteppedLands
<1>4. LogKeeps(Shared) /\ stored' \in BOOLEAN
  <2>1. "respond" \notin Shared /\ "respond" \in Kinds
    BY DEF Shared, Counted, Kinds
  <2>2. LogKeeps(Shared)
    BY ONLY ActionsInv, g \in Goroutines, <1>1, <2>1, SentKeeps
  <2>3. QED
    BY <1>1, <2>2 DEF ActionsInv, TypeInv
<1>5. f = Top(g)
  BY DEF f
<1>6. QED
  BY <1>1, <1>3, <1>4, <1>5, CalmStep

(* The next attempt, or the cancellation of it.                            *)
LEMMA RetryKeeps ==
  ASSUME ActionsInv, NEW g \in Goroutines, Retry(g)
  PROVE  ActionsInv'
<1> DEFINE f == Top(g)
           d == [f EXCEPT !.pc = "return", !.how = "cancelled"]
<1>1. stack[g] # <<>> /\ f.pc = "backoff" /\ (Becomes(g, NewAttempt(f)) \/ Becomes(g, d))
      /\ UNCHANGED <<config, missing, reg, chat, stored, there, clock, log>>
  BY DEF Retry, Is, shared
<1>2. f \in Frames /\ FrameFits(f) /\ Stands(f) /\ config \in Setups /\ f.how = "ok"
  BY <1>1, AtTop
<1>3. Lands(f, f.got, d)
  <2>1. /\ d \in Frames /\ d.h = f.h /\ d.pc = "return" /\ d.how = "cancelled" /\ d.try = f.try /\ d.at = f.at
        /\ d.ip = f.ip
    BY <1>1, <1>2 DEF Frames, Pcs, Hows
  <2> HIDE DEF d, f
  <2>2. StepOf(d) = StepOf(f) /\ Script(d) = Script(f)
    BY <2>1, SamePlace
  <2>3. QED
    BY <1>2, <2>1, <2>2 DEF Lands, FrameFits, Stands
<1> HIDE DEF f, d
<1>4. Lands(f, f.got, NewAttempt(f))
  BY <1>1, <1>2, AttemptLands
<1>5. LogKeeps(Shared) /\ stored' \in BOOLEAN
  BY <1>1 DEF LogKeeps, ActionsInv, TypeInv
<1>6. f = Top(g)
  BY DEF f
<1>7. QED
  BY <1>1, <1>3, <1>4, <1>5, <1>6, CalmStep

(* An instruction that shares nothing.                                     *)
LEMMA CalmInstruction ==
  ASSUME ActionsInv, NEW g \in Goroutines, NEW op, Runs(g, op), op \notin Sharing, NEW f, f = Top(g),
         NEW e, Becomes(g, e), Lands(f, f.got, e),
         UNCHANGED <<config, missing, reg, chat, there, clock>>, stored' \in BOOLEAN, LogKeeps(Shared)
  PROVE  ActionsInv'
<1>1. stack[g] # <<>> /\ f.pc = "run" /\ Script(f)[f.ip].op = op
  BY AtInstruction
<1>2. QED
  BY <1>1, CalmStep

(* Its ways to end.                                                        *)
LEMMA CalmEnds ==
  ASSUME ActionsInv, NEW g \in Goroutines, NEW op, Runs(g, op), op \notin Sharing, NEW f, f = Top(g)
  PROVE  /\ Lands(f, f.got, Passed(f)) /\ Lands(f, f.got, Acted(f))
         /\ \A how \in {"ok", "fail", "drop", "limit"} : Lands(f, f.got, Stepped(f, how))
<1>1. /\ f \in Frames /\ FrameFits(f) /\ Stands(f) /\ config \in Setups /\ f.how = "ok" /\ f.pc = "run"
      /\ Script(f)[f.ip].op = op
  BY AtInstruction
<1>2. QED
  BY <1>1, PassesLands, ActedLands, SteppedLands

(* What renders, parses or asks somebody else.                             *)
LEMMA AttemptKeeps ==
  ASSUME ActionsInv, NEW g \in Goroutines, Attempt(g)
  PROVE  ActionsInv'
<1> DEFINE f == Top(g)
<1>1. PICK op \in {"eval", "call", "pause", "needs"} : Runs(g, op)
  BY DEF Attempt, Fallible, Available
<1>2. Becomes(g, Passed(f)) \/ Becomes(g, Stepped(f, "fail"))
  BY DEF Attempt, Passes, Fails
<1>3. UNCHANGED <<config, missing, reg, chat, stored, there, clock, log>>
  BY DEF Attempt, shared
<1>4. op \notin Sharing /\ f = Top(g)
  BY DEF Sharing
<1> HIDE DEF f
<1>5. Lands(f, f.got, Passed(f)) /\ Lands(f, f.got, Stepped(f, "fail"))
  BY <1>1, <1>4, CalmEnds
<1>6. LogKeeps(Shared) /\ stored' \in BOOLEAN
  BY <1>3 DEF LogKeeps, ActionsInv, TypeInv
<1>7. QED
  BY <1>1, <1>2, <1>3, <1>4, <1>5, <1>6, CalmInstruction

(* A change of the key-value store.                                        *)
LEMMA ApplyKeeps ==
  ASSUME ActionsInv, NEW g \in Goroutines, ApplyChange(g)
  PROVE  ActionsInv'
<1> DEFINE f == Top(g)
<1>1. Runs(g, "apply") /\ Becomes(g, Passed(f)) /\ UNCHANGED <<config, missing, reg, chat, there, clock, log>>
  BY DEF ApplyChange, Passes
<1>2. "apply" \notin Sharing /\ f = Top(g)
  BY DEF Sharing
<1> HIDE DEF f
<1>3. Lands(f, f.got, Passed(f))
  BY <1>1, <1>2, CalmEnds
<1>4. LogKeeps(Shared)
  BY <1>1 DEF LogKeeps
<1>5. stored' \in BOOLEAN
  <2>1. stored' \in {TRUE, FALSE, stored}
    BY DEF ApplyChange
  <2>2. stored \in BOOLEAN
    BY DEF ActionsInv, TypeInv
  <2>3. QED
    BY <2>1, <2>2
<1>6. QED
  BY <1>1, <1>2, <1>3, <1>4, <1>5, CalmInstruction

(* A message to others.                                                    *)
LEMMA SendKeeps ==
  ASSUME ActionsInv, NEW g \in Goroutines, SendTo(g)
  PROVE  ActionsInv'
<1> DEFINE f == Top(g)
<1>1. Runs(g, "send") /\ Becomes(g, Passed(f)) /\ Logs(g, "broadcast", 0)
      /\ UNCHANGED <<config, missing, reg, chat, stored, there, clock>>
  BY DEF SendTo, Passes, shared
<1>2. "send" \notin Sharing /\ f = Top(g)
  BY DEF Sharing
<1> HIDE DEF f
<1>3. Lands(f, f.got, Passed(f)) /\ stack[g] # <<>>
  BY <1>1, <1>2, CalmEnds, AtInstruction
<1>4. LogKeeps(Shared)
  <2>1. 0 \in Vals /\ "broadcast" \notin Shared /\ "broadcast" \in Kinds
    BY DEF Vals, Gots, Shared, Counted, Kinds
  <2>2. QED
    BY ONLY ActionsInv, g \in Goroutines, <1>1, <1>3, <2>1, LogsKeep
<1>5. stored' \in BOOLEAN
  BY <1>1 DEF ActionsInv, TypeInv
<1>6. QED
  BY <1>1, <1>2, <1>3, <1>4, <1>5, CalmInstruction

(* A message back on the connection.                                       *)
LEMMA WriteKeeps ==
  ASSUME ActionsInv, NEW g \in Goroutines, WriteBack(g)
  PROVE  ActionsInv'
<1> DEFINE f == Top(g)
<1>1. PICK op \in {"write", "try"} : Runs(g, op)
  BY DEF WriteBack
<1>2. (Becomes(g, Passed(f)) \/ Becomes(g, Stepped(f, "fail"))) /\ (Sent(g, "write") \/ UNCHANGED log)
  BY DEF WriteBack, Passes, Fails
<1>3. UNCHANGED <<config, missing, reg, chat, stored, there, clock>>
  BY DEF WriteBack, shared
<1>4. op \notin Sharing /\ f = Top(g)
  BY DEF Sharing
<1> HIDE DEF f
<1>5. Lands(f, f.got, Passed(f)) /\ Lands(f, f.got, Stepped(f, "fail")) /\ stack[g] # <<>>
  BY <1>1, <1>4, CalmEnds, AtInstruction
<1>6. LogKeeps(Shared) /\ stored' \in BOOLEAN
  <2>1. "write" \notin Shared /\ "write" \in Kinds
    BY DEF Shared, Counted, Kinds
  <2>2. LogKeeps(Shared)
    BY ONLY ActionsInv, g \in Goroutines, <1>2, <1>5, <2>1, SentKeeps
  <2>3. QED
    BY <1>3, <2>2 DEF ActionsInv, TypeInv
<1>7. QED
  BY <1>1, <1>2, <1>3, <1>4, <1>5, <1>6, CalmInstruction

(* The answer of a model, whole or in pieces.                              *)
LEMMA StreamKeeps ==
  ASSUME ActionsInv, NEW g \in Goroutines, StreamPieces(g)
  PROVE  ActionsInv'
<1> DEFINE f == Top(g)
           d == [f EXCEPT !.mute = TRUE]
<1>1. /\ Runs(g, "stream")
      /\ Becomes(g, Passed(f)) \/ Becomes(g, Stepped(f, "fail")) \/ Becomes(g, Passed(d))
      /\ Sent(g, "piece") \/ UNCHANGED log
  BY DEF StreamPieces, Passes, Fails
<1>2. UNCHANGED <<config, missing, reg, chat, stored, there, clock>>
  BY DEF StreamPieces, shared
<1>3. "stream" \notin Sharing /\ f = Top(g)
  BY DEF Sharing
<1> HIDE DEF f
<1>4. Lands(f, f.got, Passed(f)) /\ Lands(f, f.got, Stepped(f, "fail")) /\ stack[g] # <<>>
  BY <1>1, <1>3, CalmEnds, AtInstruction
<1>5. Lands(f, f.got, Passed(d))
  <2>1. f \in Frames /\ FrameFits(f) /\ config \in Setups /\ f.pc = "run" /\ Script(f)[f.ip].op = "stream"
    BY <1>1, <1>3, AtInstruction
  <2>2. /\ d \in Frames /\ d.h = f.h /\ d.pc = "run" /\ d.try = f.try /\ d.at = f.at /\ d.ip = f.ip
        /\ d.got = f.got /\ d.how = f.how
    BY <2>1 DEF Frames
  <2> HIDE DEF d
  <2>3. QED
    BY <1>3, <2>1, <2>2, PassesLandsAs
<1>6. LogKeeps(Shared) /\ stored' \in BOOLEAN
  <2>1. "piece" \notin Shared /\ "piece" \in Kinds
    BY DEF Shared, Counted, Kinds
  <2>2. LogKeeps(Shared)
    BY ONLY ActionsInv, g \in Goroutines, <1>1, <1>4, <2>1, SentKeeps
  <2>3. QED
    BY <1>2, <2>2 DEF ActionsInv, TypeInv
<1> HIDE DEF d
<1>7. QED
  BY <1>1, <1>2, <1>3, <1>4, <1>5, <1>6, CalmInstruction

(* A built-in that ends early.                                             *)
LEMMA EndEarlyKeeps ==
  ASSUME ActionsInv, NEW g \in Goroutines, EndEarly(g)
  PROVE  ActionsInv'
<1> DEFINE f == Top(g)
<1>1. Runs(g, "endif") /\ UNCHANGED <<config, missing, reg, chat, stored, there, clock, log>>
  BY DEF EndEarly, shared
<1>2. PICK ends \in Holding(f, On(g)) : Becomes(g, IF ends THEN Acted(f) ELSE Passed(f))
  BY DEF EndEarly
<1>3. "endif" \notin Sharing /\ f = Top(g)
  BY DEF Sharing
<1> HIDE DEF f
<1>4. Lands(f, f.got, Passed(f)) /\ Lands(f, f.got, Acted(f))
  BY <1>1, <1>3, CalmEnds
<1>5. ends \in BOOLEAN
  <2>1. /\ Fits(StepOf(f).uses, f.ip, Script(f)[f.ip]) /\ Script(f)[f.ip].op = "endif"
        /\ On(g) = Script(f)[f.ip].on /\ GotFits(StepOf(f).uses, f.ip, f.got) /\ StepOf(f).responds \in BOOLEAN
    BY <1>1, <1>3, AtInstruction
  <2>2. \/ On(g) \in {"stored", "allowed"} /\ f.got \in BOOLEAN
        \/ On(g) \in {"responds", "sent", "sampled", "no reply"}
    BY <2>1 DEF Fits, GotFits
  <2>3. CASE On(g) \in {"stored", "allowed"} /\ f.got \in BOOLEAN
    <3>1. Holding(f, On(g)) = {f.got}
      BY <2>3 DEF Holding
    <3>2. QED
      BY <1>2, <2>3, <3>1
  <2>4. CASE On(g) = "responds"
    <3>1. Holding(f, On(g)) = {StepOf(f).responds}
      BY <2>4 DEF Holding
    <3>2. QED
      BY <1>2, <2>1, <3>1
  <2>5. CASE On(g) = "sent"
    <3>1. Holding(f, On(g)) = {f.got # None}
      BY <2>5 DEF Holding
    <3>2. QED
      BY <1>2, <3>1, Zenon
  <2>6. CASE On(g) = "sampled"
    <3>1. Holding(f, On(g)) = {f.got % Rate = 0}
      BY <2>6 DEF Holding
    <3>2. QED
      BY <1>2, <3>1, Zenon
  <2>7. CASE On(g) = "no reply"
    <3>1. Holding(f, On(g)) = BOOLEAN
      BY <2>7 DEF Holding
    <3>2. QED
      BY <1>2, <3>1
  <2>8. QED
    BY <2>2, <2>3, <2>4, <2>5, <2>6, <2>7
<1>6. LogKeeps(Shared) /\ stored' \in BOOLEAN
  BY <1>1 DEF LogKeeps, ActionsInv, TypeInv
<1>7. Becomes(g, Acted(f)) \/ Becomes(g, Passed(f))
  BY <1>2, <1>5
<1>8. QED
  BY <1>1, <1>3, <1>4, <1>6, <1>7, CalmInstruction

(* A built-in that drops the message or is over its limit.                 *)
LEMMA LeaveKeeps ==
  ASSUME ActionsInv, NEW g \in Goroutines, LeaveWith(g)
  PROVE  ActionsInv'
<1> DEFINE f == Top(g)
<1>1. PICK op \in {"leave", "maydrop"} : Runs(g, op)
  BY DEF LeaveWith
<1>2. UNCHANGED <<config, missing, reg, chat, stored, there, clock, log>>
  BY DEF LeaveWith, shared
<1>3. op \notin Sharing /\ f = Top(g)
  BY DEF Sharing
<1>4. \/ Runs(g, "leave") /\ Becomes(g, Stepped(f, On(g)))
      \/ Becomes(g, Stepped(f, "drop")) \/ Becomes(g, Passed(f))
  BY DEF LeaveWith, Passes
<1> HIDE DEF f
<1>5. Runs(g, "leave") => On(g) \in {"drop", "limit", "fail"}
  <2>1. ASSUME Runs(g, "leave")
        PROVE  /\ Fits(StepOf(f).uses, f.ip, Script(f)[f.ip]) /\ Script(f)[f.ip].op = "leave"
               /\ On(g) = Script(f)[f.ip].on
    BY <1>3, <2>1, AtInstruction
  <2>2. QED
    BY <2>1 DEF Fits
<1>6. /\ Lands(f, f.got, Passed(f))
      /\ \A how \in {"ok", "fail", "drop", "limit"} : Lands(f, f.got, Stepped(f, how))
  BY <1>1, <1>3, CalmEnds
<1>7. LogKeeps(Shared) /\ stored' \in BOOLEAN
  BY <1>2 DEF LogKeeps, ActionsInv, TypeInv
<1>8. \E e : Becomes(g, e) /\ Lands(f, f.got, e)
  BY <1>4, <1>5, <1>6
<1>9. QED
  BY <1>1, <1>2, <1>3, <1>7, <1>8, CalmInstruction

(* A shell command.                                                        *)
LEMMA ShellKeeps ==
  ASSUME ActionsInv, NEW g \in Goroutines, RunShell(g)
  PROVE  ActionsInv'
<1> DEFINE f == Top(g)
           d(code) == [f EXCEPT !.exit = code]
<1>1. Runs(g, "exit") /\ UNCHANGED <<config, missing, reg, chat, stored, there, clock, log>>
  BY DEF RunShell, shared
<1>2. \/ \E code \in BOOLEAN : Becomes(g, Passed(d(code)))
      \/ Becomes(g, Stepped(d(TRUE), "fail"))
  BY DEF RunShell
<1>3. "exit" \notin Sharing /\ f = Top(g)
  BY DEF Sharing
<1>4. ASSUME NEW code \in BOOLEAN
      PROVE  Lands(f, f.got, Passed(d(code))) /\ Lands(f, f.got, Stepped(d(code), "fail"))
  <2> DEFINE c == d(code)
  <2>1. f \in Frames /\ FrameFits(f) /\ config \in Setups /\ f.pc = "run" /\ Script(f)[f.ip].op = "exit"
    BY <1>1, <1>3, AtInstruction
  <2>2. /\ c \in Frames /\ c.h = f.h /\ c.pc = "run" /\ c.try = f.try /\ c.at = f.at /\ c.ip = f.ip
        /\ c.got = f.got /\ c.how = f.how
    BY <2>1 DEF Frames
  <2> HIDE DEF c, f
  <2>3. Lands(f, f.got, Passed(c)) /\ Lands(f, f.got, Stepped(c, "fail"))
    BY <1>3, <2>1, <2>2, PassesLandsAs
  <2>4. QED
    BY <2>3 DEF c
<1>5. LogKeeps(Shared) /\ stored' \in BOOLEAN
  BY <1>1 DEF LogKeeps, ActionsInv, TypeInv
<1> HIDE DEF f, d
<1>6. \E e : Becomes(g, e) /\ Lands(f, f.got, e)
  BY <1>2, <1>4
<1>7. QED
  BY <1>1, <1>3, <1>5, <1>6, CalmInstruction

-----------------------------------------------------------------------------
(* What a handler says of its own *)

(* One entry more, and what a message has been sent.                       *)
LEMMA SendingsGrow ==
  ASSUME log \in Seq(Entries), NEW x \in Entries, log' = Append(log, x), NEW m, NEW w
  PROVE  /\ Sendings(m, w)' = IF x.h = First /\ x.what = w /\ x.m = m /\ x.depth = 1
                              THEN Sendings(m, w) \cup {Len(log) + 1} ELSE Sendings(m, w)
         /\ x.what # "end" => Ends(m)' = Ends(m)
         /\ Len(log) + 1 \notin Sendings(m, w)
<1>1. /\ Len(log) \in Nat /\ DOMAIN log = 1..Len(log) /\ DOMAIN log' = 1..Len(log) + 1
      /\ log'[Len(log) + 1] = x /\ \A i \in DOMAIN log : log'[i] = log[i]
  BY LogGrows
<1>2. \A i : i \in DOMAIN log' <=> i \in DOMAIN log \/ i = Len(log) + 1
  BY <1>1
<1>3. Len(log) + 1 \notin DOMAIN log
  BY <1>1
<1>4. ASSUME NEW i
      PROVE  i \in Sendings(m, w)' <=> \/ i \in Sendings(m, w)
                                       \/ /\ x.h = First /\ x.what = w /\ x.m = m /\ x.depth = 1
                                          /\ i = Len(log) + 1
  BY <1>1, <1>2, <1>3 DEF Sendings, Logged
<1>5. ASSUME x.what # "end", NEW i
      PROVE  i \in Ends(m)' <=> i \in Ends(m)
  BY <1>1, <1>2, <1>3, <1>5 DEF Ends
<1>6. Sendings(m, w) \subseteq DOMAIN log
  BY DEF Sendings, Logged
<1>7. QED
  BY <1>3, <1>4, <1>5, <1>6

(* Only the frame a message came in with speaks for its answer.            *)
LEMMA AnswerMoved ==
  ASSUME AnswerInv, NEW g, NEW n, NEW e, Changes(g, n, e), log \in Seq(Entries),
         stack \in [Goroutines -> Seq(Frames)],
         \A m \in Inbox : stack'[<<m, "main">>] = <<>> <=> stack[<<m, "main">>] = <<>>,
         \/ log' = log
         \/ \E x \in Entries : /\ log' = Append(log, x) /\ x.what # "end"
                               /\ x.depth = n /\ g = <<x.m, "main">>,
         \A m \in Inbox : g = <<m, "main">> /\ n = 1 => ToldBy(e, m)'
  PROVE  AnswerInv'
<1>1. /\ config' = config /\ stack' \in [Goroutines -> Seq(Frames)] /\ e.h = stack[g][n].h
  BY DEF Changes
<1>2. \A m \in Inbox : Ends(m)' = Ends(m) /\ \A i \in Ends(m) : log'[i] = log[i]
  <2>1. CASE log' = log
    BY <2>1 DEF Ends
  <2>2. ASSUME NEW x \in Entries, log' = Append(log, x), x.what # "end"
        PROVE  \A m \in Inbox : Ends(m)' = Ends(m) /\ \A i \in Ends(m) : log'[i] = log[i]
    <3>1. \A i \in DOMAIN log : log'[i] = log[i]
      BY <2>2, LogGrows
    <3>2. \A m \in Inbox : Ends(m)' = Ends(m)
      BY <2>2, SendingsGrow
    <3>3. \A m : Ends(m) \subseteq DOMAIN log
      BY DEF Ends
    <3>4. QED
      BY <3>1, <3>2, <3>3
  <2>3. QED
    BY <2>1, <2>2
<1>3. ASSUME NEW m \in Inbox, g # <<m, "main">> \/ n # 1, NEW w
      PROVE  Sendings(m, w)' = Sendings(m, w)
  <2>1. CASE log' = log
    BY <2>1 DEF Sendings, Logged
  <2>2. ASSUME NEW x \in Entries, log' = Append(log, x), x.depth = n, g = <<x.m, "main">>
        PROVE  Sendings(m, w)' = Sendings(m, w)
    <3>1. x.m # m \/ x.depth # 1
      BY <1>3, <2>2
    <3>2. QED
      BY <2>2, <3>1, SendingsGrow
  <2>3. QED
    BY <2>1, <2>2
<1>4. ASSUME NEW m \in Inbox, g # <<m, "main">> \/ n # 1
      PROVE  /\ \A how : Told(m, how)' = Told(m, how)
             /\ \A f : ToldBy(f, m)' = ToldBy(f, m)
  <2>1. Sendings(m, "reply")' = Sendings(m, "reply") /\ Sendings(m, "error")' = Sendings(m, "error")
    BY <1>3, <1>4
  <2>2. \A how : Told(m, how)' = Told(m, how)
    BY <1>1, <2>1, SameConfig DEF Told
  <2>3. QED
    BY <2>1, <2>2 DEF ToldBy
<1>5. ASSUME NEW m \in Inbox, NEW k, k = <<m, "main">>
      PROVE  /\ k \in Goroutines
             /\ stack[k] # <<>> => 1 \in DOMAIN stack[k]
             /\ stack'[k] # <<>> => 1 \in DOMAIN stack'[k]
  <2>1. k \in Goroutines
    BY <1>5 DEF Goroutines
  <2>2. stack[k] \in Seq(Frames) /\ stack'[k] \in Seq(Frames)
    BY <1>1, <2>1
  <2>3. \A s \in Seq(Frames) : s # <<>> => 1 \in DOMAIN s
    BY EmptySeq, LenProperties
  <2>4. QED
    BY <2>1, <2>2, <2>3
<1>6. ASSUME NEW m \in Inbox, NEW k, k = <<m, "main">>, stack'[k] = <<>>
      PROVE  \E i \in Ends(m)' : Ends(m)' = {i} /\ Told(m, log[i].val.how)'
  <2>1. stack[k] = <<>>
    BY <1>6
  <2>2. PICK i \in Ends(m) : Ends(m) = {i} /\ Told(m, log[i].val.how)
    BY <1>6, <2>1 DEF AnswerInv
  <2>3. g # k
    <3>1. g = k => n \in DOMAIN stack[k]
      BY DEF Changes
    <3>2. QED
      BY <2>1, <3>1
  <2>4. Told(m, log[i].val.how)'
    BY <1>2, <1>4, <1>6, <2>2, <2>3
  <2>5. QED
    BY <1>2, <2>2, <2>4
<1>7. ASSUME NEW m \in Inbox, NEW k, k = <<m, "main">>, stack'[k] # <<>>, NEW f, f = stack'[k][1]
      PROVE  Ends(m)' = {} /\ f.h = First /\ ToldBy(f, m)'
  <2>1. stack[k] # <<>>
    BY <1>7
  <2>2. Ends(m) = {} /\ stack[k][1].h = First /\ ToldBy(stack[k][1], m)
    BY <1>7, <2>1 DEF AnswerInv
  <2>3. k \in Goroutines /\ 1 \in DOMAIN stack[k] /\ 1 \in DOMAIN stack'[k]
    BY <1>5, <1>7, <2>1
  <2>4. CASE k = g /\ n = 1 /\ stack'[k][1] = e
    BY <1>1, <1>2, <1>7, <2>2, <2>4
  <2>5. CASE stack'[k][1] = stack[k][1] /\ <<k, 1>> # <<g, n>>
    <3>1. f = stack[k][1] /\ (g # <<m, "main">> \/ n # 1)
      BY <1>7, <2>5
    <3>2. ToldBy(f, m)'
      BY <1>4, <2>2, <3>1
    <3>3. QED
      BY <1>2, <2>2, <3>1, <3>2
  <2>6. QED
    BY <2>3, <2>4, <2>5 DEF Changes
<1>8. QED
  BY <1>6, <1>7 DEF AnswerInv

(* Steps outside of the built-ins, whatever they say.                      *)
LEMMA OutsideStep ==
  ASSUME ActionsInv, NEW g \in Goroutines, stack[g] # <<>>, NEW f, f = Top(g), NEW e, Becomes(g, e),
         e \in Frames, FrameFits(e), e.h = f.h, f.pc \notin {"lock", "run"}, e.pc \notin {"lock", "run"},
         UNCHANGED <<config, missing, reg, chat, stored, there, clock>>,
         LogKeeps(Counted),
         LET n == Len(stack[g]) IN
         \/ log' = log
         \/ \E x \in Entries : /\ log' = Append(log, x) /\ x.what # "end"
                               /\ x.depth = n /\ g = <<x.m, "main">>,
         \A m \in Inbox : g = <<m, "main">> /\ Len(stack[g]) = 1 => ToldBy(e, m)'
  PROVE  ActionsInv'
<1> DEFINE n == Len(stack[g])
<1>1. /\ Changes(g, n, e) /\ n \in DOMAIN stack[g] /\ n \in DOMAIN stack'[g]
      /\ stack[g][n] = f /\ stack'[g][n] = e
      /\ f \in Frames /\ FrameFits(f)
      /\ config \in Setups /\ log \in Seq(Entries) /\ f.h \in HandlerNames
      /\ stack \in [Goroutines -> Seq(Frames)] /\ stack' \in [Goroutines -> Seq(Frames)]
      /\ \A m \in Inbox : stack'[<<m, "main">>] = <<>> <=> stack[<<m, "main">>] = <<>>
      /\ MutexInv' /\ StackInv'
  BY GoesOn
<1>13. /\ log' = log \/ \E x \in Entries : /\ log' = Append(log, x) /\ x.what # "end"
                                           /\ x.depth = n /\ g = <<x.m, "main">>
       /\ \A m \in Inbox : g = <<m, "main">> /\ n = 1 => ToldBy(e, m)'
  OBVIOUS
<1> HIDE DEF n
<1>3. AnswerInv'
  <2>1. AnswerInv
    BY DEF ActionsInv
  <2>2. QED
    BY ONLY <1>1, <1>13, <2>1, AnswerMoved
<1>4. /\ \A b, p : Runner(e, b, p) = FALSE /\ Runner(f, b, p) = FALSE
      /\ \A b, p : Runner(e, b, p)' = FALSE
  BY DEF Runner
<1>5. /\ Fresher(e, g[1])'
      /\ \A h \in HandlerNames : Rotating(e, h) = FALSE /\ Rotating(f, h) = FALSE
      /\ \A h \in HandlerNames, c \in ToSet(Pool) : Spreading(e, h, c) = FALSE /\ Spreading(f, h, c) = FALSE
  BY <1>4 DEF Fresher, Rotating, Spreading
<1>6. WritesSame(stack[g][n], e)
  BY <1>1, <1>5 DEF WritesSame
<1>7. UNCHANGED <<config, missing, reg, chat, there, clock>> /\ stored' \in BOOLEAN /\ LogKeeps(Counted)
  BY DEF ActionsInv, TypeInv
<1>8. QED
  BY ONLY ActionsInv, <1>1, <1>3, <1>5, <1>6, <1>7, QuietChange

-----------------------------------------------------------------------------
(* The frame a message came in with.                                       *)
LEMMA AtBottom ==
  ASSUME ActionsInv, NEW m \in Inbox, NEW g, g = <<m, "main">>, Len(stack[g]) = 1, NEW f, f = Top(g)
  PROVE  Ends(m) = {} /\ f.h = First /\ ToldBy(f, m) /\ g \in Goroutines /\ stack[g] # <<>> /\ g[1] = m
<1>1. g \in Goroutines /\ g[1] = m
  BY DEF Goroutines
<1>2. stack[g] # <<>> /\ Top(g) = stack[g][1]
  BY DEF Top, Last
<1>3. QED
  BY <1>1, <1>2 DEF ActionsInv, AnswerInv

(* What is sent, or not, by a main goroutine and by a shadow.              *)
LEMMA SentNotes ==
  ASSUME ActionsInv, NEW g \in Goroutines, stack[g] # <<>>, NEW what \in Kinds \ {"end"},
         Sent(g, what)
  PROVE  \/ log' = log /\ g[2] # "main"
         \/ \E x \in Entries :
              /\ log' = Append(log, x) /\ x.what = what /\ x.what # "end" /\ x.h = Top(g).h
              /\ x.depth = Len(stack[g]) /\ g = <<x.m, "main">>
<1>1. CASE g[2] = "aside"
  BY <1>1 DEF Sent
<1>2. CASE g[2] # "aside"
  <2>1. 0 \in Vals
    BY DEF Vals, Gots
  <2>2. log' = Append(log, Note(g, what, 0))
    BY <1>2 DEF Sent, Logs
  <2>3. g = <<g[1], "main">>
    BY <1>2 DEF Goroutines
  <2>4. QED
    BY <2>1, <2>2, <2>3, Noted
<1>3. QED
  BY <1>1, <1>2

(* How the answer goes on from a frame that has told nothing.              *)
LEMMA FirstTold ==
  ASSUME log \in Seq(Entries), config' = config, NEW m,
         Sendings(m, "reply") = {}, Sendings(m, "error") = {}
  PROVE  /\ log' = log => \A how : (how = "ok" => ~Owes(First)) /\ (how = "fail" => ~config[First].onError)
              => Told(m, how)'
         /\ \A x \in Entries : log' = Append(log, x) /\ x.h = First /\ x.m = m /\ x.depth = 1 =>
              /\ x.what = "reply" /\ Owes(First) => Told(m, "ok")'
              /\ x.what = "error" /\ config[First].onError => Told(m, "fail")'
<1>1. Owes(First)' = Owes(First)
  BY SameConfig
<1>2. ASSUME log' = log, NEW how, how = "ok" => ~Owes(First), how = "fail" => ~config[First].onError
      PROVE  Told(m, how)'
  <2>1. Sendings(m, "reply")' = {} /\ Sendings(m, "error")' = {}
    BY <1>2 DEF Sendings, Logged
  <2>2. QED
    BY <1>1, <1>2, <2>1, FS_EmptySet DEF Told
<1>3. ASSUME NEW x \in Entries, log' = Append(log, x), x.h = First, x.m = m, x.depth = 1,
             x.what = "reply", Owes(First)
      PROVE  Told(m, "ok")'
  <2>1. Sendings(m, "reply")' = {Len(log) + 1} /\ Sendings(m, "error")' = {}
    BY <1>3, SendingsGrow
  <2>2. QED
    BY <1>1, <1>3, <2>1, FS_EmptySet, FS_Singleton DEF Told
<1>4. ASSUME NEW x \in Entries, log' = Append(log, x), x.h = First, x.m = m, x.depth = 1,
             x.what = "error", config[First].onError
      PROVE  Told(m, "fail")'
  <2>1. Sendings(m, "error")' = {Len(log) + 1} /\ Sendings(m, "reply")' = {}
    BY <1>4, SendingsGrow
  <2>2. QED
    BY <1>1, <1>4, <2>1, FS_EmptySet, FS_Singleton DEF Told
<1>5. QED
  BY <1>2, <1>3, <1>4

(* A frame that changes where it is and how it went.                       *)
LEMMA Turned ==
  ASSUME NEW f \in Frames, FrameFits(f), NEW e,
         \/ e = [f EXCEPT !.pc = "all", !.how = "fail"]
         \/ \E w \in Hows : e = [f EXCEPT !.pc = "return", !.how = w]
  PROVE  e \in Frames /\ FrameFits(e) /\ e.h = f.h
<1>1. /\ e \in Frames /\ e.h = f.h /\ e.try = f.try /\ e.at = f.at /\ e.ip = f.ip
      /\ (e.pc = "all" /\ e.how = "fail") \/ e.pc = "return"
  BY DEF Frames, Pcs, Hows
<1>2. StepOf(e) = StepOf(f) /\ Script(e) = Script(f)
  BY <1>1, SamePlace
<1>3. FrameFits(e)
  BY <1>1, <1>2 DEF FrameFits, Stands
<1>4. QED
  BY <1>1, <1>3

(* A frame whose place alone changes keeps how it went.                    *)
LEMMA TurnedFrom ==
  ASSUME NEW f \in Frames, NEW p, NEW e, e = [f EXCEPT !.pc = p]
  PROVE  e = [f EXCEPT !.pc = p, !.how = f.how]
BY DEF Frames

(* The handler's own respond.                                              *)
LEMMA ReplyKeeps ==
  ASSUME ActionsInv, NEW g \in Goroutines, Reply(g)
  PROVE  ActionsInv'
<1>1. PICK f : f = Top(g)
  OBVIOUS
<1>2. /\ stack[g] # <<>> /\ f.pc = "reply" /\ UNCHANGED <<config, missing, reg, chat, stored, there, clock>>
      /\ \/ Becomes(g, [f EXCEPT !.pc = "return"]) /\ Sent(g, "reply")
         \/ Becomes(g, [f EXCEPT !.pc = "return", !.how = "unsent"]) /\ log' = log
  BY <1>1 DEF Reply, Is, shared
<1>3. f \in Frames /\ FrameFits(f) /\ config \in Setups /\ f.how = "ok" /\ log \in Seq(Entries) /\ Owes(f.h)
  <2>1. f \in Frames /\ FrameFits(f) /\ Stands(f) /\ config \in Setups /\ f.how = "ok" /\ log \in Seq(Entries)
    BY <1>1, <1>2, AtTop
  <2>2. QED
    BY <1>2, <2>1 DEF Stands
<1>4. ASSUME NEW m \in Inbox, g = <<m, "main">>, Len(stack[g]) = 1
      PROVE  f.h = First /\ Sendings(m, "reply") = {} /\ Sendings(m, "error") = {}
  <2>1. f.h = First /\ ToldBy(f, m)
    BY <1>1, <1>4, AtBottom
  <2>2. QED
    BY <1>2, <2>1 DEF ToldBy
<1>5. {"reply", "error"} \cap Counted = {} /\ "reply" \in Kinds \ {"end"}
  BY DEF Kinds, Counted
<1>6. CASE Becomes(g, [f EXCEPT !.pc = "return"]) /\ Sent(g, "reply")
  <2>1. PICK e : e = [f EXCEPT !.pc = "return", !.how = "ok"]
    OBVIOUS
  <2>2. Becomes(g, e)
    BY <1>3, <1>6, <2>1, TurnedFrom
  <2>3. e \in Frames /\ FrameFits(e) /\ e.h = f.h /\ e.pc = "return" /\ e.how = "ok"
    <3>1. \E w \in Hows : e = [f EXCEPT !.pc = "return", !.how = w]
      BY <2>1 DEF Hows
    <3>2. e.pc = "return" /\ e.how = "ok"
      BY <1>3, <2>1 DEF Frames
    <3>3. QED
      BY <1>3, <3>1, <3>2, Turned
  <2>4. \/ log' = log /\ g[2] # "main"
        \/ \E x \in Entries :
             /\ log' = Append(log, x) /\ x.what = "reply" /\ x.what # "end" /\ x.h = f.h
             /\ x.depth = Len(stack[g]) /\ g = <<x.m, "main">>
    BY ONLY ActionsInv, g \in Goroutines, <1>1, <1>2, <1>5, <1>6, SentNotes
  <2>5. LogKeeps(Counted)
    BY <1>5, <2>4 DEF LogKeeps
  <2>6. ASSUME NEW m \in Inbox, g = <<m, "main">>, Len(stack[g]) = 1
        PROVE  ToldBy(e, m)'
    <3>1. PICK x \in Entries :
            log' = Append(log, x) /\ x.what = "reply" /\ x.h = First /\ x.depth = 1 /\ x.m = m
      BY <1>4, <2>4, <2>6
    <3>2. Told(m, "ok")'
      BY ONLY <1>2, <1>3, <1>4, <2>6, <3>1, FirstTold
    <3>3. QED
      BY <2>3, <3>2 DEF ToldBy
  <2>7. \/ log' = log
        \/ \E x \in Entries : /\ log' = Append(log, x) /\ x.what # "end"
                              /\ x.depth = Len(stack[g]) /\ g = <<x.m, "main">>
    BY <2>4
  <2>8. f.pc \notin {"lock", "run"} /\ e.pc \notin {"lock", "run"}
    BY <1>2, <2>3
  <2>9. QED
    BY ONLY ActionsInv, g \in Goroutines, <1>1, <1>2, <2>2, <2>3, <2>5, <2>6, <2>7, <2>8, OutsideStep
<1>7. CASE Becomes(g, [f EXCEPT !.pc = "return", !.how = "unsent"]) /\ log' = log
  <2>1. PICK e : e = [f EXCEPT !.pc = "return", !.how = "unsent"]
    OBVIOUS
  <2>3. Becomes(g, e) /\ e \in Frames /\ FrameFits(e) /\ e.h = f.h /\ e.pc = "return" /\ e.how = "unsent"
    <3>1. \E w \in Hows : e = [f EXCEPT !.pc = "return", !.how = w]
      BY <2>1 DEF Hows
    <3>2. e.pc = "return" /\ e.how = "unsent" /\ Becomes(g, e)
      BY <1>3, <1>7, <2>1 DEF Frames
    <3>3. QED
      BY <1>3, <3>1, <3>2, Turned
  <2>5. LogKeeps(Counted)
    BY <1>7 DEF LogKeeps
  <2>6. ASSUME NEW m \in Inbox, g = <<m, "main">>, Len(stack[g]) = 1
        PROVE  ToldBy(e, m)'
    <3>1. /\ log \in Seq(Entries) /\ config' = config /\ log' = log
          /\ Sendings(m, "reply") = {} /\ Sendings(m, "error") = {}
      BY <1>2, <1>3, <1>4, <1>7, <2>6
    <3>2. Told(m, "unsent")'
      BY ONLY <3>1, FirstTold
    <3>3. QED
      BY <2>3, <3>2 DEF ToldBy
  <2>8. f.pc \notin {"lock", "run"} /\ e.pc \notin {"lock", "run"}
    BY <1>2, <2>3
  <2>9. QED
    BY ONLY ActionsInv, g \in Goroutines, <1>1, <1>2, <1>7, <2>3, <2>5, <2>6, <2>8, OutsideStep
<1>8. QED
  BY <1>2, <1>6, <1>7

(* The handler's error message.                                            *)
LEMMA HandlerErrorKeeps ==
  ASSUME ActionsInv, NEW g \in Goroutines, executeHandlerError(g)
  PROVE  ActionsInv'
<1>1. PICK f : f = Top(g)
  OBVIOUS
<1>2. /\ stack[g] # <<>> /\ f.pc = "own" /\ UNCHANGED <<config, missing, reg, chat, stored, there, clock>>
      /\ Becomes(g, [f EXCEPT !.pc = "all"])
      /\ (config[f.h].onError /\ Sent(g, "error")) \/ (~config[f.h].onError /\ log' = log)
  BY <1>1 DEF executeHandlerError, Is, shared
<1>3. f \in Frames /\ FrameFits(f) /\ config \in Setups /\ f.how = "fail" /\ log \in Seq(Entries)
  <2>1. f \in Frames /\ FrameFits(f) /\ Stands(f) /\ config \in Setups /\ log \in Seq(Entries)
    BY <1>1, <1>2, AtTop
  <2>2. QED
    BY <1>2, <2>1 DEF Stands
<1>4. ASSUME NEW m \in Inbox, g = <<m, "main">>, Len(stack[g]) = 1
      PROVE  f.h = First /\ Sendings(m, "reply") = {} /\ Sendings(m, "error") = {}
  <2>1. f.h = First /\ ToldBy(f, m)
    BY <1>1, <1>4, AtBottom
  <2>2. QED
    BY <1>2, <2>1 DEF ToldBy
<1>5. {"reply", "error"} \cap Counted = {} /\ "error" \in Kinds \ {"end"}
  BY DEF Kinds, Counted
<1>6. PICK e : e = [f EXCEPT !.pc = "all", !.how = "fail"]
  OBVIOUS
<1>7. Becomes(g, e)
  BY <1>2, <1>3, <1>6, TurnedFrom
<1>8. e \in Frames /\ FrameFits(e) /\ e.h = f.h /\ e.pc = "all" /\ e.how = "fail"
  <2>1. e.pc = "all" /\ e.how = "fail"
    BY <1>3, <1>6 DEF Frames
  <2>2. QED
    BY <1>3, <1>6, <2>1, Turned
<1>9. config[f.h].onError =>
        \/ log' = log /\ g[2] # "main"
        \/ \E x \in Entries :
             /\ log' = Append(log, x) /\ x.what = "error" /\ x.what # "end" /\ x.h = f.h
             /\ x.depth = Len(stack[g]) /\ g = <<x.m, "main">>
  BY ONLY ActionsInv, g \in Goroutines, <1>1, <1>2, <1>5, SentNotes
<1>10. LogKeeps(Counted)
  BY <1>2, <1>5, <1>9 DEF LogKeeps
<1>11. ASSUME NEW m \in Inbox, g = <<m, "main">>, Len(stack[g]) = 1
       PROVE  ToldBy(e, m)'
  <2>1. CASE config[f.h].onError
    <3>1. PICK x \in Entries :
            log' = Append(log, x) /\ x.what = "error" /\ x.h = First /\ x.depth = 1 /\ x.m = m
      BY <1>4, <1>9, <1>11, <2>1
    <3>2. Told(m, "fail")'
      BY ONLY <1>2, <1>3, <1>4, <1>11, <2>1, <3>1, FirstTold
    <3>3. QED
      BY <1>8, <3>2 DEF ToldBy
  <2>2. CASE ~config[f.h].onError
    <3>1. Told(m, "fail")'
      BY <1>2, <1>3, <1>4, <1>11, <2>2, FirstTold
    <3>2. QED
      BY <1>8, <3>1 DEF ToldBy
  <2>3. QED
    BY <2>1, <2>2
<1>12. \/ log' = log
       \/ \E x \in Entries : /\ log' = Append(log, x) /\ x.what # "end"
                             /\ x.depth = Len(stack[g]) /\ g = <<x.m, "main">>
  BY <1>2, <1>9
<1>13. f.pc \notin {"lock", "run"} /\ e.pc \notin {"lock", "run"}
  BY <1>2, <1>8
<1>14. QED
  BY ONLY ActionsInv, g \in Goroutines, <1>1, <1>2, <1>7, <1>8, <1>10, <1>11, <1>12, <1>13, OutsideStep

(* The on_error hooks of all handlers.                                     *)
LEMMA HandleErrorKeeps ==
  ASSUME ActionsInv, NEW g \in Goroutines, HandleError(g)
  PROVE  ActionsInv'
<1>1. PICK f : f = Top(g)
  OBVIOUS
<1>2. /\ stack[g] # <<>> /\ f.pc = "all" /\ UNCHANGED <<config, missing, reg, chat, stored, there, clock>>
      /\ Becomes(g, [f EXCEPT !.pc = "return"])
      /\ Sent(g, "hook") \/ log' = log
  BY <1>1 DEF HandleError, Is, shared
<1>3. f \in Frames /\ FrameFits(f) /\ config \in Setups /\ f.how = "fail" /\ log \in Seq(Entries)
  <2>1. f \in Frames /\ FrameFits(f) /\ Stands(f) /\ config \in Setups /\ log \in Seq(Entries)
    BY <1>1, <1>2, AtTop
  <2>2. QED
    BY <1>2, <2>1 DEF Stands
<1>4. ASSUME NEW m \in Inbox, g = <<m, "main">>, Len(stack[g]) = 1
      PROVE  Told(m, "fail")
  <2>1. f.h = First /\ ToldBy(f, m)
    BY <1>1, <1>4, AtBottom
  <2>2. QED
    BY <1>2, <2>1 DEF ToldBy
<1>5. "hook" \notin Counted /\ "hook" \in Kinds \ {"end"}
  BY DEF Kinds, Counted
<1>6. PICK e : e = [f EXCEPT !.pc = "return", !.how = "fail"]
  OBVIOUS
<1>7. Becomes(g, e)
  BY <1>2, <1>3, <1>6, TurnedFrom
<1>8. e \in Frames /\ FrameFits(e) /\ e.h = f.h /\ e.pc = "return" /\ e.how = "fail"
  <2>1. \E w \in Hows : e = [f EXCEPT !.pc = "return", !.how = w]
    BY <1>6 DEF Hows
  <2>2. e.pc = "return" /\ e.how = "fail"
    BY <1>3, <1>6 DEF Frames
  <2>3. QED
    BY <1>3, <2>1, <2>2, Turned
<1>9. \/ log' = log
      \/ \E x \in Entries :
           /\ log' = Append(log, x) /\ x.what = "hook" /\ x.what # "end" /\ x.h = f.h
           /\ x.depth = Len(stack[g]) /\ g = <<x.m, "main">>
  BY ONLY ActionsInv, g \in Goroutines, <1>1, <1>2, <1>5, SentNotes
<1>10. LogKeeps(Counted)
  BY <1>5, <1>9 DEF LogKeeps
<1>11. ASSUME NEW m \in Inbox, g = <<m, "main">>, Len(stack[g]) = 1
       PROVE  ToldBy(e, m)'
  <2>1. Sendings(m, "reply")' = Sendings(m, "reply") /\ Sendings(m, "error")' = Sendings(m, "error")
    <3>1. CASE log' = log
      BY <3>1 DEF Sendings, Logged
    <3>2. ASSUME NEW x \in Entries, log' = Append(log, x), x.what = "hook"
          PROVE  Sendings(m, "reply")' = Sendings(m, "reply") /\ Sendings(m, "error")' = Sendings(m, "error")
      BY <1>3, <3>2, SendingsGrow
    <3>3. QED
      BY <1>9, <3>1, <3>2
  <2>2. Told(m, "fail")'
    BY <1>2, <1>4, <1>11, <2>1, SameConfig DEF Told
  <2>3. QED
    BY <1>8, <2>2 DEF ToldBy
<1>12. \/ log' = log
       \/ \E x \in Entries : /\ log' = Append(log, x) /\ x.what # "end"
                             /\ x.depth = Len(stack[g]) /\ g = <<x.m, "main">>
  BY <1>9
<1>13. f.pc \notin {"lock", "run"} /\ e.pc \notin {"lock", "run"}
  BY <1>2, <1>8
<1>14. QED
  BY ONLY ActionsInv, g \in Goroutines, <1>1, <1>2, <1>7, <1>8, <1>10, <1>11, <1>12, <1>13, OutsideStep

-----------------------------------------------------------------------------
(* Entering a handler and returning from it *)

(* A calm change of a frame that need not be the running one.              *)
LEMMA CalmChange ==
  ASSUME ActionsInv, NEW g, NEW n, NEW f, NEW e, Changes(g, n, e), f = stack[g][n], n \in DOMAIN stack'[g],
         Lands(f, f.got, e) /\ f.pc = "run" /\ Script(f)[f.ip].op \notin Sharing,
         UNCHANGED <<config, missing, reg, chat, stored, there, clock, log>>,
         \A m \in Inbox : stack'[<<m, "main">>] = <<>> <=> stack[<<m, "main">>] = <<>>,
         MutexInv', StackInv'
  PROVE  ActionsInv'
<1>1. /\ config \in Setups /\ log \in Seq(Entries) /\ stack \in [Goroutines -> Seq(Frames)]
      /\ g \in Goroutines /\ n \in DOMAIN stack[g] /\ e.h = f.h
  BY DEF ActionsInv, TypeInv, Changes, Lands
<1>2. f \in Frames /\ FrameFits(f) /\ (IsSerial(f.h) => Fresher(f, g[1]))
  <2>1. stack[g] \in Seq(Frames)
    BY <1>1
  <2>2. f \in Frames
    BY <1>1, <2>1, MemberOf
  <2>3. QED
    BY <1>1, <2>2 DEF ActionsInv, StackInv, ReadInv
<1>3. /\ IsSerial(e.h) => Fresher(e, g[1])'
      /\ \A h \in HandlerNames : Rotating(e, h) = FALSE /\ Rotating(f, h) = FALSE
      /\ \A h \in HandlerNames, c \in ToSet(Pool) : Spreading(e, h, c) = FALSE /\ Spreading(f, h, c) = FALSE
  BY <1>1, <1>2, CalmFrame
<1>4. LogKeeps(Counted) /\ LogKeeps(Shared)
  BY DEF LogKeeps
<1>5. AnswerInv'
  <2>1. AnswerInv /\ {"reply", "error", "end"} \subseteq Shared
    BY DEF ActionsInv, Shared
  <2>2. Untold(e) /\ f.pc \notin {"return", "all"}
    BY <1>1 DEF Lands, Untold
  <2>3. QED
    BY <1>1, <1>4, <2>1, <2>2, AnswerKept
<1>6. WritesSame(stack[g][n], e)
  BY <1>3 DEF WritesSame
<1>7. stored' \in BOOLEAN /\ UNCHANGED <<config, missing, reg, chat, there, clock>>
  BY DEF ActionsInv, TypeInv
<1>8. QED
  BY <1>3, <1>4, <1>5, <1>6, <1>7, QuietChange

(* The last frame goes and the one below it becomes e.                     *)
LEMMA Popped ==
  ASSUME NEW s \in Seq(Frames), s # <<>>, Front(s) # <<>>, NEW e \in Frames
  PROVE  LET t == Append(Front(Front(s)), e)
             n == Len(s) - 1 IN
         /\ n \in Nat /\ n # 0 /\ Len(s) = n + 1 /\ DOMAIN s = 1..n + 1 /\ Last(Front(s)) = s[n]
         /\ Last(s) = s[n + 1]
         /\ t \in Seq(Frames) /\ Len(t) = n /\ DOMAIN t = 1..n /\ t[n] = e
         /\ \A i \in 1..n : i # n => t[i] = s[i]
<1> DEFINE r == Front(s)
           n == Len(s) - 1
           t == Append(Front(r), e)
<1>1. Len(s) \in Nat /\ Len(s) # 0 /\ DOMAIN s = 1..Len(s)
  BY EmptySeq, LenProperties
<1>2. /\ r \in Seq(Frames) /\ Len(r) = n /\ \A i \in 1..n : r[i] = s[i]
      /\ n \in Nat /\ Last(s) = s[Len(s)]
  BY <1>1 DEF Front, Last
<1> HIDE DEF r
<1>3. r # <<>>
  BY DEF r
<1>4. LET u == Append(Front(r), e) IN
      /\ Len(r) \in Nat /\ Len(r) # 0 /\ Last(r) = r[Len(r)]
      /\ u \in Seq(Frames) /\ Len(u) = Len(r) /\ DOMAIN u = 1..Len(r) /\ u[Len(r)] = e
      /\ \A i \in 1..Len(r) : i # Len(r) => u[i] = r[i]
  BY <1>2, <1>3, TopReplaced
<1> HIDE DEF t
<1>5. /\ n # 0 /\ Last(r) = s[n] /\ t \in Seq(Frames) /\ Len(t) = n /\ DOMAIN t = 1..n /\ t[n] = e
      /\ \A i \in 1..n : i # n => t[i] = s[i]
  <2>1. /\ Len(r) # 0 /\ Last(r) = r[n] /\ t \in Seq(Frames) /\ Len(t) = n /\ DOMAIN t = 1..n /\ t[n] = e
        /\ \A i \in 1..n : i # n => t[i] = r[i]
    BY <1>2, <1>4 DEF t
  <2>2. n \in 1..n
    BY <1>2, <2>1
  <2>3. QED
    BY <1>2, <2>1, <2>2
<1>6. Len(s) = n + 1
  BY <1>1
<1>7. QED
  BY <1>1, <1>2, <1>5, <1>6 DEF r, t

(* An inner handler returns to the built-in it is inside of.               *)
LEMMA ReturnInside ==
  ASSUME ActionsInv, NEW g \in Goroutines, Return(g), Front(stack[g]) # <<>>
  PROVE  ActionsInv'
<1>1. PICK s : s = stack[g]
  OBVIOUS
<1>2. PICK o : o = Last(Front(s))
  OBVIOUS
<1>3. PICK f : f = Top(g)
  OBVIOUS
<1>4. PICK e : e = IF f.how = "ok" THEN Passed(o) ELSE Stepped(o, Outcome(f.how))
  OBVIOUS
<1>5. PICK n : n = Len(s) - 1
  OBVIOUS
<1>6. /\ s # <<>> /\ f.pc = "return" /\ Front(s) # <<>>
      /\ stack' = [stack EXCEPT ![g] = Append(Front(Front(s)), e)]
      /\ UNCHANGED <<config, missing, reg, chat, stored, there, clock, log>>
  BY <1>1, <1>2, <1>3, <1>4 DEF Return, Is, shared
<1>7. /\ config \in Setups /\ stack \in [Goroutines -> Seq(Frames)] /\ s \in Seq(Frames)
      /\ StackInv /\ MutexInv
  BY <1>1 DEF ActionsInv, TypeInv
<1>8. /\ Len(s) \in Nat /\ Len(s) = n + 1 /\ n \in Nat /\ n # 0 /\ DOMAIN s = 1..Len(s)
      /\ o = s[n] /\ f = s[n + 1]
  <2>1. /\ Len(s) \in Nat /\ Len(s) # 0 /\ DOMAIN s = 1..Len(s) /\ Last(s) = s[Len(s)]
    BY <1>6, <1>7, EmptySeq, LenProperties DEF Last
  <2>2. Len(s) # 1
    <3>1. Len(s) = 1 => Front(s) = <<>>
      BY DEF Front
    <3>2. QED
      BY <1>6, <3>1
  <2>3. n \in Nat /\ n # 0 /\ Len(s) = n + 1
    BY <1>5, <2>1, <2>2
  <2>4. o = s[n]
    <3>1. Front(s) \in Seq(Frames) /\ Len(Front(s)) = n /\ \A i \in 1..n : Front(s)[i] = s[i]
      BY <1>5, <1>7, <2>1, <2>3 DEF Front
    <3>2. QED
      BY <1>2, <2>3, <3>1 DEF Last
  <2>5. QED
    BY <1>1, <1>3, <2>1, <2>3, <2>4 DEF Top
<1>9. o \in Frames /\ FrameFits(o) /\ o.pc = "run" /\ Script(o)[o.ip].op = "enter"
  <2>1. n \in DOMAIN stack[g] /\ n < Len(stack[g]) /\ stack[g][n] = o
    BY <1>1, <1>8
  <2>2. o \in Frames
    BY <1>1, <1>7, <2>1, MemberOf
  <2>3. QED
    BY <1>7, <2>1, <2>2 DEF StackInv
<1>10. Lands(o, o.got, e)
  <2>1. "enter" \notin Sharing
    BY DEF Sharing
  <2>2. Lands(o, o.got, Passed(o))
    BY <1>7, <1>9, <2>1, PassesLands
  <2>3. Stands(o) /\ o.how = "ok"
    BY <1>9 DEF FrameFits, Stands
  <2>4. Outcome(f.how) \in {"ok", "fail", "drop", "limit"}
    BY DEF Outcome
  <2>5. Lands(o, o.got, Stepped(o, Outcome(f.how)))
    BY <1>7, <1>9, <2>3, <2>4, SteppedLands
  <2>6. QED
    BY <1>4, <2>2, <2>5
<1>11. e \in Frames /\ FrameFits(e) /\ e.h = o.h /\ e.pc # "lock"
  BY <1>10 DEF Lands
<1>12. PICK t : t = Append(Front(Front(s)), e)
  OBVIOUS
<1>13. /\ t \in Seq(Frames) /\ Len(t) = n /\ DOMAIN t = 1..n /\ t[n] = e
       /\ \A i \in 1..n : i # n => t[i] = s[i]
  BY <1>5, <1>6, <1>7, <1>11, <1>12, Popped
<1>14. /\ stack' \in [Goroutines -> Seq(Frames)] /\ stack'[g] = t
       /\ \A k \in Goroutines : k # g => stack'[k] = stack[k]
  BY <1>6, <1>7, <1>12, <1>13, StackOf
<1>15. /\ n \in DOMAIN stack[g] /\ n \in DOMAIN stack'[g] /\ n \in 1..n /\ stack[g][n] = o
       /\ DOMAIN stack[g] = 1..n + 1 /\ stack[g][n + 1] = f
  BY <1>1, <1>8, <1>13, <1>14
<1>16. ASSUME NEW k \in Goroutines, NEW i \in DOMAIN stack'[k]
       PROVE  /\ i \in DOMAIN stack[k]
              /\ \/ stack'[k][i] = stack[k][i] /\ <<k, i>> # <<g, n>>
                 \/ k = g /\ i = n /\ stack'[k][i] = e
  <2>1. CASE k # g
    BY <1>14, <1>16, <2>1
  <2>2. CASE k = g
    <3>1. i \in 1..n
      BY <1>13, <1>14, <1>16, <2>2
    <3>2. i \in DOMAIN stack[g]
      BY <1>8, <1>15, <3>1
    <3>3. QED
      BY <1>1, <1>13, <1>14, <2>2, <3>1, <3>2
  <2>3. QED
    BY <2>1, <2>2
<1>17. ASSUME NEW k \in Goroutines, NEW i \in DOMAIN stack[k]
       PROVE  i \in DOMAIN stack'[k] \/ stack[k][i].pc = "return"
  <2>1. CASE k # g
    BY <1>14, <1>17, <2>1
  <2>2. CASE k = g
    <3>1. i \in 1..n \/ i = n + 1
      BY <1>8, <1>15, <1>17, <2>2
    <3>2. QED
      BY <1>6, <1>13, <1>14, <1>15, <2>2, <3>1
  <2>3. QED
    BY <2>1, <2>2
<1>18. Changes(g, n, e)
  BY <1>6, <1>11, <1>14, <1>15, <1>16, <1>17 DEF Changes
<1>19. MutexInv'
  BY <1>7, <1>9, <1>15, <1>18, MutexKept
<1>20. StackInv'
  <2>1. ASSUME NEW k \in Goroutines, NEW i \in DOMAIN stack'[k], i < Len(stack'[k])
        PROVE  i \in DOMAIN stack[k] /\ i < Len(stack[k]) /\ stack'[k][i] = stack[k][i]
    <3>1. CASE k # g
      BY <1>14, <2>1, <3>1
    <3>2. CASE k = g
      <4>1. i \in 1..n /\ i < n /\ Len(stack[g]) = n + 1
        BY <1>1, <1>8, <1>13, <1>14, <2>1, <3>2
      <4>2. i < n + 1 /\ i # n
        BY <1>8, <4>1
      <4>3. QED
        BY <1>16, <2>1, <3>2, <4>1, <4>2
    <3>3. QED
      BY <3>1, <3>2
  <2>2. QED
    BY <1>7, <1>18, <2>1, StackKept
<1>21. ASSUME NEW m \in Inbox
       PROVE  stack'[<<m, "main">>] = <<>> <=> stack[<<m, "main">>] = <<>>
  <2>1. PICK k : k = <<m, "main">>
    OBVIOUS
  <2>2. k \in Goroutines
    BY <2>1 DEF Goroutines
  <2>3. CASE k = g
    <3>1. Len(t) # 0
      BY <1>8, <1>13
    <3>2. t # <<>>
      BY <3>1
    <3>3. QED
      BY <1>1, <1>6, <1>14, <2>1, <2>3, <3>2
  <2>4. CASE k # g
    BY <1>14, <2>1, <2>2, <2>4
  <2>5. QED
    BY <2>3, <2>4
<1>22. "enter" \notin Sharing
  BY DEF Sharing
<1>23. QED
  BY <1>6, <1>9, <1>10, <1>15, <1>18, <1>19, <1>20, <1>21, <1>22, CalmChange

-----------------------------------------------------------------------------
(* A sequence with nothing before its last element.                        *)
LEMMA Single ==
  ASSUME NEW S, NEW s \in Seq(S), s # <<>>, Front(s) = <<>>
  PROVE  Len(s) = 1 /\ DOMAIN s = {1}
<1>1. Len(s) \in Nat /\ Len(s) # 0 /\ DOMAIN s = 1..Len(s)
  BY EmptySeq, LenProperties
<1>2. PICK n \in Nat : n = Len(s)
  BY <1>1
<1>3. Front(s) \in Seq(S) /\ Len(Front(s)) = n - 1
  BY <1>1, <1>2 DEF Front
<1>4. n - 1 = 0
  BY <1>3, EmptySeq
<1>5. n = 1
  BY ONLY <1>4, n \in Nat
<1>6. QED
  BY <1>1, <1>2, <1>5

(* The handler that a goroutine began with is done.                        *)
LEMMA ReturnEnds ==
  ASSUME ActionsInv, NEW g \in Goroutines, Return(g), Front(stack[g]) = <<>>
  PROVE  ActionsInv'
<1>1. PICK f : f = Top(g)
  OBVIOUS
<1>2. PICK x : x = Note(g, "end", [where |-> g[2], how |-> f.how])
  OBVIOUS
<1>3. /\ stack[g] # <<>> /\ f.pc = "return"
      /\ stack' = [stack EXCEPT ![g] = <<>>] /\ log' = Append(log, x)
      /\ UNCHANGED <<config, missing, reg, chat, stored, there, clock>>
  BY <1>1, <1>2 DEF Return, Is, Logs, shared
<1>4. /\ f \in Frames /\ FrameFits(f) /\ config \in Setups /\ log \in Seq(Entries) /\ stack[g] \in Seq(Frames)
      /\ stack \in [Goroutines -> Seq(Frames)] /\ StackInv /\ MutexInv /\ AnswerInv
      /\ (IsSerial(f.h) => Fresher(f, g[1]))
  <2>1. f \in Frames /\ FrameFits(f) /\ config \in Setups /\ log \in Seq(Entries)
        /\ Len(stack[g]) \in DOMAIN stack[g] /\ stack[g][Len(stack[g])] = f
    BY <1>1, <1>3, AtTop
  <2>2. QED
    BY <2>1 DEF ActionsInv, TypeInv, ReadInv
<1>5. Len(stack[g]) = 1 /\ DOMAIN stack[g] = {1} /\ stack[g][1] = f
  <2>1. Len(stack[g]) = 1 /\ DOMAIN stack[g] = {1}
    BY <1>3, <1>4, Single
  <2>2. QED
    BY <1>1, <1>3, <1>4, <2>1 DEF Top, Last
<1>6. x \in Entries /\ x.what = "end" /\ x.m = g[1] /\ x.val.where = g[2] /\ x.val.how = f.how
  <2>1. PICK v : v = [where |-> g[2], how |-> f.how]
    OBVIOUS
  <2>2. v \in Vals /\ v.where = g[2] /\ v.how = f.how
    BY <1>4, <2>1 DEF Vals, Frames, Goroutines
  <2>3. "end" \in Kinds
    BY DEF Kinds
  <2>4. QED
    BY <1>2, <1>3, <2>1, <2>2, <2>3, Noted
<1>7. /\ stack' \in [Goroutines -> Seq(Frames)] /\ stack'[g] = <<>>
      /\ \A k \in Goroutines : k # g => stack'[k] = stack[k]
  <2>1. <<>> \in Seq(Frames)
    OBVIOUS
  <2>2. QED
    BY <1>3, <1>4, <2>1, StackOf
<1>8. Changes(g, 1, f)
  <2>1. \A k \in Goroutines : \A i \in DOMAIN stack'[k] :
          i \in DOMAIN stack[k] /\ stack'[k][i] = stack[k][i] /\ <<k, i>> # <<g, 1>>
    <3>1. ASSUME NEW k \in Goroutines, NEW i \in DOMAIN stack'[k]
          PROVE  k # g
      <4>1. DOMAIN <<>> = {}
        OBVIOUS
      <4>2. QED
        BY <1>7, <3>1, <4>1
    <3>2. QED
      BY <1>7, <3>1
  <2>2. \A k \in Goroutines : \A i \in DOMAIN stack[k] : i \in DOMAIN stack'[k] \/ stack[k][i].pc = "return"
    BY <1>3, <1>5, <1>7
  <2>3. f.pc # "lock"
    BY <1>3
  <2>4. QED
    BY <1>3, <1>4, <1>5, <1>7, <2>1, <2>2, <2>3 DEF Changes
<1>9. MutexInv'
  <2>1. stack[g][1].pc # "lock"
    BY <1>3, <1>5
  <2>2. QED
    BY <1>4, <1>8, <2>1, MutexKept
<1>10. StackInv'
  <2>1. ASSUME NEW k \in Goroutines, NEW i \in DOMAIN stack'[k], i < Len(stack'[k])
        PROVE  i \in DOMAIN stack[k] /\ i < Len(stack[k]) /\ stack'[k][i] = stack[k][i]
    <3>1. DOMAIN <<>> = {}
      OBVIOUS
    <3>2. k # g
      BY <1>7, <2>1, <3>1
    <3>3. QED
      BY <1>7, <2>1, <3>2
  <2>2. QED
    BY <1>4, <1>8, <2>1, StackKept
<1>11. LogKeeps(Counted)
  BY <1>3, <1>6 DEF LogKeeps, Counted
<1>12. /\ Len(log) \in Nat /\ DOMAIN log = 1..Len(log) /\ DOMAIN log' = 1..Len(log) + 1
       /\ log'[Len(log) + 1] = x /\ \A i \in DOMAIN log : log'[i] = log[i]
  BY <1>3, <1>4, <1>6, LogGrows
<1>13. ASSUME NEW m \in Inbox
       PROVE  /\ \A how : Told(m, how)' = Told(m, how)
              /\ \A e : ToldBy(e, m)' = ToldBy(e, m)
              /\ Ends(m)' = IF g = <<m, "main">> THEN Ends(m) \cup {Len(log) + 1} ELSE Ends(m)
              /\ \A i \in Ends(m) : log'[i] = log[i]
  <2>1. Sendings(m, "reply")' = Sendings(m, "reply") /\ Sendings(m, "error")' = Sendings(m, "error")
    BY <1>3, <1>4, <1>6, SendingsGrow
  <2>2. \A how : Told(m, how)' = Told(m, how)
    BY <1>3, <2>1, SameConfig DEF Told
  <2>3. \A e : ToldBy(e, m)' = ToldBy(e, m)
    BY <2>1, <2>2 DEF ToldBy
  <2>4. g = <<m, "main">> <=> x.m = m /\ x.val.where = "main"
    BY <1>6 DEF Goroutines
  <2>5. \A i : i \in DOMAIN log' <=> i \in DOMAIN log \/ i = Len(log) + 1
    BY <1>12
  <2>6. Len(log) + 1 \notin DOMAIN log
    BY <1>12
  <2>7. ASSUME NEW i
        PROVE  i \in Ends(m)' <=> i \in Ends(m) \/ (i = Len(log) + 1 /\ g = <<m, "main">>)
    BY <1>6, <1>12, <2>4, <2>5, <2>6 DEF Ends
  <2>8. Ends(m)' = IF g = <<m, "main">> THEN Ends(m) \cup {Len(log) + 1} ELSE Ends(m)
    BY <2>7
  <2>9. \A i \in Ends(m) : log'[i] = log[i]
    BY <1>12 DEF Ends
  <2>10. QED
    BY <2>2, <2>3, <2>8, <2>9
<1>14. ASSUME NEW m \in Inbox, NEW k, k = <<m, "main">>, stack'[k] = <<>>
       PROVE  \E i \in Ends(m)' : Ends(m)' = {i} /\ Told(m, log[i].val.how)'
  <2>1. k \in Goroutines
    BY <1>14 DEF Goroutines
  <2>2. CASE k = g
    <3>1. Ends(m) = {} /\ ToldBy(f, m)
      BY <1>1, <1>3, <1>5, <1>14, <2>2, AtBottom
    <3>2. Told(m, f.how)'
      BY <1>3, <1>13, <3>1 DEF ToldBy
    <3>3. Ends(m)' = {Len(log) + 1}
      BY <1>13, <1>14, <2>2, <3>1
    <3>4. PICK i : i = Len(log) + 1
      OBVIOUS
    <3>5. log'[i].val.how = f.how /\ Ends(m)' = {i}
      BY <1>6, <1>12, <3>3, <3>4
    <3>6. Told(m, log[i].val.how)'
      BY <3>2, <3>5
    <3>7. QED
      BY <3>5, <3>6
  <2>3. CASE k # g
    <3>1. PICK i \in Ends(m) : Ends(m) = {i} /\ Told(m, log[i].val.how)
      BY <1>4, <1>7, <1>14, <2>1, <2>3 DEF AnswerInv
    <3>2. Ends(m)' = {i} /\ Told(m, log[i].val.how)'
      BY <1>13, <1>14, <2>3, <3>1
    <3>3. QED
      BY <3>2
  <2>4. QED
    BY <2>2, <2>3
<1>15. ASSUME NEW m \in Inbox, NEW k, k = <<m, "main">>, stack'[k] # <<>>, NEW e, e = stack'[k][1]
       PROVE  Ends(m)' = {} /\ e.h = First /\ ToldBy(e, m)'
  <2>1. k \in Goroutines /\ k # g
    BY <1>7, <1>15 DEF Goroutines
  <2>2. Ends(m) = {} /\ e.h = First /\ ToldBy(e, m)
    BY <1>4, <1>7, <1>15, <2>1 DEF AnswerInv
  <2>3. QED
    BY <1>13, <1>15, <2>1, <2>2
<1>16. AnswerInv'
  BY <1>14, <1>15 DEF AnswerInv
<1>17. IsSerial(f.h) => Fresher(f, g[1])'
  <2>1. \A b, p : ~Runner(f, b, p)'
    BY <1>3 DEF Runner
  <2>2. QED
    BY <2>1 DEF Fresher
<1>18. WritesSame(stack[g][1], f)
  BY <1>5 DEF WritesSame
<1>19. stored' \in BOOLEAN /\ UNCHANGED <<config, missing, reg, chat, there, clock>> /\ stack[g][1].pc = "return"
  BY <1>3, <1>5 DEF ActionsInv, TypeInv
<1>20. QED
  BY <1>8, <1>9, <1>10, <1>11, <1>16, <1>17, <1>18, <1>19, QuietChange

===============================================================================

------------------------------- MODULE MCActions -------------------------------
(* Actions for TLC: every built-in once as a concise handler, where it is  *)
(* not in one further down, and those that share state, retry, nest or     *)
(* respond in the forms that matter.                                       *)
EXTENDS Actions

CONSTANTS ha, hb, v1, v2

S(b) == [uses |-> b, responds |-> FALSE, ignore |-> FALSE, streams |-> FALSE, delay |-> FALSE,
         target |-> hb]
H(form, steps) == [form |-> form, steps |-> steps, serial |-> FALSE, retry |-> 0, respond |-> FALSE,
                   onError |-> FALSE, loop |-> FALSE]

(* One action at the top level, with the handler's respond. *)
Single(form, step) ==
  [H(form, <<[step EXCEPT !.responds = TRUE]>>) EXCEPT !.respond = TRUE]

Only(h) == [n \in {ha, hb} |-> IF n = ha THEN h ELSE None]
With(h, k) == [n \in {ha, hb} |-> IF n = ha THEN h ELSE k]
Serial(h) == [h EXCEPT !.serial = TRUE]
Retried(h) == [h EXCEPT !.retry = 1, !.onError = TRUE]

Each == {Only(H("concise", <<S(b)>>)) : b \in DOMAIN builtinRegistry \ {"throttle-broadcast"}}

Counting ==
  {Only(Retried(H("concise", <<S(b)>>))) : b \in {"sample", "sequence"}}
  \cup {Only([H("actions", <<S("sequence"), S("sequence")>>) EXCEPT !.loop = l]) : l \in BOOLEAN}

Storing == {Only(H("actions", <<S(b), S("gate")>>)) : b \in {"kv-set", "kv-del"}}

Keeping ==
  {Only(Retried(Serial(Single("concise", [S(b) EXCEPT !.streams = TRUE])))) :
     b \in {"openai-chat", "lua", "throttle-broadcast"}}
  \cup {Only(Retried(Serial(H("actions", <<[S("ollama-chat") EXCEPT !.responds = TRUE]>>))))}
  \cup {Only(Serial(H("actions", <<S("round-robin"), S("round-robin")>>)))}

Answering ==
  {Only(Retried([H(form, <<[S("shell") EXCEPT !.ignore = TRUE, !.delay = TRUE], S("echo")>>)
                 EXCEPT !.respond = TRUE])) : form \in {"actions", "pipeline"}}
  \cup {Only(Retried(Single("concise", S("shell")))),
        Only(Retried(Serial(Single("script", S("lua"))))), Only(Single("database", S("sqlite")))}

Nesting ==
  {With(Retried([H("actions", <<S(b)>>) EXCEPT !.respond = TRUE, !.serial = TRUE]),
        Retried([H("actions", <<S("send")>>) EXCEPT !.respond = TRUE, !.serial = TRUE])) :
     b \in {"ab-test", "shadow"}}
  \cup {With(H("concise", <<S("ab-test")>>), H("concise", <<S(b)>>)) : b \in {"drop", "rate-limit"}}

MCSetups == Each \cup Storing \cup Counting \cup Keeping \cup Answering \cup Nesting
MCPool == <<v1, v2>>
=============================================================================

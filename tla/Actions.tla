-------------------------------- MODULE Actions --------------------------------
(***************************************************************************)
(* Executing handlers (Execute, executeMainActions, executePipeline and    *)
(* ExecuteAction in internal/handler/dispatcher.go) for several messages   *)
(* of one connection at once, down to the built-ins' own steps and the     *)
(* state they share in the registry (internal/handler/registry.go).        *)
(*                                                                         *)
(* Each message has a goroutine that executes the handler First; shadow    *)
(* gives it a second one. A goroutine is a stack of frames, one for each   *)
(* execution of a handler: ab-test executes a handler inside another.      *)
(*                                                                         *)
(* A handler's form says where its steps come from: one action at the top  *)
(* level, which is "concise" (run or builtin), a "script" (script or file) *)
(* or a "database" (db and sql), or "actions" or a "pipeline". A step      *)
(* names its built-in, or "shell" or "send".                               *)
(***************************************************************************)
EXTENDS Builtins, Naturals, FiniteSets, SequencesExt, Absent

CONSTANTS Inbox,         \* the messages
          HandlerNames,
          First,         \* the handler every message matches
          Setups,        \* configurations: a handler, or None, for every name
          Pool,          \* the clients of round-robin and throttle-broadcast, in order
          Absences,      \* sets of services that may be missing
          Responses,     \* how many responses the sequence has
          Rate,          \* sample lets every Rate-th pass
          Burst,         \* tokens of rate-limit
          MaxHistory,    \* max_history of the chats
          Window,        \* throttle-broadcast, in ticks
          MaxTime,       \* bound: ticks of the clock
          MaxLeaves      \* bound: clients that disconnect

Step == [uses : DOMAIN builtinRegistry, responds : BOOLEAN, ignore : BOOLEAN,
         streams : BOOLEAN, delay : BOOLEAN, target : HandlerNames]

TopLevel == {"concise", "script", "database"}
Forms == TopLevel \cup {"actions", "pipeline"}

IsHandler(h) ==
  /\ h.steps \in Seq(Step) \ {<<>>} /\ h.form \in Forms /\ h.retry \in Nat
  /\ {h.serial, h.respond, h.onError, h.loop} \subseteq BOOLEAN
  /\ h.form \in TopLevel => Len(h.steps) = 1 /\ h.steps[1].responds = h.respond
  /\ h.form = "script" => h.steps[1].uses = "lua"
  /\ h.form = "database" => h.steps[1].uses = "sqlite"

ASSUME ActionsAssumption ==
  /\ First \in HandlerNames
  /\ \A s \in Setups : \A n \in HandlerNames : s[n] # None => IsHandler(s[n])
  /\ \A s \in Setups : s[First] # None
  /\ Pool \in Seq(ToSet(Pool)) \ {<<>>} /\ None \notin ToSet(Pool) \cup Nat
  /\ Responses \in Nat \ {0} /\ Rate \in Nat \ {0}
  /\ {Burst, MaxHistory, Window, MaxTime, MaxLeaves} \subseteq Nat

VARIABLES
  config,   \* the handlers of the registry
  missing,  \* the services this process does not have
  stack,    \* for each goroutine, its frames, the running one last
  reg,      \* for each handler, what the registry keeps for its built-ins
  chat,     \* the conversations of the connection, one per chat built-in
  stored,   \* whether the key is in the key-value store
  clock,
  there,    \* the clients that are connected
  log       \* history: what was sent, taken and kept, in order

shared == <<reg, chat, stored, there>>
actVars == <<config, missing, stack, shared, clock, log>>

Chats == {"ollama-chat", "openai-chat"}
Goroutines == Inbox \X {"main", "aside"}

Frame(h) == [h |-> h, pc |-> "lock", try |-> 0, at |-> 1, ip |-> 1, exit |-> FALSE,
             got |-> None, mute |-> FALSE, how |-> "ok"]

Fresh == [sequence |-> 0, sample |-> 0, rotation |-> 1, limit |-> Burst, state |-> 0,
          last |-> [c \in ToSet(Pool) |-> None]]

(* The services the configuration needs; the others may as well be there. *)
Wanted ==
  {i.on : i \in UNION {ToSet(builtinRegistry[b]) : b \in {step.uses : step \in
             UNION {ToSet(config[n].steps) : n \in {n \in HandlerNames : config[n] # None}}}}}

ActionsInit ==
  /\ config \in Setups /\ missing \in {none \in Absences : none = {} \/ Wanted \cap none # {}}
  /\ stack = [g \in Goroutines |-> IF g[2] = "main" THEN <<Frame(First)>> ELSE <<>>]
  /\ reg = [h \in HandlerNames |-> Fresh]
  /\ chat = [b \in Chats |-> <<>>]
  /\ stored = FALSE
  /\ clock = 0 /\ there = ToSet(Pool)
  /\ log = <<>>

-----------------------------------------------------------------------------
(* Frames *)

Top(g) == Last(stack[g])
Is(g, pc) == stack[g] # <<>> /\ Top(g).pc = pc
Becomes(g, f) == stack' = [stack EXCEPT ![g] = Append(Front(@), f)]

StepOf(f) == config[f.h].steps[f.at]
Script(f) == builtinRegistry[StepOf(f).uses]
Runs(g, op) == Is(g, "run") /\ Script(Top(g))[Top(g).ip].op = op
On(g) == Script(Top(g))[Top(g).ip].on

Note(g, what, val) == [what |-> what, h |-> Top(g).h, m |-> g[1], depth |-> Len(stack[g]), val |-> val]
Logs(g, what, val) == log' = Append(log, Note(g, what, val))

(* At the start of step i. *)
AtStep(f, i) == [f EXCEPT !.at = i, !.ip = 1, !.got = None, !.mute = FALSE,
                          !.pc = IF config[f.h].steps[i].delay THEN "delay" ELSE "run"]

NewAttempt(f) == [AtStep(f, 1) EXCEPT !.try = @ + 1]

(* Mutant: the respond of the handler is sent whatever happened. *)
AttemptedCareless(f, how) ==
  CASE how \in {"drop", "limit"} -> [f EXCEPT !.pc = "return", !.how = how]
    [] how = "fail" /\ f.try <= config[f.h].retry -> [f EXCEPT !.pc = "backoff"]
    [] OTHER -> [f EXCEPT !.pc = "reply", !.how = how]

(* The respond of these is in the copy that is their action. So it is in   *)
(* that of a script, which is missing here and sends it again.             *)
isConcise(h) == h.form \in {"concise", "database"}

(* What follows an attempt, after it went well or not: the handler's own   *)
(* respond, the next attempt, the error hooks, or nothing.                 *)
Attempted(f, how) ==
  CASE how \in {"drop", "limit"} -> [f EXCEPT !.pc = "return", !.how = how]
    [] how = "fail" /\ f.try <= config[f.h].retry -> [f EXCEPT !.pc = "backoff"]
    [] how = "fail" /\ f.try > config[f.h].retry -> [f EXCEPT !.pc = "own", !.how = "fail"]
    [] how = "ok" ->
         LET h == config[f.h] IN
         [f EXCEPT !.pc = IF h.respond /\ ~isConcise(h) THEN "reply" ELSE "return"]

(* What follows a step. A pipeline looks at the exit code, which is that   *)
(* of the last shell step however long ago; of the other forms only a      *)
(* concise one does, after its attempt.                                    *)
Stepped(f, how) ==
  LET h == config[f.h] IN
  IF how # "ok" THEN Attempted(f, how)
  ELSE IF h.form = "pipeline" /\ f.exit /\ ~StepOf(f).ignore THEN Attempted(f, "fail")
  ELSE IF f.at < Len(h.steps) THEN AtStep(f, f.at + 1)
  ELSE Attempted(f, IF h.form = "concise" /\ f.exit THEN "fail" ELSE "ok")

(* What follows the primary action of a step, and one of its instructions. *)
Acted(f) == IF StepOf(f).responds /\ ~f.mute THEN [f EXCEPT !.pc = "respond"] ELSE Stepped(f, "ok")

Passed(f) == IF f.ip = Len(Script(f)) THEN Acted(f) ELSE [f EXCEPT !.ip = @ + 1]

Passes(g) == Becomes(g, Passed(Top(g)))
PassesWith(g, v) == Becomes(g, Passed([Top(g) EXCEPT !.got = v]))
Fails(g) == Becomes(g, Stepped(Top(g), "fail"))

-----------------------------------------------------------------------------
(* The execution of a handler *)

(* The mutex of a serial handler is held from here until Return. *)
Holds(g, n) == \E i \in DOMAIN stack[g] : stack[g][i].h = n /\ stack[g][i].pc # "lock"
(* Mutant: the mutex is not taken. *)
FreeAlways(n) == n \in HandlerNames

Free(n) == ~config[n].serial \/ \A g \in Goroutines : ~Holds(g, n)

Begin(g) ==
  /\ Is(g, "lock") /\ Free(Top(g).h)
  /\ Becomes(g, NewAttempt(Top(g)))
  /\ UNCHANGED <<config, missing, shared, clock, log>>

(* The delay of an action passes, or the context ends. *)
Delay(g) ==
  /\ Is(g, "delay")
  /\ \/ Becomes(g, [Top(g) EXCEPT !.pc = "run"])
     \/ Fails(g)
  /\ UNCHANGED <<config, missing, shared, clock, log>>

(* A shadow's connection takes every write and sends nothing. *)
Sent(g, what) == IF g[2] = "aside" THEN UNCHANGED log ELSE Logs(g, what, 0)

(* The respond of an action is part of it: if it cannot be sent, the       *)
(* action has failed.                                                      *)
Respond(g) ==
  /\ Is(g, "respond")
  /\ \/ Becomes(g, Stepped(Top(g), "ok")) /\ Sent(g, "respond")
     \/ Fails(g) /\ UNCHANGED log
  /\ UNCHANGED <<config, missing, shared, clock>>

Reply(g) ==
  /\ Is(g, "reply")
  /\ \/ /\ Becomes(g, [Top(g) EXCEPT !.pc = "return"])
        /\ Sent(g, "reply")
     \/ /\ Becomes(g, [Top(g) EXCEPT !.pc = "return", !.how = "unsent"])
        /\ UNCHANGED log
  /\ UNCHANGED <<config, missing, shared, clock>>

Retry(g) ==
  /\ Is(g, "backoff")
  /\ \/ Becomes(g, NewAttempt(Top(g)))
     \/ Becomes(g, [Top(g) EXCEPT !.pc = "return", !.how = "cancelled"])
  /\ UNCHANGED <<config, missing, shared, clock, log>>

(* The handler's own error message and on_error, then HandleError: the     *)
(* on_error of every handler. Their failures are only logged.              *)
executeHandlerError(g) ==
  /\ Is(g, "own")
  /\ Becomes(g, [Top(g) EXCEPT !.pc = "all"])
  /\ IF config[Top(g).h].onError THEN Sent(g, "error") ELSE UNCHANGED log
  /\ UNCHANGED <<config, missing, shared, clock>>

HandleError(g) ==
  /\ Is(g, "all")
  /\ Becomes(g, [Top(g) EXCEPT !.pc = "return"])
  /\ IF \E n \in HandlerNames : config[n] # None /\ config[n].onError
     THEN Sent(g, "hook") ELSE UNCHANGED log
  /\ UNCHANGED <<config, missing, shared, clock>>

(* What the result of an inner handler is to the built-in it is inside of. *)
Outcome(how) == IF how \in {"ok", "drop", "limit"} THEN how ELSE "fail"

Return(g) ==
  LET f == Top(g)
      outer == Front(stack[g]) IN
  /\ Is(g, "return")
  /\ stack' = [stack EXCEPT ![g] =
       IF outer = <<>> THEN <<>>
       ELSE Append(Front(outer), IF f.how = "ok" THEN Passed(Last(outer))
                                 ELSE Stepped(Last(outer), Outcome(f.how)))]
  /\ IF outer = <<>> THEN Logs(g, "end", [where |-> g[2], how |-> f.how]) ELSE UNCHANGED log
  /\ UNCHANGED <<config, missing, shared, clock>>

-----------------------------------------------------------------------------
(* The instructions of the built-ins *)

(* What renders, parses or asks somebody else may fail, and has no effect  *)
(* here otherwise. A service this process does not have is an error.       *)
Available(g) == Runs(g, "needs") /\ On(g) \notin missing
Fallible(g) == Runs(g, "eval") \/ Runs(g, "call") \/ Runs(g, "pause")

Attempt(g) ==
  /\ \/ (Fallible(g) \/ Available(g)) /\ Passes(g)
     \/ (Fallible(g) \/ (Runs(g, "needs") /\ ~Available(g))) /\ Fails(g)
  /\ UNCHANGED <<config, missing, shared, clock, log>>

ApplyChange(g) ==
  /\ Runs(g, "apply") /\ Passes(g)
  /\ stored' = CASE On(g) = "set" -> TRUE [] On(g) = "delete" -> FALSE [] OTHER -> stored
  /\ UNCHANGED <<config, missing, reg, chat, there, clock, log>>

(* Delivered to whom it may concern; those who cannot be reached are       *)
(* skipped.                                                                *)
SendTo(g) ==
  /\ Runs(g, "send") /\ Passes(g)
  /\ Logs(g, "broadcast", 0)
  /\ UNCHANGED <<config, missing, shared, clock>>

WriteBack(g) ==
  /\ \/ Runs(g, "write") /\ Passes(g) /\ Sent(g, "write")
     \/ Runs(g, "write") /\ Fails(g) /\ UNCHANGED log
     \/ Runs(g, "try") /\ Passes(g) /\ (Sent(g, "write") \/ UNCHANGED log)
  /\ UNCHANGED <<config, missing, shared, clock>>

(* The answer of a model, whole or in pieces: the pieces are sent with the *)
(* respond, which is not sent again then, and may end half way.            *)
StreamPieces(g) ==
  LET f == Top(g) IN
  /\ Runs(g, "stream")
  /\ IF StepOf(f).streams
     THEN \/ Becomes(g, Passed([f EXCEPT !.mute = TRUE])) /\ Sent(g, "piece")
          \/ Fails(g) /\ (Sent(g, "piece") \/ UNCHANGED log)
     ELSE (Passes(g) \/ Fails(g)) /\ UNCHANGED log
  /\ UNCHANGED <<config, missing, shared, clock>>

(* Which condition ends a built-in, of those it can see. *)
Holding(f, condition) ==
  CASE condition = "responds" -> {StepOf(f).responds}
    [] condition \in {"stored", "allowed"} -> {f.got}
    [] condition = "sent" -> {f.got # None}
    [] condition = "sampled" -> {f.got % Rate = 0}
    [] condition = "no reply" -> BOOLEAN

EndEarly(g) ==
  LET f == Top(g) IN
  /\ Runs(g, "endif")
  /\ \E ends \in Holding(f, On(g)) : Becomes(g, IF ends THEN Acted(f) ELSE Passed(f))
  /\ UNCHANGED <<config, missing, shared, clock, log>>

LeaveWith(g) ==
  LET f == Top(g) IN
  /\ \/ Runs(g, "leave") /\ Becomes(g, Stepped(f, On(g)))
     \/ Runs(g, "maydrop") /\ (Becomes(g, Stepped(f, "drop")) \/ Passes(g))
  /\ UNCHANGED <<config, missing, shared, clock, log>>

(* A non-zero exit code is no error of the step, and a command killed by   *)
(* its timeout has one. One that cannot be run or that the sandbox refuses *)
(* is an error, and sets the exit code too.                                *)
RunShell(g) ==
  /\ Runs(g, "exit")
  /\ \/ \E code \in BOOLEAN : Becomes(g, Passed([Top(g) EXCEPT !.exit = code]))
     \/ Becomes(g, Stepped([Top(g) EXCEPT !.exit = TRUE], "fail"))
  /\ UNCHANGED <<config, missing, shared, clock, log>>

EnterHandler(g) ==
  LET f == Top(g)
      n == StepOf(f).target
      aside == <<g[1], "aside">> IN
  /\ Runs(g, "enter")
  /\ CASE config[n] = None -> Fails(g)
       [] config[n] # None /\ On(g) = "inside" -> stack' = [stack EXCEPT ![g] = Append(@, Frame(n))]
       [] config[n] # None /\ On(g) = "aside" ->
            /\ stack[aside] = <<>>   \* bound: one shadow at a time
            /\ stack' = [stack EXCEPT ![g] = Append(Front(@), Passed(f)), ![aside] = <<Frame(n)>>]
  /\ UNCHANGED <<config, missing, shared, clock, log>>

-----------------------------------------------------------------------------
(* What the built-ins share *)

(* max_history gets to the chats of a list of actions only: the copies of  *)
(* the other forms are made without it, and then there is no limit.        *)
Limit(h) == IF config[h].form = "actions" THEN MaxHistory ELSE 0

Kept(h, seq) == IF Limit(h) > 0 /\ Len(seq) > Limit(h)
                THEN SubSeq(seq, Len(seq) - Limit(h) + 1, Len(seq)) ELSE seq

Said(who, m) == <<who, m>>

(* Mutant: only the answers are remembered. *)
AskedForgotten(h, b, m) == Kept(h, chat[b])

(* The conversation the model is sent. *)
Asked(h, b, m) == Kept(h, Append(chat[b], Said("user", m)))

(* What a built-in reads and uses later. A chat adds the user's turn to    *)
(* what it read; throttle-broadcast takes the time and who is there.       *)
LookAt(g) ==
  LET f == Top(g) IN
  /\ Runs(g, "look")
  /\ PassesWith(g, CASE On(g) = "stored" -> stored
                     [] On(g) = "rotation" -> reg[f.h].rotation
                     [] On(g) = "state" -> reg[f.h].state
                     [] On(g) = "clock" -> [now |-> clock, todo |-> there, sent |-> None]
                     [] On(g) = "history" -> Asked(f.h, StepOf(f).uses, g[1]))
  /\ UNCHANGED <<config, missing, shared, clock, log>>

(* Storing it back: the table of a script, the place after the client that *)
(* was sent to, the conversation with the model's answer.                  *)
KeepBack(g) ==
  LET f == Top(g)
      set(v) == /\ reg' = [reg EXCEPT ![f.h][On(g)] = v] /\ UNCHANGED chat IN
  /\ Runs(g, "keep") /\ Passes(g)
  /\ CASE On(g) = "state" -> set(f.got + 1) /\ Logs(g, "state", 0)
       [] On(g) = "rotation" ->
            /\ IF f.got = None THEN UNCHANGED <<reg, chat>> ELSE set(f.got)
            /\ UNCHANGED log
       [] On(g) = "history" ->
            /\ chat' = [chat EXCEPT ![StepOf(f).uses] = Kept(f.h, Append(f.got, Said("assistant", g[1])))]
            /\ Logs(g, "turn", StepOf(f).uses) /\ UNCHANGED reg
  /\ UNCHANGED <<config, missing, stored, there, clock>>

(* Mutant: the next message begins at the same client. *)
AfterNone(i) == i

After(i) == (i % Len(Pool)) + 1

(* The first client of the pool, from the place on, that is there and that *)
(* can be sent to; got is then the place after it.                         *)
RotateOn(g) ==
  LET f == Top(g)
      place(k) == ((f.got - 1 + k) % Len(Pool)) + 1
      tries == 0..Len(Pool) - 1 IN
  /\ Runs(g, "rotate")
  /\ \E deaf \in SUBSET there :
       LET up == {k \in tries : Pool[place(k)] \in there \ deaf} IN
       IF up = {} THEN PassesWith(g, None) /\ UNCHANGED log
       ELSE LET k == CHOOSE k \in up : \A j \in up : k <= j IN
            /\ PassesWith(g, After(place(k)))
            /\ Logs(g, "rotated", [place |-> place(k), up |-> there \ deaf])
  /\ UNCHANGED <<config, missing, shared, clock>>

(* GetNextSequenceIndex, GetNextSampleCount, and a token of the limiter:   *)
(* each one step under the registry's lock.                                *)
NextInSequence(n, loop) ==
  IF ~loop /\ n + 1 >= Responses THEN Responses - 1 ELSE (n + 1) % Responses

TakeNext(g) ==
  LET f == Top(g)
      r == reg[f.h]
      counted(v, got) == /\ reg' = [reg EXCEPT ![f.h][On(g)] = v]
                         /\ PassesWith(g, got) /\ Logs(g, On(g), got) IN
  /\ Runs(g, "take")
  /\ CASE On(g) = "sequence" ->
            counted(NextInSequence(r.sequence, config[f.h].loop), r.sequence % Responses)
       [] On(g) = "sample" -> counted(r.sample + 1, r.sample + 1)
       [] On(g) = "limit" -> counted(IF r.limit > 0 THEN r.limit - 1 ELSE 0, r.limit > 0)
  /\ UNCHANGED <<config, missing, chat, stored, there, clock>>

(* throttle-broadcast, client by client: skip who had one within the       *)
(* window, send, and note the time for those who could be sent to.         *)
SpreadTo(g, c) ==
  LET f == Top(g)
      last == reg[f.h].last[c]
      rest == [f.got EXCEPT !.todo = f.got.todo \ {c}] IN
  /\ Runs(g, "spread") /\ f.got.sent = None /\ c \in f.got.todo
  /\ IF last # None /\ f.got.now < last + Window
     THEN Becomes(g, [f EXCEPT !.got = rest]) /\ UNCHANGED log
     ELSE \/ /\ c \in there
             /\ Becomes(g, [f EXCEPT !.got = [rest EXCEPT !.sent = c]])
             /\ Logs(g, "spread", [to |-> c, at |-> f.got.now])
          \/ Becomes(g, [f EXCEPT !.got = rest]) /\ UNCHANGED log
  /\ UNCHANGED <<config, missing, shared, clock>>

(* Mutant: the time is not noted. *)
SetLastForgotten(g) ==
  LET f == Top(g) IN
  /\ Runs(g, "spread") /\ f.got.sent # None
  /\ Becomes(g, [f EXCEPT !.got.sent = None])
  /\ UNCHANGED <<config, missing, shared, clock, log>>

SetLastThrottle(g) ==
  LET f == Top(g) IN
  /\ Runs(g, "spread") /\ f.got.sent # None
  /\ reg' = [reg EXCEPT ![f.h].last[f.got.sent] = f.got.now]
  /\ Becomes(g, [f EXCEPT !.got.sent = None])
  /\ UNCHANGED <<config, missing, chat, stored, there, clock, log>>

SpreadEnds(g) ==
  /\ Runs(g, "spread") /\ Top(g).got.sent = None /\ Top(g).got.todo = {}
  /\ Passes(g)
  /\ UNCHANGED <<config, missing, shared, clock, log>>

-----------------------------------------------------------------------------
(* The world around: the clock, for those who read it, and clients that    *)
(* disconnect, whose entries ClearConnResources deletes.                   *)
Uses(b) == \E n \in HandlerNames : config[n] # None /\
             \E i \in DOMAIN config[n].steps : config[n].steps[i].uses = b

Tick ==
  /\ Uses("throttle-broadcast") \/ Uses("rate-limit")
  /\ \E g \in Goroutines : stack[g] # <<>>
  /\ clock < MaxTime /\ clock' = clock + 1
  /\ reg' = [h \in HandlerNames |->
       [reg[h] EXCEPT !.limit = IF Uses("rate-limit") /\ @ < Burst THEN @ + 1 ELSE @]]
  /\ UNCHANGED <<config, missing, stack, chat, stored, there, log>>

ClearConnResources(c) ==
  /\ Uses("throttle-broadcast") \/ Uses("round-robin")
  /\ c \in there /\ Cardinality(ToSet(Pool) \ there) < MaxLeaves
  /\ there' = there \ {c}
  /\ reg' = [h \in HandlerNames |-> [reg[h] EXCEPT !.last[c] = None]]
  /\ UNCHANGED <<config, missing, stack, chat, stored, clock, log>>

-----------------------------------------------------------------------------
Executes(g) ==
  \/ Begin(g) \/ Delay(g) \/ Respond(g) \/ Reply(g) \/ Retry(g) \/ Return(g)
  \/ executeHandlerError(g) \/ HandleError(g)
  \/ Attempt(g) \/ ApplyChange(g) \/ SendTo(g) \/ WriteBack(g) \/ StreamPieces(g) \/ EndEarly(g)
  \/ LeaveWith(g) \/ RunShell(g) \/ EnterHandler(g)
  \/ LookAt(g) \/ KeepBack(g) \/ RotateOn(g) \/ TakeNext(g)
  \/ SetLastThrottle(g) \/ SpreadEnds(g) \/ \E c \in ToSet(Pool) : SpreadTo(g, c)

ActionsNext ==
  \/ \E g \in Goroutines : Executes(g)
  \/ Tick
  \/ \E c \in ToSet(Pool) : ClearConnResources(c)

ActionsQuiet == (\A g \in Goroutines : stack[g] = <<>>) /\ UNCHANGED actVars

ActionsSpec == ActionsInit /\ [][ActionsNext \/ ActionsQuiet]_actVars

-----------------------------------------------------------------------------
(* Properties *)

IsSerial(h) == config[h] # None /\ config[h].serial

(* Among the handlers, only h uses the built-in. *)
OnlyIn(h, b) ==
  \A n \in HandlerNames : config[n] # None =>
    (n = h <=> \E i \in DOMAIN config[n].steps : config[n].steps[i].uses = b)

(* Every variable stays in its domain: a frame runs a handler there is, at *)
(* an instruction it has, within its attempts, and one frame at most is in *)
(* a serial handler.                                                       *)
ActionsTypeOK ==
  /\ config \in Setups /\ missing \in Absences
  /\ \A g \in Goroutines : \A i \in DOMAIN stack[g] :
       LET f == stack[g][i] IN
       /\ config[f.h] # None /\ f.at \in DOMAIN config[f.h].steps
       /\ f.ip \in DOMAIN Script(f) /\ f.try \in 0..1 + config[f.h].retry
       /\ {f.exit, f.mute} \subseteq BOOLEAN
       /\ f.how \in {"ok", "fail", "drop", "limit", "unsent", "cancelled"}
  /\ \A h \in HandlerNames :
       /\ reg[h].sequence \in 0..Responses - 1 /\ reg[h].rotation \in 1..Len(Pool)
       /\ reg[h].limit \in 0..Burst
       /\ config[h] # None /\ config[h].serial =>
            Cardinality({g \in Goroutines : Holds(g, h)}) <= 1
  /\ \A h \in HandlerNames, b \in Chats :
       OnlyIn(h, b) /\ IsSerial(h) /\ Limit(h) > 0 => Len(chat[b]) <= Limit(h)
  /\ clock \in 0..MaxTime /\ there \subseteq ToSet(Pool)

(* Where the log says it of h, and how many of these come before i. *)
Logged(h, what) == {i \in DOMAIN log : log[i].h = h /\ log[i].what = what}
Earlier(places, i) == Cardinality({j \in places : j < i})

(* However many messages ask at once, a sequence hands out its responses   *)
(* one after the other, from the first one again or the last one for ever, *)
(* and sample counts every message, retried ones included. A serial        *)
(* round-robin handler sends each message to the next client of its pool   *)
(* that can be reached, passing over nobody else, while clients disconnect *)
(* and messages are retried.                                               *)
Given(h, n) == IF config[h].loop \/ n < Responses THEN n % Responses ELSE Responses - 1

InSequence(h) ==
  /\ \A i \in Logged(h, "sequence") : log[i].val = Given(h, Earlier(Logged(h, "sequence"), i))
  /\ \A i \in Logged(h, "sample") : log[i].val = Earlier(Logged(h, "sample"), i) + 1

Rotated(h) ==
  \A i, j \in Logged(h, "rotated") :
    i < j /\ (\A k \in Logged(h, "rotated") : k <= i \/ j <= k) =>
      LET first == log[i].val.place
          passed == (log[j].val.place - first - 1 + Len(Pool)) % Len(Pool) IN
      \A k \in 1..passed : Pool[((first - 1 + k) % Len(Pool)) + 1] \notin log[j].val.up

InTurn == \A h \in HandlerNames : config[h] # None => InSequence(h) /\ (IsSerial(h) => Rotated(h))

(* A serial throttle-broadcast handler sends no client two broadcasts that *)
(* began within the window, whatever sends fail in between.                *)
WindowKept ==
  \A h \in HandlerNames : IsSerial(h) =>
    \A i, j \in Logged(h, "spread") :
      i < j /\ log[i].val.to = log[j].val.to => log[j].val.at >= log[i].val.at + Window

(* A serial chat handler remembers every turn it completed, the last ones  *)
(* where max_history limits it, and none of those that failed: read        *)
(* backwards, the conversation is the turns read backwards. A serial       *)
(* script sees each change of its table.                                   *)
Remembered(h, b, seq) ==
  LET turns == {i \in Logged(h, "turn") : log[i].val = b}
      whole == 2 * Cardinality(turns) IN
  /\ Len(seq) = IF Limit(h) > 0 /\ whole > Limit(h) THEN Limit(h) ELSE whole
  /\ \A k \in DOMAIN seq : \E i \in turns :
       LET later == Cardinality({j \in turns : j > i}) IN
       \/ Len(seq) - k = 2 * later /\ seq[k] = Said("assistant", log[i].m)
       \/ Len(seq) - k = 2 * later + 1 /\ seq[k] = Said("user", log[i].m)

TurnsRemembered ==
  \A h \in HandlerNames : IsSerial(h) =>
    /\ reg[h].state = Cardinality(Logged(h, "state"))
    /\ \A b \in Chats : OnlyIn(h, b) => Remembered(h, b, chat[b])

(* The handler of a message ends once. What it says then, apart from what  *)
(* its steps sent, it says once: its own respond if the last attempt       *)
(* succeeded and it is not concise, its error message if all of them       *)
(* failed, and nothing if it was dropped, limited or cancelled, whatever   *)
(* its retries and inner handlers did. For a script at the top level that  *)
(* is a second answer: its step has sent the same respond.                 *)
Sendings(m, what) == {i \in Logged(First, what) : log[i].m = m /\ log[i].depth = 1}
Ends(m) == {i \in DOMAIN log : log[i].what = "end" /\ log[i].m = m /\ log[i].val.where = "main"}

AnsweredOnce ==
  \A m \in Inbox :
    /\ Cardinality(Ends(m)) <= 1
    /\ \A i \in Ends(m) :
         LET how == log[i].val.how
             h == config[First] IN
         /\ Cardinality(Sendings(m, "reply")) = IF how = "ok" /\ h.respond /\ ~isConcise(h) THEN 1 ELSE 0
         /\ Cardinality(Sendings(m, "error")) = IF how = "fail" /\ h.onError THEN 1 ELSE 0

=============================================================================

-------------------------------- MODULE MCParts --------------------------------
(***************************************************************************)
(* Parts of the program that share no state, checked side by side for what *)
(* they must never do: part says which of them is at work, the others stay *)
(* where they began.                                                       *)
(***************************************************************************)
EXTENDS MCActions, Dispatch, Limits, Static, Repl, KVStore, TopicStore, Fields, Backoff

CONSTANTS h1, h2, o1

(* A denied host with all origins allowed; half a request an hour, whose   *)
(* bucket is not full when the client is forgotten, with an allowed list;  *)
(* both limits together; and a limit by the minute.                        *)
PerHour(val) == [val |-> val, per |-> "h"]

MCPolicies ==
  {[denied |-> {h2}, allowed |-> {}, origins |-> {}, client |-> None, global |-> PerHour(8)],
   [denied |-> {}, allowed |-> {h1}, origins |-> {o1}, client |-> PerHour(1), global |-> None],
   [denied |-> {}, allowed |-> {}, origins |-> {o1}, client |-> PerHour(4), global |-> PerHour(8)],
   [denied |-> {}, allowed |-> {h1}, origins |-> {}, client |-> [val |-> 5, per |-> "m"],
    global |-> None]}

(* An alias of itself, and a file whose alias sources it again. *)
MCScripts ==
  "again" :> <<"again">> @@ "both" :> <<"wait", "both", "fail">> @@ "short" :> <<"both">>

(* One of each kind; the client and the handler with and without a number  *)
(* of attempts, the handler with both strategies.                          *)
Loop(by, linear, count) ==
  [by |-> by, linear |-> linear, interval |-> 2, max |-> 30, count |-> count]

MCRetriers ==
  {Loop(by, FALSE, 0) : by \in {"retry", "redis", "kafka", "subscribe", "client"}}
  \cup {Loop("client", FALSE, 2)} \cup {Loop("retry", l, 10) : l \in BOOLEAN}

VARIABLE part

Parts == {"dispatch", "actions", "limits", "static", "repl", "kv", "topics", "fields", "backoff"}

all == <<part, vars, actVars, limVars, statVars, replVars, kvVars, storeVars, fldVars, backVars>>

(* The parts that are not at work take one of their initial states. *)
MCInit ==
  /\ part \in Parts
  /\ Init
  /\ ActionsInit
  /\ part # "actions" => <<config, missing>> = CHOOSE start \in Setups \X Absences : TRUE
  /\ LimitsInit /\ (part # "limits" => policy = CHOOSE p \in Policies : TRUE)
  /\ StaticInit /\ (part # "static" => taken = {})
  /\ ReplInit /\ KVInit /\ StoreInit
  /\ FieldsInit /\ (part # "fields" => about = Whole("concise", "noop") /\ side = "client")
  /\ BackoffInit /\ (part # "backoff" => retrier = CHOOSE r \in Retriers : TRUE)

(* rest: the variables of the parts before and behind this one. *)
AtWork(name, next, rest) == part = name /\ next /\ UNCHANGED <<part, rest>>

DispatchRun == AtWork("dispatch", Next,
  <<actVars, limVars, statVars, replVars, kvVars, storeVars, fldVars, backVars>>)
ActionsRun == AtWork("actions", ActionsNext \/ ActionsQuiet,
  <<vars, limVars, statVars, replVars, kvVars, storeVars, fldVars, backVars>>)
LimitsRun == AtWork("limits", LimitsNext \/ LimitsQuiet,
  <<vars, actVars, statVars, replVars, kvVars, storeVars, fldVars, backVars>>)
StaticRun == AtWork("static", StaticNext \/ StaticQuiet,
  <<vars, actVars, limVars, replVars, kvVars, storeVars, fldVars, backVars>>)
ReplRun == AtWork("repl", ReplNext \/ ReplQuiet,
  <<vars, actVars, limVars, statVars, kvVars, storeVars, fldVars, backVars>>)
KVRun == AtWork("kv", KVNext,
  <<vars, actVars, limVars, statVars, replVars, storeVars, fldVars, backVars>>)
TopicsRun == AtWork("topics", StoreNext \/ StoreQuiet,
  <<vars, actVars, limVars, statVars, replVars, kvVars, fldVars, backVars>>)
FieldsRun == AtWork("fields", FieldsNext,
  <<vars, actVars, limVars, statVars, replVars, kvVars, storeVars, backVars>>)
BackoffRun == AtWork("backoff", BackoffNext \/ BackoffQuiet,
  <<vars, actVars, limVars, statVars, replVars, kvVars, storeVars, fldVars>>)

MCNext ==
  \/ DispatchRun \/ ActionsRun \/ LimitsRun \/ StaticRun \/ ReplRun \/ KVRun
  \/ TopicsRun \/ FieldsRun \/ BackoffRun

MCSpec == MCInit /\ [][MCNext]_all

(* The type invariants of the parts: that of the one at work, as the       *)
(* others are where they were in one of its initial states.                *)
PartsTypeOK ==
  /\ part = "dispatch" => TypeOK
  /\ part = "actions" => ActionsTypeOK
  /\ part = "limits" => LimitsTypeOK
  /\ part = "static" => StaticTypeOK
  /\ part = "repl" => ReplTypeOK
  /\ part = "kv" => KVTypeOK
  /\ part = "topics" => StoreTypeOK
  /\ part = "fields" => FieldsTypeOK
  /\ part = "backoff" => BackoffTypeOK

=============================================================================

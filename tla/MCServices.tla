------------------------------- MODULE MCServices -------------------------------
(***************************************************************************)
(* The parts of the server that share no state, checked side by side:      *)
(* part says which of them is at work, the others stay where they began.   *)
(***************************************************************************)
EXTENDS Sources, Debounce, ServerLife, Dispatch

CONSTANTS n1, n2

MCFiles == {[n \in SourceNames |-> IF n = n1 THEN "redis-subscribe" ELSE None],
            [n \in SourceNames |-> IF n = n1 THEN "mqtt-subscribe" ELSE "other"]}

VARIABLE part

Parts == {"sources", "debounce", "server", "dispatch"}

all == <<part, srcVars, debVars, srvVars, vars>>

(* The parts that are not at work take one of their initial states. *)
MCInit ==
  /\ part \in Parts
  /\ SourcesInit /\ (part # "sources" => handlers = CHOOSE file \in Files : TRUE)
  /\ DebounceInit /\ ServerInit /\ Init

AtWork(name, next, rest) == part = name /\ next /\ UNCHANGED <<part, rest>>

SourcesRun == AtWork("sources", SourcesNext \/ SourcesQuiet, <<debVars, srvVars, vars>>)
DebounceRun == AtWork("debounce", DebounceNext \/ DebounceQuiet, <<srcVars, srvVars, vars>>)
ServerRun == AtWork("server", ServerNext \/ ServerQuiet, <<srcVars, debVars, vars>>)
DispatchRun == AtWork("dispatch", Next, <<srcVars, debVars, srvVars>>)

MCNext == SourcesRun \/ DebounceRun \/ ServerRun \/ DispatchRun

(* The fairness of each part, as its module has it, for the part at work. *)
MCFairness ==
  /\ \A a \in Commanders : WF_srcVars(part = "sources" /\ Perform(a))
  /\ \A i \in 1..MaxSources : WF_srcVars(part = "sources" /\ i \in DOMAIN goroutine /\ Run(i))
  /\ WF_debVars(part = "debounce" /\ TimersRun)
  /\ \A x \in Clients : /\ WF_srvVars(part = "server" /\ Lives(x))
                        /\ WF_srvVars(part = "server" /\ QueueDrains(x))
  /\ \A p \in Callers : WF_srvVars(part = "server" /\ Finishes(p))
  /\ WF_srvVars(part = "server" /\ Stops)
  /\ \A x \in Conns : /\ WF_vars(part = "dispatch" /\ Reader(x))
                      /\ WF_vars(part = "dispatch" /\ Flusher(x))
                      /\ WF_vars(part = "dispatch" /\ hungUp[x] /\ Close(x))
                      /\ WF_vars(part = "dispatch" /\ done[x] /\ HangUp(x))
  /\ \A a \in Admins : WF_vars(part = "dispatch" /\ ResumeBroadcast(a))

MCSpec == MCInit /\ [][MCNext]_all /\ MCFairness

(* The type invariants of the parts. *)
ServicesTypeOK ==
  SourcesTypeOK /\ DebounceTypeOK /\ ServerTypeOK /\ TypeOK

=============================================================================

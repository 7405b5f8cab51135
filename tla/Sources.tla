-------------------------------- MODULE Sources --------------------------------
(***************************************************************************)
(* Source handlers (redis-, mqtt-, nats-subscribe and kafka-consume): the  *)
(* server's handler commands in internal/server/server.go start and stop a *)
(* goroutine per source handler, which s.sourceCancels knows by name.      *)
(*                                                                         *)
(* A command is the list of the steps it makes, each under one lock:       *)
(* steps of the registry, and steps that start and stop sources.           *)
(***************************************************************************)
EXTENDS Absent, Naturals, Sequences, SequencesExt, FiniteSets

CONSTANTS Commanders,  \* who gives commands: the shell, the HTTP API
          SourceNames, \* handler names
          Builtins,    \* what a handler can be: some of SourceKinds, or "other"
          Files,       \* what a reload may load
          MaxCommands  \* bound: commands given

SourceKinds == {"redis-subscribe", "mqtt-subscribe", "nats-subscribe", "kafka-consume"}

ASSUME SourcesAssumption ==
  /\ Builtins \subseteq SourceKinds \cup {"other"}
  /\ Files \subseteq [SourceNames -> Builtins \cup {None}]
  /\ IsFiniteSet(SourceNames) /\ MaxCommands \in Nat /\ None \notin Nat \cup SourceKinds \cup Builtins

VARIABLES
  handlers,  \* the registry: what each name is, or None
  off,       \* the disabled names
  cancels,   \* s.sourceCancels: the goroutine a name's cancel function stops
  goroutine, \* the goroutines started so far
  todo,      \* for each admin, the steps of its command that are left
  commands,  \* how many commands were given
  astray    \* history: a command changed the sources and not the registry

srcVars == <<handlers, off, cancels, goroutine, todo, commands, astray>>

SourcesInit ==
  /\ handlers \in Files
  /\ off = {} /\ cancels = [n \in SourceNames |-> None] /\ goroutine = <<>>
  /\ todo = [a \in Commanders |-> IF a = CHOOSE x \in Commanders : TRUE THEN <<<<"startAll">>>> ELSE <<>>]
  /\ commands = 0 /\ astray = FALSE

Running(i) == i # None /\ ~goroutine[i].cancelled

-----------------------------------------------------------------------------
(* The commands *)

AddHandler(n, b) == <<<<"add", n, b>>, <<"start", n, b>>>>
UpdateHandler(n, b) == <<<<"stop", n>>, <<"update", n, b>>, <<"start", n, b>>>>
DeleteHandler(n) == <<<<"stop", n>>, <<"delete", n>>>>
RenameHandler(n, k) == <<<<"move", n, k>>, <<"rename", n, k>>>>
ReloadHandlers(file) == <<<<"stopAll">>, <<"replace", file>>, <<"startAll">>>>
EnableHandler(n) == <<<<"enable", n>>, <<"startCurrent", n>>>>
DisableHandler(n) == <<<<"stop", n>>, <<"disable", n>>>>

Commands ==
  (UNION {{AddHandler(n, b), UpdateHandler(n, b)} : n \in SourceNames, b \in Builtins})
    \cup (UNION {{DeleteHandler(n), EnableHandler(n), DisableHandler(n)} : n \in SourceNames})
    \cup {RenameHandler(n, k) : n, k \in SourceNames}
    \cup {ReloadHandlers(file) : file \in Files}

Command(a) ==
  /\ todo[a] = <<>> /\ commands < MaxCommands
  /\ \E steps \in Commands : todo' = [todo EXCEPT ![a] = steps]
  /\ commands' = commands + 1
  /\ UNCHANGED <<handlers, off, cancels, goroutine, astray>>

-----------------------------------------------------------------------------
(* Their steps in the registry *)

Step(a, op) == todo[a] # <<>> /\ Head(todo[a])[1] = op
Arg(a, i) == Head(todo[a])[i + 1]
Advance(a) == todo' = [todo EXCEPT ![a] = Tail(@)]
Proceed(a) == Advance(a) /\ UNCHANGED astray
(* An error ends the command. *)
Refuse(a) ==
  /\ todo' = [todo EXCEPT ![a] = <<>>]
  /\ astray' = (astray \/ Head(todo[a])[1] \in {"update", "rename", "replace"})
  /\ UNCHANGED <<handlers, off>>

Has(n) == handlers[n] # None

RegistryAdd(a) ==
  /\ Step(a, "add")
  /\ \/ /\ ~Has(Arg(a, 1))
        /\ handlers' = [handlers EXCEPT ![Arg(a, 1)] = Arg(a, 2)]
        /\ UNCHANGED off
        /\ Proceed(a)
     \/ Refuse(a)
  /\ UNCHANGED <<cancels, goroutine, commands>>

RegistryUpdate(a) ==
  /\ Step(a, "update")
  /\ \/ /\ Has(Arg(a, 1))
        /\ handlers' = [handlers EXCEPT ![Arg(a, 1)] = Arg(a, 2)]
        /\ UNCHANGED off
        /\ Proceed(a)
     \/ Refuse(a)
  /\ UNCHANGED <<cancels, goroutine, commands>>

RegistryDelete(a) ==
  /\ Step(a, "delete")
  /\ IF Has(Arg(a, 1))
     THEN /\ handlers' = [handlers EXCEPT ![Arg(a, 1)] = None]
          /\ off' = off \ {Arg(a, 1)}
          /\ Proceed(a)
     ELSE Refuse(a)
  /\ UNCHANGED <<cancels, goroutine, commands>>

RegistryRename(a) ==
  LET n == Arg(a, 1)
      k == Arg(a, 2) IN
  /\ Step(a, "rename")
  /\ IF n = k THEN UNCHANGED <<handlers, off>> /\ Proceed(a)
     ELSE IF Has(n) /\ ~Has(k)
     THEN /\ handlers' = [handlers EXCEPT ![k] = handlers[n], ![n] = None]
          /\ off' = IF n \in off THEN (off \ {n}) \cup {k} ELSE off
          /\ Proceed(a)
     ELSE Refuse(a)
  /\ UNCHANGED <<cancels, goroutine, commands>>

RegistryReplace(a) ==
  /\ Step(a, "replace")
  /\ \/ handlers' = Arg(a, 1) /\ off' = {} /\ Proceed(a)
     \/ Refuse(a)
  /\ UNCHANGED <<cancels, goroutine, commands>>

RegistryEnable(a) ==
  /\ Step(a, "enable")
  /\ IF Has(Arg(a, 1)) THEN off' = off \ {Arg(a, 1)} /\ UNCHANGED handlers /\ Proceed(a)
     ELSE Refuse(a)
  /\ UNCHANGED <<cancels, goroutine, commands>>

RegistryDisable(a) ==
  /\ Step(a, "disable")
  /\ IF Has(Arg(a, 1)) THEN off' = off \cup {Arg(a, 1)} /\ UNCHANGED handlers /\ Proceed(a)
     ELSE Refuse(a)
  /\ UNCHANGED <<cancels, goroutine, commands>>

-----------------------------------------------------------------------------
(* Their steps on the sources *)

(* What is started is looked up first, and then one by one. *)
Expands(a, steps) ==
  /\ todo' = [todo EXCEPT ![a] = steps \o Tail(@)]
  /\ UNCHANGED <<handlers, off, cancels, goroutine, commands, astray>>

StartAll(a) ==
  /\ Step(a, "startAll")
  /\ Expands(a, [i \in 1..Cardinality({n \in SourceNames : Has(n)}) |->
                   LET n == SetToSeq({m \in SourceNames : Has(m)})[i] IN <<"start", n, handlers[n]>>])

StartCurrent(a) ==
  LET n == Arg(a, 1) IN
  /\ Step(a, "startCurrent")
  /\ Expands(a, IF Has(n) THEN <<<<"start", n, handlers[n]>>>> ELSE <<>>)

(* Not a source, or disabled: nothing to start. *)
StartChecked(a) ==
  LET n == Arg(a, 1) IN
  /\ Step(a, "start")
  /\ Expands(a, IF Arg(a, 2) \in SourceKinds /\ n \notin off THEN <<<<"launch", n, Arg(a, 2)>>>> ELSE <<>>)

Launch(a) ==
  LET n == Arg(a, 1) IN
  /\ Step(a, "launch")
  /\ IF cancels[n] # None THEN UNCHANGED <<cancels, goroutine>>
     ELSE /\ goroutine' = Append(goroutine, [kind |-> Arg(a, 2), pc |-> "check", cancelled |-> FALSE])
          /\ cancels' = [cancels EXCEPT ![n] = Len(goroutine) + 1]
  /\ Proceed(a)
  /\ UNCHANGED <<handlers, off, commands>>

Cancelled(stopped) ==
  [i \in DOMAIN goroutine |-> IF i \in stopped THEN [goroutine[i] EXCEPT !.cancelled = TRUE] ELSE goroutine[i]]

(* Mutant: the entry stays. *)
StopKeepingEntry(a) ==
  /\ Step(a, "stop")
  /\ goroutine' = Cancelled({cancels[Arg(a, 1)]})
  /\ Proceed(a)
  /\ UNCHANGED <<handlers, off, cancels, commands>>

StopSource(a) ==
  /\ Step(a, "stop")
  /\ goroutine' = Cancelled({cancels[Arg(a, 1)]})
  /\ cancels' = [cancels EXCEPT ![Arg(a, 1)] = None]
  /\ Proceed(a)
  /\ UNCHANGED <<handlers, off, commands>>

StopAllSources(a) ==
  /\ Step(a, "stopAll")
  /\ goroutine' = Cancelled({cancels[n] : n \in SourceNames})
  /\ cancels' = [n \in SourceNames |-> None]
  /\ Proceed(a)
  /\ UNCHANGED <<handlers, off, commands>>

(* A rename moves the cancel function before it asks the registry; to the  *)
(* same name, it forgets it.                                               *)
MoveSource(a) ==
  LET n == Arg(a, 1)
      k == Arg(a, 2) IN
  /\ Step(a, "move")
  /\ cancels' = IF cancels[n] = None THEN cancels
                ELSE [[cancels EXCEPT ![k] = cancels[n]] EXCEPT ![n] = None]
  /\ Advance(a)
  /\ astray' = (astray \/ (n = k /\ cancels[n] # None))
  /\ UNCHANGED <<handlers, off, goroutine, commands>>

-----------------------------------------------------------------------------
(* The goroutine of a source *)

Goes(i, pc) ==
  /\ goroutine' = [goroutine EXCEPT ![i].pc = pc]
  /\ UNCHANGED <<handlers, off, cancels, todo, commands, astray>>

(* Mutant: no look at ctx.Done() at the top of the loop. *)
CheckNothing(i) == goroutine[i].pc = "check" /\ Goes(i, "connect")

(* The look at ctx.Done() at the top of the loop. *)
CheckDone(i) ==
  /\ goroutine[i].pc = "check"
  /\ Goes(i, IF goroutine[i].cancelled THEN "ended" ELSE "connect")

(* The context may have been cancelled meanwhile: the next thing a source  *)
(* does will see it, or not.                                               *)
Connected(i) == goroutine[i].pc = "connect" /\ Goes(i, "active")

ConnectFails(i) == goroutine[i].pc = "connect" /\ Goes(i, "backoff")

(* A lost redis connection is made again, a Kafka consumer is run again,   *)
(* unless the context is cancelled: both look at it after an error. The    *)
(* other two leave it to their client libraries.                           *)
ConnectionLost(i) ==
  /\ goroutine[i].pc = "active" /\ goroutine[i].kind \in {"redis-subscribe", "kafka-consume"}
  /\ Goes(i, IF goroutine[i].cancelled THEN "ended" ELSE "backoff")

(* ctx.Done() or the timer, whichever is ready. *)
BackoffEnds(i) ==
  /\ goroutine[i].pc = "backoff"
  /\ \/ Goes(i, "check")
     \/ goroutine[i].cancelled /\ Goes(i, "ended")

(* ReceiveMessage of redis has no deadline and does not watch the context: *)
(* a subscriber goes on receiving, cancelled or not, until its connection  *)
(* fails. Kafka's ReadMessage returns; MQTT and NATS wait for ctx.Done().  *)
Receiving(i) == goroutine[i].pc = "active" /\ goroutine[i].kind = "redis-subscribe"

ActiveEnds(i) ==
  /\ goroutine[i].pc = "active" /\ ~Receiving(i)
  /\ goroutine[i].cancelled
  /\ Goes(i, "ended")

-----------------------------------------------------------------------------
Perform(a) ==
  \/ RegistryAdd(a) \/ RegistryUpdate(a) \/ RegistryDelete(a) \/ RegistryRename(a)
  \/ RegistryReplace(a) \/ RegistryEnable(a) \/ RegistryDisable(a)
  \/ StartAll(a) \/ StartCurrent(a) \/ StartChecked(a) \/ Launch(a)
  \/ StopSource(a) \/ StopAllSources(a) \/ MoveSource(a)

Run(i) == CheckDone(i) \/ Connected(i) \/ ConnectFails(i) \/ BackoffEnds(i) \/ ActiveEnds(i)

SourcesNext ==
  \/ \E a \in Commanders : Command(a) \/ Perform(a)
  \/ \E i \in DOMAIN goroutine : Run(i) \/ ConnectionLost(i)

Idle == \A a \in Commanders : todo[a] = <<>>

SourcesQuiet ==
  /\ Idle /\ \A i \in DOMAIN goroutine : goroutine[i].pc \in {"active", "ended"}
  /\ UNCHANGED srcVars

MaxSources == (MaxCommands + 1) * Cardinality(SourceNames)

(* Goroutines run, timers fire, an attempt to subscribe comes to a result, *)
(* and what waits for ctx.Done() or takes the context sees it cancelled.   *)
(* A redis subscriber does not: nothing makes its ConnectionLost happen.   *)
SourcesSpec ==
  /\ SourcesInit /\ [][SourcesNext \/ SourcesQuiet]_srcVars
  /\ \A a \in Commanders : WF_srcVars(Perform(a))
  /\ \A i \in 1..MaxSources : WF_srcVars(i \in DOMAIN goroutine /\ Run(i))

-----------------------------------------------------------------------------
(* Properties *)

(* Every name is what some file or command made it, and an entry of        *)
(* sourceCancels is a goroutine that was started.                          *)
SourcesTypeOK ==
  /\ handlers \in [SourceNames -> Builtins \cup {None}] /\ off \in SUBSET {n \in SourceNames : Has(n)}
  /\ cancels \in [SourceNames -> DOMAIN goroutine \cup {None}]
  /\ \A i \in DOMAIN goroutine :
       /\ goroutine[i].kind \in SourceKinds \cap Builtins
       /\ goroutine[i].pc \in {"check", "connect", "active", "backoff", "ended"}
       /\ goroutine[i].pc = "ended" => goroutine[i].cancelled
  /\ Len(goroutine) <= MaxSources /\ commands \in 0..MaxCommands

(* Between commands, unless an update, rename or reload was refused or a   *)
(* handler was renamed to its own name: exactly the enabled source         *)
(* handlers of the registry have a goroutine that is not cancelled, one    *)
(* each and of their kind.                                                 *)
SourcesAgree ==
  Idle /\ ~astray =>
    /\ \A n \in SourceNames :
         IF handlers[n] \in SourceKinds /\ n \notin off
         THEN Running(cancels[n]) /\ goroutine[cancels[n]].kind = handlers[n]
         ELSE cancels[n] = None
    /\ \A i \in DOMAIN goroutine : ~goroutine[i].cancelled => \E n \in SourceNames : cancels[n] = i

(* Cancelled goroutines come to an end, wherever they were, broker or not, *)
(* but for a redis subscriber whose connection stays up.                   *)
Lingering ==
  {i \in DOMAIN goroutine : goroutine[i].cancelled /\ goroutine[i].pc # "ended" /\ ~Receiving(i)}

CancelledEnds == Lingering # {} ~> Lingering = {}

=============================================================================

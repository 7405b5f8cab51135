------------------------------- MODULE Debounce -------------------------------
(***************************************************************************)
(* Debounced handlers: Registry.Debounce (internal/handler/registry.go)    *)
(* for one key, whose debouncer is dropped when its handler is updated or  *)
(* deleted and when its connection ends. Timers are time.AfterFunc timers: *)
(* one that has fired runs its function in a goroutine, and Stop comes too *)
(* late for it. Messages are numbered in the order in which they arrive.   *)
(***************************************************************************)
EXTENDS Absent, Naturals, Sequences, FiniteSets

CONSTANTS MaxMessages,  \* bound: messages debounced
          MaxDrops     \* bound: updates and deletions of the handler

ASSUME DebounceAssumption == MaxMessages \in Nat /\ MaxDrops \in Nat /\ None \notin Nat

VARIABLES
  debouncer,  \* r.debouncers[key]: the index of a debouncer, or None
  deb,        \* the debouncers made so far
  timer,      \* the timers made so far
  call,       \* the calls of Debounce that hold a debouncer, by message
  debounced,  \* how many messages arrived
  ran,        \* the messages that timers took to execute, in that order
  drops       \* how many drops there were

debVars == <<debouncer, deb, timer, call, debounced, ran, drops>>

DebounceInit ==
  /\ debouncer = None /\ deb = <<>> /\ timer = <<>>
  /\ call = [m \in 1..MaxMessages |-> None]
  /\ debounced = 0 /\ ran = <<>> /\ drops = 0

(* history of a debouncer: the messages given to it and what became of it *)
NewDebouncer == [timer |-> None, pending |-> None, given |-> <<>>, dropped |-> FALSE]

(* Under r.mu: find or make the debouncer. *)
Find ==
  /\ debounced < MaxMessages
  /\ debounced' = debounced + 1
  /\ IF debouncer = None THEN deb' = Append(deb, NewDebouncer) /\ debouncer' = Len(deb) + 1
     ELSE UNCHANGED <<deb, debouncer>>
  /\ call' = [call EXCEPT ![debounced'] = debouncer']
  /\ UNCHANGED <<timer, ran, drops>>

Stopped(t) ==
  [i \in DOMAIN timer |-> IF i = t /\ timer[i].pc = "armed" THEN [timer[i] EXCEPT !.pc = "stopped"]
                          ELSE timer[i]]

(* Mutant: a message that is still pending stays. *)
ArmForFirst(m) ==
  LET d == call[m] IN
  /\ d # None
  /\ timer' = Append(Stopped(deb[d].timer), [of |-> d, pc |-> "armed"])
  /\ deb' = [deb EXCEPT ![d].pending = IF @ = None THEN m ELSE @, ![d].timer = Len(timer) + 1,
                        ![d].given = Append(@, m)]
  /\ call' = [call EXCEPT ![m] = None]
  /\ UNCHANGED <<debouncer, debounced, ran, drops>>

(* Under d.mu: stop the timer, replace the pending message, arm a new one. *)
Arm(m) ==
  LET d == call[m] IN
  /\ d # None
  /\ timer' = Append(Stopped(deb[d].timer), [of |-> d, pc |-> "armed"])
  /\ deb' = [deb EXCEPT ![d] = [timer |-> Len(timer) + 1, pending |-> m,
                                given |-> Append(@.given, m), dropped |-> @.dropped]]
  /\ call' = [call EXCEPT ![m] = None]
  /\ UNCHANGED <<debouncer, debounced, ran, drops>>

Fire(t) ==
  /\ timer[t].pc = "armed"
  /\ timer' = [timer EXCEPT ![t].pc = "fired"]
  /\ UNCHANGED <<debouncer, deb, call, debounced, ran, drops>>

(* Mutant: the pending message stays. *)
TakeAndKeep(t) ==
  LET d == timer[t].of IN
  /\ timer[t].pc = "fired"
  /\ timer' = [timer EXCEPT ![t].pc = "ended"]
  /\ deb' = [deb EXCEPT ![d].timer = None]
  /\ ran' = IF deb[d].pending = None THEN ran ELSE Append(ran, deb[d].pending)
  /\ UNCHANGED <<debouncer, call, debounced, drops>>

(* The function of a timer: take what is pending under d.mu. It is then    *)
(* executed without a lock, in this order or, with delays, another.        *)
TakePending(t) ==
  LET d == timer[t].of IN
  /\ timer[t].pc = "fired"
  /\ timer' = [timer EXCEPT ![t].pc = "ended"]
  /\ deb' = [deb EXCEPT ![d] = [@ EXCEPT !.timer = None, !.pending = None]]
  /\ ran' = IF deb[d].pending = None THEN ran ELSE Append(ran, deb[d].pending)
  /\ UNCHANGED <<debouncer, call, debounced, drops>>

(* UpdateHandler, Delete and ClearConnResources: stop and forget.          *)
DropDebouncer ==
  /\ debouncer # None /\ drops < MaxDrops
  /\ timer' = Stopped(deb[debouncer].timer)
  /\ deb' = [deb EXCEPT ![debouncer].dropped = TRUE]
  /\ debouncer' = None
  /\ drops' = drops + 1
  /\ UNCHANGED <<call, debounced, ran>>

TimersRun ==
  \/ \E m \in 1..MaxMessages : Arm(m)
  \/ \E t \in DOMAIN timer : Fire(t) \/ TakePending(t)

DebounceNext == Find \/ TimersRun \/ DropDebouncer

DebounceQuiet ==
  /\ \A m \in 1..MaxMessages : call[m] = None
  /\ \A t \in DOMAIN timer : timer[t].pc \in {"stopped", "ended"}
  /\ UNCHANGED debVars

(* Goroutines run and timers that are not stopped fire. *)
DebounceSpec == DebounceInit /\ [][DebounceNext \/ DebounceQuiet]_debVars /\ WF_debVars(TimersRun)

-----------------------------------------------------------------------------
(* Properties *)

(* Indices stay in range, and a pending message was given to its debouncer.*)
DebounceTypeOK ==
  /\ debouncer \in DOMAIN deb \cup {None}
  /\ \A d \in DOMAIN deb :
       /\ deb[d].timer \in DOMAIN timer \cup {None}
       /\ deb[d].pending # None => deb[d].pending \in 1..debounced
  /\ \A t \in DOMAIN timer : timer[t].of \in DOMAIN deb /\ timer[t].pc \in {"armed", "fired", "stopped", "ended"}
  /\ Len(timer) <= debounced /\ debounced \in 0..MaxMessages /\ drops \in 0..MaxDrops

(* Where a message stands among those given to a debouncer. *)
Place(d, m) == CHOOSE i \in DOMAIN deb[d].given : deb[d].given[i] = m
Given(d, m) == \E i \in DOMAIN deb[d].given : deb[d].given[i] = m

(* No message is taken to be executed twice, and none after one that came  *)
(* to its debouncer later, although a fired timer may take a message that  *)
(* is not its own.                                                         *)
DebouncedInOrder ==
  \A i, j \in DOMAIN ran : i < j =>
    /\ ran[i] # ran[j]
    /\ \A d \in DOMAIN deb :
         Given(d, ran[i]) /\ Given(d, ran[j]) => Place(d, ran[i]) < Place(d, ran[j])

(* A message given to a debouncer is executed, or a later one is, or the   *)
(* debouncer is dropped: the last message before a silence is not lost.    *)
(* (The built-in's own help says that only the first message is passed:    *)
(* the code, and the description beside that help, pass the last.)         *)
Settled(m) ==
  \E d \in DOMAIN deb : Given(d, m) /\
    (deb[d].dropped \/ \E i \in DOMAIN ran : Given(d, ran[i]) /\ Place(d, ran[i]) >= Place(d, m))

LastIsExecuted == debounced > 0 ~> \A m \in 1..debounced : Settled(m)

=============================================================================

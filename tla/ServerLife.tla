------------------------------- MODULE ServerLife -------------------------------
(***************************************************************************)
(* The connections of the server (internal/server/server.go) from the      *)
(* request to the end of their goroutine, and what is done to them from    *)
(* outside meanwhile: Broadcast, Kick, Drain and Stop. One lock, s.mu,     *)
(* guards s.connections and the state; Broadcast and Stop keep it while    *)
(* they wait for connections.                                              *)
(***************************************************************************)
EXTENDS Absent, Naturals, FiniteSets

CONSTANTS Clients,
          Callers,   \* goroutines of handlers, the shell and the HTTP API
          QueueCap,  \* capacity of a connection's write queue
          MaxCalls   \* bound: calls made by the callers

ASSUME ServerAssumption ==
  /\ QueueCap \in Nat \ {0} /\ MaxCalls \in Nat
  /\ None # "stop" /\ {None, "stop"} \cap Callers = {}

VARIABLES
  smu,          \* who holds s.mu: a caller, "stop" or None
  connections,  \* s.connections
  wg,           \* the goroutines s.wg counts
  draining,     \* s.state is serverDraining
  conn,         \* for each client, where its request or its goroutine is
  over,         \* the connections whose Done() is closed
  queue,        \* for each client, how much is in its write queue
  caller,       \* for each caller, the call it is in
  stop,         \* where Stop is
  calls,        \* how many calls there were
  early, late   \* history: clients whose serveWS had returned when Stop took
                \* s.mu, and clients registered after that

srvVars == <<smu, connections, wg, draining, conn, over, queue, caller, stop, calls, early, late>>
story == <<early, late>>

NoCallYet == [pc |-> "idle", on |-> {}]

ServerInit ==
  /\ smu = None /\ connections = {} /\ wg = {} /\ draining = FALSE
  /\ conn = [c \in Clients |-> "new"] /\ over = {}
  /\ queue = [c \in Clients |-> 0]
  /\ caller = [p \in Callers |-> NoCallYet]
  /\ stop = "idle" /\ calls = 0 /\ early = {} /\ late = {}

Unlocked == smu = None
Moves(c, pc) == conn' = [conn EXCEPT ![c] = pc]

-----------------------------------------------------------------------------
(* serveWS and the goroutine it starts *)

Asks(c) ==
  /\ conn[c] = "new" /\ stop = "idle" /\ Unlocked
  /\ Moves(c, IF draining THEN "refused" ELSE "upgrade")
  /\ UNCHANGED <<smu, connections, wg, draining, over, queue, caller, stop, calls, story>>

(* Hijacked, the request is no longer one that Shutdown waits for. *)
Upgrade(c) ==
  /\ conn[c] = "upgrade"
  /\ Moves(c, "hijacked") \/ Moves(c, "refused")
  /\ UNCHANGED <<smu, connections, wg, draining, over, queue, caller, stop, calls, story>>

Register(c) ==
  /\ conn[c] = "hijacked" /\ Unlocked
  /\ connections' = connections \cup {c}
  /\ late' = IF stop \in {"wait", "returned"} THEN late \cup {c} ELSE late
  /\ Moves(c, "registered")
  /\ UNCHANGED <<smu, wg, draining, over, queue, caller, stop, calls, early>>

Serve(c) ==
  /\ conn[c] = "registered"
  /\ wg' = wg \cup {c}
  /\ Moves(c, "running")
  /\ UNCHANGED <<smu, connections, draining, over, queue, caller, stop, calls, story>>

(* The peer, or a read or write error. *)
PeerEnds(c) ==
  /\ conn[c] = "running" /\ c \notin over
  /\ over' = over \cup {c}
  /\ UNCHANGED <<smu, connections, wg, draining, conn, queue, caller, stop, calls, story>>

QueueDrains(c) ==
  /\ conn[c] = "running" /\ c \notin over /\ queue[c] > 0
  /\ queue' = [queue EXCEPT ![c] = @ - 1]
  /\ UNCHANGED <<smu, connections, wg, draining, conn, over, caller, stop, calls, story>>

(* Mutant: s.wg.Done() comes before the entry is deleted. *)
DoneFirst(c) ==
  /\ conn[c] = "running" /\ c \in over
  /\ wg' = wg \ {c}
  /\ Moves(c, "disconnected")
  /\ UNCHANGED <<smu, connections, draining, over, queue, caller, stop, calls, story>>

(* HandleDisconnect, Unsubscribe and UnsubscribeAll, none under s.mu. *)
HandleDisconnect(c) ==
  /\ conn[c] = "running" /\ c \in over
  /\ Moves(c, "disconnected")
  /\ UNCHANGED <<smu, connections, wg, draining, over, queue, caller, stop, calls, story>>

CleanUpEntry(c) ==
  /\ conn[c] = "disconnected" /\ Unlocked
  /\ connections' = connections \ {c}
  /\ Moves(c, "deleted")
  /\ UNCHANGED <<smu, wg, draining, over, queue, caller, stop, calls, story>>

GoroutineEnds(c) ==
  /\ conn[c] = "deleted"
  /\ wg' = wg \ {c}
  /\ Moves(c, "ended")
  /\ UNCHANGED <<smu, connections, draining, over, queue, caller, stop, calls, story>>

-----------------------------------------------------------------------------
(* Calls from outside *)

Calls(p, pc, on) ==
  /\ caller[p] = NoCallYet /\ Unlocked /\ calls < MaxCalls
  /\ calls' = calls + 1
  /\ caller' = [caller EXCEPT ![p] = [pc |-> pc, on |-> on]]

Returned(p) == caller' = [caller EXCEPT ![p] = NoCallYet]

Drain(p) ==
  /\ Calls(p, "idle", {})
  /\ draining' = TRUE
  /\ UNCHANGED <<smu, connections, wg, conn, over, queue, stop, story>>

(* Kick looks the client up under s.mu and closes it without. *)
KickLookUp(p, c) ==
  /\ c \in connections
  /\ Calls(p, "kick", {c})
  /\ UNCHANGED <<smu, connections, wg, draining, conn, over, queue, stop, story>>

Kick(p) ==
  /\ caller[p].pc = "kick"
  /\ over' = over \cup caller[p].on
  /\ Returned(p)
  /\ UNCHANGED <<smu, connections, wg, draining, conn, queue, stop, calls, story>>

BroadcastLock(p, excluded) ==
  /\ Calls(p, "broadcast", connections \ excluded)
  /\ smu' = p
  /\ UNCHANGED <<connections, wg, draining, conn, over, queue, stop, story>>

(* Mutant: a Write that waits for room does not look at Done(). *)
BroadcastWaits(p, c) ==
  /\ caller[p].pc = "broadcast" /\ c \in caller[p].on
  /\ queue[c] < QueueCap
  /\ queue' = [queue EXCEPT ![c] = @ + 1]
  /\ caller' = [caller EXCEPT ![p].on = @ \ {c}]
  /\ UNCHANGED <<smu, connections, wg, draining, conn, over, stop, calls, story>>

(* conn.Write: it fails when Done() is closed and waits for room otherwise. *)
BroadcastWrite(p, c) ==
  /\ caller[p].pc = "broadcast" /\ c \in caller[p].on
  /\ \/ queue[c] < QueueCap /\ queue' = [queue EXCEPT ![c] = @ + 1]
     \/ c \in over /\ UNCHANGED queue
  /\ caller' = [caller EXCEPT ![p].on = @ \ {c}]
  /\ UNCHANGED <<smu, connections, wg, draining, conn, over, stop, calls, story>>

BroadcastUnlock(p) ==
  /\ caller[p] = [pc |-> "broadcast", on |-> {}]
  /\ smu' = None
  /\ Returned(p)
  /\ UNCHANGED <<connections, wg, draining, conn, over, queue, stop, calls, story>>

-----------------------------------------------------------------------------
(* Stop *)

(* httpSrv.Shutdown closes the listeners and waits for requests that are   *)
(* not hijacked, five seconds at most.                                     *)
Shutdown ==
  /\ stop = "idle"
  /\ stop' = "shutdown"
  /\ UNCHANGED <<smu, connections, wg, draining, conn, over, queue, caller, calls, story>>

StopLock ==
  /\ stop = "shutdown" /\ Unlocked
  /\ smu' = "stop" /\ stop' = "closing"
  /\ early' = {c \in Clients : conn[c] \notin {"new", "refused", "upgrade", "hijacked", "registered"}}
  /\ UNCHANGED <<connections, wg, draining, conn, over, queue, caller, calls, late>>

(* Close comes to its end even if nobody reads, see Connection. *)
StopClose(c) ==
  /\ stop = "closing" /\ c \in connections \ over
  /\ over' = over \cup {c}
  /\ UNCHANGED <<smu, connections, wg, draining, conn, queue, caller, stop, calls, story>>

(* Mutant: s.mu stays locked, as with a deferred Unlock. *)
StopHolding ==
  /\ stop = "closing" /\ connections \subseteq over
  /\ stop' = "wait"
  /\ UNCHANGED <<smu, connections, wg, draining, conn, over, queue, caller, calls, story>>

StopUnlock ==
  /\ stop = "closing" /\ connections \subseteq over
  /\ smu' = None /\ stop' = "wait"
  /\ UNCHANGED <<connections, wg, draining, conn, over, queue, caller, calls, story>>

StopReturns ==
  /\ stop = "wait" /\ wg = {}
  /\ smu' = IF smu = "stop" THEN None ELSE smu
  /\ stop' = "returned"
  /\ UNCHANGED <<connections, wg, draining, conn, over, queue, caller, calls, story>>

-----------------------------------------------------------------------------
Lives(c) ==
  \/ Upgrade(c) \/ Register(c) \/ Serve(c)
  \/ HandleDisconnect(c) \/ CleanUpEntry(c) \/ GoroutineEnds(c)
Finishes(p) == Kick(p) \/ BroadcastUnlock(p) \/ \E c \in Clients : BroadcastWrite(p, c)
Stops == StopLock \/ StopUnlock \/ StopReturns \/ \E c \in Clients : StopClose(c)

ServerNext ==
  \/ \E c \in Clients : Asks(c) \/ PeerEnds(c) \/ QueueDrains(c) \/ Lives(c)
  \/ \E p \in Callers : \/ Drain(p) \/ Finishes(p)
                        \/ \E c \in Clients : KickLookUp(p, c) \/ BroadcastLock(p, {c})
                        \/ BroadcastLock(p, {})
  \/ Shutdown \/ Stops

(* The server has stopped and nobody is left. *)
ServerQuiet ==
  /\ stop = "returned" /\ caller = [p \in Callers |-> NoCallYet]
  /\ \A c \in Clients : conn[c] \in {"new", "refused", "ended"}
  /\ UNCHANGED srvVars

(* Goroutines run, and a connection is read from or breaks. *)
ServerSpec ==
  /\ ServerInit /\ [][ServerNext \/ ServerQuiet]_srvVars
  /\ \A c \in Clients : WF_srvVars(Lives(c)) /\ WF_srvVars(QueueDrains(c))
  /\ \A p \in Callers : WF_srvVars(Finishes(p))
  /\ WF_srvVars(Stops)

-----------------------------------------------------------------------------
(* Properties *)

(* s.connections and s.wg know a client from and to where serveWS says, and *)
(* s.mu is held by whoever is in its critical section.                      *)
ServerTypeOK ==
  /\ connections = {c \in Clients : conn[c] \in {"registered", "running", "disconnected"}}
  /\ wg = {c \in Clients : conn[c] \in {"running", "disconnected", "deleted"}}
  /\ smu = IF stop = "closing" THEN "stop"
           ELSE IF \E p \in Callers : caller[p].pc = "broadcast"
           THEN CHOOSE p \in Callers : caller[p].pc = "broadcast" ELSE None
  /\ over \subseteq Clients /\ calls \in 0..MaxCalls
  /\ \A c \in Clients : queue[c] \in 0..QueueCap

(* When Stop has returned, every connection that was being served when it  *)
(* began to close them is gone: its goroutine and its entry.               *)
StopWaits == stop = "returned" => \A c \in early : conn[c] = "ended" /\ c \notin connections

(* Stop comes to its end, unless a request that was being upgraded became  *)
(* a connection after Stop had closed them all. And a connection that is   *)
(* over and was started leaves s.connections, whoever waits for s.mu.      *)
Leaving == {c \in connections \cap over : conn[c] # "registered"}

StopEnds ==
  /\ stop = "shutdown" ~> stop = "returned" \/ late # {}
  /\ Leaving # {} ~> Leaving = {}

=============================================================================

--------------------------------- MODULE Static ---------------------------------
(***************************************************************************)
(* The static file servers that :serve starts and stops                    *)
(* (internal/server/static.go): a map from ports to servers under a lock,  *)
(* and one goroutine for each server, which listens outside of it.         *)
(***************************************************************************)
EXTENDS Naturals, Sequences, FiniteSets, Absent

CONSTANTS Ports,
          Stoppers,     \* the commands that may run Stop or StopAll
          MaxServers    \* bound: servers that are started

ASSUME StaticAssumption == MaxServers \in Nat /\ None \notin Nat

VARIABLES
  servers,   \* for each port, the server in the map or None
  at,        \* of each server started: its port
  listener,  \* of each server: "new", "listening", "failed", "gone"
  shutdown,  \* the servers whose Shutdown was called
  taken,     \* the ports another program holds
  stopping,  \* of each stopper: the server it is about to shut down, None otherwise
  todo,      \* of each stopper: the ports StopAll has still to stop
  crossed    \* history: ports where a listener failed after its entry was replaced

statVars == <<servers, at, listener, shutdown, taken, stopping, todo, crossed>>

StaticInit ==
  /\ servers = [p \in Ports |-> None] /\ at = <<>> /\ listener = <<>> /\ shutdown = {}
  /\ taken \in SUBSET Ports
  /\ stopping = [s \in Stoppers |-> None] /\ todo = [s \in Stoppers |-> {}] /\ crossed = {}

Started == DOMAIN at
HoldsPort(p) == {i \in Started : at[i] = p /\ listener[i] = "listening"}

-----------------------------------------------------------------------------
(* Mutant: the port may be in use by another static server. *)
StartAnyway(p) ==
  /\ Cardinality(Started) < MaxServers
  /\ LET i == Cardinality(Started) + 1 IN
     /\ at' = Append(at, p) /\ listener' = Append(listener, "new")
     /\ servers' = [servers EXCEPT ![p] = i]
  /\ UNCHANGED <<shutdown, taken, stopping, todo, crossed>>

Start(p) ==
  /\ Cardinality(Started) < MaxServers /\ servers[p] = None
  /\ LET i == Cardinality(Started) + 1 IN
     /\ at' = Append(at, p) /\ listener' = Append(listener, "new")
     /\ servers' = [servers EXCEPT ![p] = i]
  /\ UNCHANGED <<shutdown, taken, stopping, todo, crossed>>

(* ListenAndServe: nothing after Shutdown, an error if the port is held.   *)
Listen(i) ==
  /\ listener[i] = "new"
  /\ listener' = [listener EXCEPT ![i] =
       CASE i \in shutdown -> "gone"
         [] i \notin shutdown /\ at[i] \in taken -> "failed"
         [] i \notin shutdown /\ HoldsPort(at[i]) # {} -> "failed"
         [] OTHER -> "listening"]
  /\ UNCHANGED <<servers, at, shutdown, taken, stopping, todo, crossed>>

(* The entry of the port is deleted, whosever it is. *)
RemoveFailed(i) ==
  /\ listener[i] = "failed"
  /\ listener' = [listener EXCEPT ![i] = "gone"]
  /\ servers' = [servers EXCEPT ![at[i]] = None]
  /\ crossed' = IF servers[at[i]] \notin {None, i} THEN crossed \cup {at[i]} ELSE crossed
  /\ UNCHANGED <<at, shutdown, taken, stopping, todo>>

(* Stop takes the entry out under the lock and shuts its server down after *)
(* that; a port without an entry is an error.                              *)
StopPort(s, p) ==
  /\ stopping[s] = None
  /\ stopping' = [stopping EXCEPT ![s] = servers[p]] /\ servers' = [servers EXCEPT ![p] = None]
  /\ UNCHANGED <<at, listener, shutdown, taken, crossed>>

Stop(s) == todo[s] = {} /\ (\E p \in Ports : servers[p] # None /\ StopPort(s, p)) /\ UNCHANGED todo

Shutdown(s) ==
  /\ stopping[s] # None /\ stopping' = [stopping EXCEPT ![s] = None]
  /\ shutdown' = shutdown \cup {stopping[s]}
  /\ listener' = [listener EXCEPT ![stopping[s]] = IF @ = "listening" THEN "gone" ELSE @]
  /\ UNCHANGED <<servers, at, taken, todo, crossed>>

(* StopAll notes the ports under the lock and stops one after the other. *)
StopAll(s) ==
  /\ stopping[s] = None /\ todo[s] = {}
  /\ {p \in Ports : servers[p] # None} # {}
  /\ todo' = [todo EXCEPT ![s] = {p \in Ports : servers[p] # None}]
  /\ UNCHANGED <<servers, at, listener, shutdown, taken, stopping, crossed>>

StopAllNext(s) ==
  \E p \in todo[s] : StopPort(s, p) /\ todo' = [todo EXCEPT ![s] = @ \ {p}]

(* Another program lets go of a port. *)
Release == \E p \in taken : taken' = taken \ {p} /\
             UNCHANGED <<servers, at, listener, shutdown, stopping, todo, crossed>>

StaticNext ==
  \/ \E p \in Ports : Start(p)
  \/ \E i \in Started : Listen(i) \/ RemoveFailed(i)
  \/ \E s \in Stoppers : Stop(s) \/ Shutdown(s) \/ StopAll(s) \/ StopAllNext(s)
  \/ Release

StaticQuiet ==
  /\ Cardinality(Started) = MaxServers
  /\ \A i \in Started : listener[i] \in {"listening", "gone"}
  /\ UNCHANGED statVars

StaticSpec == StaticInit /\ [][StaticNext \/ StaticQuiet]_statVars

-----------------------------------------------------------------------------
(* Properties *)

(* Every variable stays in its domain. *)
StaticTypeOK ==
  /\ Started \subseteq 1..MaxServers /\ DOMAIN listener = Started
  /\ \A p \in Ports : servers[p] = None \/ (servers[p] \in Started /\ at[servers[p]] = p)
  /\ \A i \in Started : at[i] \in Ports /\ listener[i] \in {"new", "listening", "failed", "gone"}
  /\ shutdown \subseteq Started /\ taken \subseteq Ports /\ crossed \subseteq Ports
  /\ \A s \in Stoppers : stopping[s] \in Started \cup {None} /\ todo[s] \subseteq Ports

(* Every server that listens, or is going to, can be stopped: it is in the *)
(* map or a command is stopping it, while servers start, fail and are      *)
(* replaced, unless a listener failed after its entry was replaced, which  *)
(* takes the entry of the other one away.                                  *)
Stoppable ==
  \A i \in Started :
    listener[i] \in {"new", "listening"} /\ i \notin shutdown =>
      servers[at[i]] = i \/ (\E s \in Stoppers : stopping[s] = i) \/ at[i] \in crossed

=============================================================================

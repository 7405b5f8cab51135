--------------------------- MODULE ServerLifeProofs ---------------------------
(***************************************************************************)
(* Theorems about the server, for any number of clients and callers and    *)
(* any capacity of a write queue (ServerLife), and for any handler names,  *)
(* builtins, files and number of commands (Sources, one at a time).        *)
(***************************************************************************)
EXTENDS ServerLife, Sources, SequenceLemmas, FiniteSetTheorems, TLAPS

-----------------------------------------------------------------------------
(* Connections: the inductive invariant *)

ConnStates == {"new", "refused", "upgrade", "hijacked", "registered",
               "running", "disconnected", "deleted", "ended"}
Entered == {"registered", "running", "disconnected"}
Counted == {"running", "disconnected", "deleted"}

DomainInv ==
  /\ conn \in [Clients -> ConnStates] /\ over \in SUBSET Clients
  /\ queue \in [Clients -> 0..QueueCap] /\ calls \in 0..MaxCalls
  /\ caller \in [Callers -> [pc : {"idle", "kick", "broadcast"}, on : SUBSET Clients]]
  /\ stop \in {"idle", "shutdown", "closing", "wait", "returned"}

(* s.connections and s.wg know a client from and to where serveWS says. *)
KnownInv ==
  /\ connections = {c \in Clients : conn[c] \in Entered}
  /\ wg = {c \in Clients : conn[c] \in Counted}

(* s.mu is held by Stop or by the only Broadcast there is. *)
Broadcasting(p) == caller[p].pc = "broadcast"

LockInv ==
  /\ stop = "closing" => smu = "stop"
  /\ \A p \in Callers : Broadcasting(p) => smu = p
  /\ smu # None => \/ smu = "stop" /\ stop = "closing"
                   \/ smu \in Callers /\ Broadcasting(smu)

(* Who was served when Stop took s.mu is being served or gone, and gone    *)
(* when Stop has returned.                                                 *)
EarlyInv ==
  /\ stop \in {"idle", "shutdown"} => early = {}
  /\ \A c \in early : c \in Clients /\ conn[c] \in Counted \cup {"ended"}
  /\ stop = "returned" => \A c \in early : conn[c] = "ended"

ServerInv == DomainInv /\ KnownInv /\ LockInv /\ EarlyInv

-----------------------------------------------------------------------------
(* Every step of the server keeps its invariant. *)
LEMMA StepServer == ServerInv /\ [ServerNext \/ ServerQuiet]_srvVars => ServerInv'
<1> SUFFICES ASSUME ServerInv, [ServerNext \/ ServerQuiet]_srvVars PROVE ServerInv'
  OBVIOUS
<1> USE ServerAssumption DEF ServerInv, story
<1>1. ASSUME NEW c \in Clients, Asks(c)
      PROVE  ServerInv'
  <2>1. DomainInv'
    BY <1>1 DEF Asks, Unlocked, Moves, DomainInv, ConnStates
  <2>2. KnownInv'
    BY <1>1 DEF Asks, Unlocked, Moves, KnownInv, DomainInv, Entered, Counted, ConnStates
  <2>3. LockInv'
    BY <1>1 DEF Asks, Unlocked, Moves, LockInv, DomainInv, Broadcasting
  <2>4. EarlyInv'
    BY <1>1 DEF Asks, Unlocked, Moves, EarlyInv, KnownInv, DomainInv, Counted
  <2>5. QED
    BY <2>1, <2>2, <2>3, <2>4
<1>2. ASSUME NEW c \in Clients, PeerEnds(c)
      PROVE  ServerInv'
  <2>1. DomainInv'
    BY <1>2 DEF PeerEnds, DomainInv, ConnStates
  <2>2. KnownInv'
    BY <1>2 DEF PeerEnds, KnownInv, DomainInv, Entered, Counted, ConnStates
  <2>3. LockInv'
    BY <1>2 DEF PeerEnds, LockInv, DomainInv, Broadcasting
  <2>4. EarlyInv'
    BY <1>2 DEF PeerEnds, EarlyInv, KnownInv, DomainInv, Counted
  <2>5. QED
    BY <2>1, <2>2, <2>3, <2>4
<1>3. ASSUME NEW c \in Clients, QueueDrains(c)
      PROVE  ServerInv'
  <2>1. DomainInv'
    BY <1>3 DEF QueueDrains, DomainInv, ConnStates
  <2>2. KnownInv'
    BY <1>3 DEF QueueDrains, KnownInv, DomainInv, Entered, Counted, ConnStates
  <2>3. LockInv'
    BY <1>3 DEF QueueDrains, LockInv, DomainInv, Broadcasting
  <2>4. EarlyInv'
    BY <1>3 DEF QueueDrains, EarlyInv, KnownInv, DomainInv, Counted
  <2>5. QED
    BY <2>1, <2>2, <2>3, <2>4
<1>4. ASSUME NEW c \in Clients, Upgrade(c)
      PROVE  ServerInv'
  <2>1. DomainInv'
    BY <1>4 DEF Upgrade, Moves, DomainInv, ConnStates
  <2>2. KnownInv'
    BY <1>4 DEF Upgrade, Moves, KnownInv, DomainInv, Entered, Counted, ConnStates
  <2>3. LockInv'
    BY <1>4 DEF Upgrade, Moves, LockInv, DomainInv, Broadcasting
  <2>4. EarlyInv'
    BY <1>4 DEF Upgrade, Moves, EarlyInv, KnownInv, DomainInv, Counted
  <2>5. QED
    BY <2>1, <2>2, <2>3, <2>4
<1>5. ASSUME NEW c \in Clients, Register(c)
      PROVE  ServerInv'
  <2>1. DomainInv'
    BY <1>5 DEF Register, Unlocked, Moves, DomainInv, ConnStates
  <2>2. KnownInv'
    BY <1>5 DEF Register, Unlocked, Moves, KnownInv, DomainInv, Entered, Counted, ConnStates
  <2>3. LockInv'
    BY <1>5 DEF Register, Unlocked, Moves, LockInv, DomainInv, Broadcasting
  <2>4. EarlyInv'
    BY <1>5 DEF Register, Unlocked, Moves, EarlyInv, KnownInv, DomainInv, Counted
  <2>5. QED
    BY <2>1, <2>2, <2>3, <2>4
<1>6. ASSUME NEW c \in Clients, Serve(c)
      PROVE  ServerInv'
  <2>1. DomainInv'
    BY <1>6 DEF Serve, Moves, DomainInv, ConnStates
  <2>2. KnownInv'
    BY <1>6 DEF Serve, Moves, KnownInv, DomainInv, Entered, Counted, ConnStates
  <2>3. LockInv'
    BY <1>6 DEF Serve, Moves, LockInv, DomainInv, Broadcasting
  <2>4. EarlyInv'
    BY <1>6 DEF Serve, Moves, EarlyInv, KnownInv, DomainInv, Counted
  <2>5. QED
    BY <2>1, <2>2, <2>3, <2>4
<1>7. ASSUME NEW c \in Clients, HandleDisconnect(c)
      PROVE  ServerInv'
  <2>1. DomainInv'
    BY <1>7 DEF HandleDisconnect, Moves, DomainInv, ConnStates
  <2>2. KnownInv'
    BY <1>7 DEF HandleDisconnect, Moves, KnownInv, DomainInv, Entered, Counted, ConnStates
  <2>3. LockInv'
    BY <1>7 DEF HandleDisconnect, Moves, LockInv, DomainInv, Broadcasting
  <2>4. EarlyInv'
    BY <1>7 DEF HandleDisconnect, Moves, EarlyInv, KnownInv, DomainInv, Counted
  <2>5. QED
    BY <2>1, <2>2, <2>3, <2>4
<1>8. ASSUME NEW c \in Clients, CleanUpEntry(c)
      PROVE  ServerInv'
  <2>1. DomainInv'
    BY <1>8 DEF CleanUpEntry, Unlocked, Moves, DomainInv, ConnStates
  <2>2. KnownInv'
    BY <1>8 DEF CleanUpEntry, Unlocked, Moves, KnownInv, DomainInv, Entered, Counted, ConnStates
  <2>3. LockInv'
    BY <1>8 DEF CleanUpEntry, Unlocked, Moves, LockInv, DomainInv, Broadcasting
  <2>4. EarlyInv'
    BY <1>8 DEF CleanUpEntry, Unlocked, Moves, EarlyInv, KnownInv, DomainInv, Counted
  <2>5. QED
    BY <2>1, <2>2, <2>3, <2>4
<1>9. ASSUME NEW c \in Clients, GoroutineEnds(c)
      PROVE  ServerInv'
  <2>1. DomainInv'
    BY <1>9 DEF GoroutineEnds, Moves, DomainInv, ConnStates
  <2>2. KnownInv'
    BY <1>9 DEF GoroutineEnds, Moves, KnownInv, DomainInv, Entered, Counted, ConnStates
  <2>3. LockInv'
    BY <1>9 DEF GoroutineEnds, Moves, LockInv, DomainInv, Broadcasting
  <2>4. EarlyInv'
    BY <1>9 DEF GoroutineEnds, Moves, EarlyInv, KnownInv, DomainInv, Counted
  <2>5. QED
    BY <2>1, <2>2, <2>3, <2>4
<1>10. ASSUME NEW p \in Callers, Drain(p)
       PROVE  ServerInv'
  <2>1. DomainInv'
    BY <1>10 DEF Drain, Calls, NoCallYet, Unlocked, DomainInv, ConnStates
  <2>2. KnownInv'
    BY <1>10 DEF Drain, Calls, NoCallYet, Unlocked, KnownInv, DomainInv, Entered, Counted, ConnStates
  <2>3. LockInv'
    BY <1>10 DEF Drain, Calls, NoCallYet, Unlocked, LockInv, DomainInv, Broadcasting
  <2>4. EarlyInv'
    BY <1>10 DEF Drain, Calls, NoCallYet, Unlocked, EarlyInv, KnownInv, DomainInv, Counted
  <2>5. QED
    BY <2>1, <2>2, <2>3, <2>4
<1>11. ASSUME NEW p \in Callers, Kick(p)
       PROVE  ServerInv'
  <2>1. DomainInv'
    BY <1>11 DEF Kick, Returned, NoCallYet, DomainInv, ConnStates
  <2>2. KnownInv'
    BY <1>11 DEF Kick, Returned, NoCallYet, KnownInv, DomainInv, Entered, Counted, ConnStates
  <2>3. LockInv'
    BY <1>11 DEF Kick, Returned, NoCallYet, LockInv, DomainInv, Broadcasting
  <2>4. EarlyInv'
    BY <1>11 DEF Kick, Returned, NoCallYet, EarlyInv, KnownInv, DomainInv, Counted
  <2>5. QED
    BY <2>1, <2>2, <2>3, <2>4
<1>12. ASSUME NEW p \in Callers, NEW c \in Clients, BroadcastWrite(p, c)
       PROVE  ServerInv'
  <2>1. DomainInv'
    BY <1>12 DEF BroadcastWrite, DomainInv, ConnStates
  <2>2. KnownInv'
    BY <1>12 DEF BroadcastWrite, KnownInv, DomainInv, Entered, Counted, ConnStates
  <2>3. LockInv'
    BY <1>12 DEF BroadcastWrite, LockInv, DomainInv, Broadcasting
  <2>4. EarlyInv'
    BY <1>12 DEF BroadcastWrite, EarlyInv, KnownInv, DomainInv, Counted
  <2>5. QED
    BY <2>1, <2>2, <2>3, <2>4
<1>13. ASSUME NEW p \in Callers, BroadcastUnlock(p)
       PROVE  ServerInv'
  <2>1. DomainInv'
    BY <1>13 DEF BroadcastUnlock, Returned, NoCallYet, DomainInv, ConnStates
  <2>2. KnownInv'
    BY <1>13 DEF BroadcastUnlock, Returned, NoCallYet, KnownInv, DomainInv, Entered, Counted, ConnStates
  <2>3. LockInv'
    BY <1>13 DEF BroadcastUnlock, Returned, NoCallYet, LockInv, DomainInv, Broadcasting
  <2>4. EarlyInv'
    BY <1>13 DEF BroadcastUnlock, Returned, NoCallYet, EarlyInv, KnownInv, DomainInv, Counted
  <2>5. QED
    BY <2>1, <2>2, <2>3, <2>4
<1>14. ASSUME NEW p \in Callers, NEW c \in Clients, KickLookUp(p, c)
       PROVE  ServerInv'
  <2>1. DomainInv'
    BY <1>14 DEF KickLookUp, Calls, NoCallYet, Unlocked, DomainInv, ConnStates
  <2>2. KnownInv'
    BY <1>14 DEF KickLookUp, Calls, NoCallYet, Unlocked, KnownInv, DomainInv, Entered, Counted, ConnStates
  <2>3. LockInv'
    BY <1>14 DEF KickLookUp, Calls, NoCallYet, Unlocked, LockInv, DomainInv, Broadcasting
  <2>4. EarlyInv'
    BY <1>14 DEF KickLookUp, Calls, NoCallYet, Unlocked, EarlyInv, KnownInv, DomainInv, Counted
  <2>5. QED
    BY <2>1, <2>2, <2>3, <2>4
<1>15. ASSUME NEW p \in Callers, NEW x \in SUBSET Clients, BroadcastLock(p, x)
       PROVE  ServerInv'
  <2>1. DomainInv'
    BY <1>15 DEF BroadcastLock, Calls, NoCallYet, Unlocked, DomainInv, KnownInv
  <2>2. KnownInv'
    BY <1>15 DEF BroadcastLock, Calls, NoCallYet, Unlocked, KnownInv, DomainInv, Entered, Counted, ConnStates
  <2>3. LockInv'
    BY <1>15 DEF BroadcastLock, Calls, NoCallYet, Unlocked, LockInv, DomainInv, Broadcasting
  <2>4. EarlyInv'
    BY <1>15 DEF BroadcastLock, Calls, NoCallYet, Unlocked, EarlyInv, KnownInv, DomainInv, Counted
  <2>5. QED
    BY <2>1, <2>2, <2>3, <2>4
<1>16. CASE Shutdown
  <2>1. DomainInv'
    BY <1>16 DEF Shutdown, DomainInv, ConnStates
  <2>2. KnownInv'
    BY <1>16 DEF Shutdown, KnownInv, DomainInv, Entered, Counted, ConnStates
  <2>3. LockInv'
    BY <1>16 DEF Shutdown, LockInv, DomainInv, Broadcasting
  <2>4. EarlyInv'
    BY <1>16 DEF Shutdown, EarlyInv, KnownInv, DomainInv, Counted
  <2>5. QED
    BY <2>1, <2>2, <2>3, <2>4
<1>17. CASE StopLock
  <2>1. DomainInv'
    BY <1>17 DEF StopLock, Unlocked, DomainInv, ConnStates
  <2>2. KnownInv'
    BY <1>17 DEF StopLock, Unlocked, KnownInv, DomainInv, Entered, Counted, ConnStates
  <2>3. LockInv'
    BY <1>17 DEF StopLock, Unlocked, LockInv, DomainInv, Broadcasting
  <2>4. EarlyInv'
    BY <1>17 DEF StopLock, Unlocked, EarlyInv, DomainInv, ConnStates, Counted
  <2>5. QED
    BY <2>1, <2>2, <2>3, <2>4
<1>18. CASE StopUnlock
  <2>1. DomainInv'
    BY <1>18 DEF StopUnlock, DomainInv, ConnStates
  <2>2. KnownInv'
    BY <1>18 DEF StopUnlock, KnownInv, DomainInv, Entered, Counted, ConnStates
  <2>3. LockInv'
    BY <1>18 DEF StopUnlock, LockInv, DomainInv, Broadcasting
  <2>4. EarlyInv'
    BY <1>18 DEF StopUnlock, EarlyInv, KnownInv, DomainInv, Counted
  <2>5. QED
    BY <2>1, <2>2, <2>3, <2>4
<1>19. CASE StopReturns
  <2>1. DomainInv'
    BY <1>19 DEF StopReturns, DomainInv, ConnStates
  <2>2. KnownInv'
    BY <1>19 DEF StopReturns, KnownInv, DomainInv, Entered, Counted, ConnStates
  <2>3. LockInv'
    BY <1>19 DEF StopReturns, LockInv, DomainInv, Broadcasting
  <2>4. EarlyInv'
    BY <1>19 DEF StopReturns, EarlyInv, KnownInv, DomainInv, Counted
  <2>5. QED
    BY <2>1, <2>2, <2>3, <2>4
<1>20. ASSUME NEW c \in Clients, StopClose(c)
       PROVE  ServerInv'
  <2>1. DomainInv'
    BY <1>20 DEF StopClose, DomainInv, ConnStates
  <2>2. KnownInv'
    BY <1>20 DEF StopClose, KnownInv, DomainInv, Entered, Counted, ConnStates
  <2>3. LockInv'
    BY <1>20 DEF StopClose, LockInv, DomainInv, Broadcasting
  <2>4. EarlyInv'
    BY <1>20 DEF StopClose, EarlyInv, KnownInv, DomainInv, Counted
  <2>5. QED
    BY <2>1, <2>2, <2>3, <2>4
<1>21. CASE UNCHANGED srvVars
  BY <1>21 DEF srvVars, DomainInv, KnownInv, LockInv, EarlyInv, Broadcasting
<1>22. QED
  BY <1>1, <1>2, <1>3, <1>4, <1>5, <1>6, <1>7, <1>8, <1>9, <1>10, <1>11, <1>12,
     <1>13, <1>14, <1>15, <1>16, <1>17, <1>18, <1>19, <1>20, <1>21
    DEF ServerNext, Lives, Finishes, Stops, ServerQuiet

-----------------------------------------------------------------------------
(* The theorems *)

(* The server keeps the inductive invariant. *)
THEOREM ServerInductive == ServerSpec => []ServerInv
<1>1. ServerInit => ServerInv
  BY ServerAssumption
    DEF ServerInit, ServerInv, DomainInv, KnownInv, LockInv, EarlyInv, Broadcasting, NoCallYet,
        ConnStates, Entered, Counted
<1>2. ServerInv /\ [ServerNext \/ ServerQuiet]_srvVars => ServerInv'
  BY StepServer
<1>3. QED
  BY <1>1, <1>2, PTL DEF ServerSpec

(* s.connections and s.wg hold exactly the connections they should, and    *)
(* s.mu is held by Stop or by the one Broadcast that is under way.         *)
THEOREM ServerTypeCorrect == ServerSpec => []ServerTypeOK
<1>1. ServerInv => ServerTypeOK
  <2> SUFFICES ASSUME ServerInv PROVE ServerTypeOK
    OBVIOUS
  <2>1. /\ connections = {c \in Clients : conn[c] \in {"registered", "running", "disconnected"}}
        /\ wg = {c \in Clients : conn[c] \in {"running", "disconnected", "deleted"}}
    BY DEF ServerInv, KnownInv, Entered, Counted
  <2>2. over \subseteq Clients /\ calls \in 0..MaxCalls /\ \A c \in Clients : queue[c] \in 0..QueueCap
    BY DEF ServerInv, DomainInv
  <2>3. smu = IF stop = "closing" THEN "stop"
              ELSE IF \E p \in Callers : caller[p].pc = "broadcast"
              THEN CHOOSE p \in Callers : caller[p].pc = "broadcast" ELSE None
    BY DEF ServerInv, LockInv, Broadcasting
  <2>4. QED
    BY <2>1, <2>2, <2>3 DEF ServerTypeOK
<1>2. QED
  BY ServerInductive, <1>1, PTL

(* However clients come and go, are kicked and broadcast to meanwhile, a   *)
(* Stop that has returned leaves no connection that was being served when  *)
(* it began to close them: no goroutine, and no entry in s.connections.    *)
THEOREM ServerStopWaits == ServerSpec => []StopWaits
<1>1. ServerInv => StopWaits
  BY DEF ServerInv, EarlyInv, KnownInv, Entered, StopWaits
<1>2. QED
  BY ServerInductive, <1>1, PTL

-----------------------------------------------------------------------------
(* Sources: the inductive invariant *)

Started == [kind : SourceKinds \cap Builtins, pc : {"check", "connect", "active", "backoff", "ended"}, cancelled : BOOLEAN]

SrcShape ==
  /\ handlers \in [SourceNames -> Builtins \cup {None}] /\ off \in SUBSET {n \in SourceNames : Has(n)}
  /\ cancels \in [SourceNames -> DOMAIN goroutine \cup {None}]
  /\ goroutine \in Seq(Started) /\ \A i \in DOMAIN goroutine : goroutine[i].pc = "ended" => goroutine[i].cancelled
  /\ todo = [a \in Commanders |-> todo[a]]
  /\ commands \in 0..MaxCommands /\ astray \in BOOLEAN

(* What has an entry runs, and has one entry.                              *)
EntriesRun ==
  /\ \A n \in SourceNames : cancels[n] # None => ~goroutine[cancels[n]].cancelled
  /\ \A n, k \in SourceNames : cancels[n] # None /\ cancels[n] = cancels[k] => n = k

(* What runs has an entry.                                                 *)
Owned == \A i \in DOMAIN goroutine : ~goroutine[i].cancelled => \E n \in SourceNames : cancels[n] = i

(* The entry of a name is what the registry asks for.                      *)
Right(n) ==
  IF handlers[n] \in SourceKinds /\ n \notin off
  THEN cancels[n] # None /\ goroutine[cancels[n]].kind = handlers[n]
  ELSE cancels[n] = None

AgreeBut(names) == Owned /\ \A n \in SourceNames \ names : Right(n)

(* At most k sources are still to be started.                              *)
Room(k) == Len(goroutine) + k <= (commands + 1) * Cardinality(SourceNames)

(* What a command has left to do, and what it has undone meanwhile.        *)
Fresh(T) == T \in Commands /\ (~astray => AgreeBut({}))

Changing(T) ==
  \E n \in SourceNames :
    /\ T \in {<<<<"update", n, b>>, <<"start", n, b>>>> : b \in Builtins} \cup {<<<<"delete", n>>>>, <<<<"disable", n>>>>}
    /\ ~astray => AgreeBut({n}) /\ cancels[n] = None

(* The entry of n was given to k, which only has none if it will be       *)
(* renamed.                                                                *)
Moved(n, k) ==
  IF n = k THEN AgreeBut({})
  ELSE Has(n) /\ ~Has(k) =>
         /\ AgreeBut({n, k}) /\ cancels[n] = None
         /\ IF handlers[n] \in SourceKinds /\ n \notin off
            THEN cancels[k] # None /\ goroutine[cancels[k]].kind = handlers[n]
            ELSE cancels[k] = None

Renaming(T) == \E n, k \in SourceNames : T = <<<<"rename", n, k>>>> /\ (~astray => Moved(n, k))

Replacing(T) ==
  /\ T = <<<<"startAll">>>> \/ \E file \in Files : T = <<<<"replace", file>>, <<"startAll">>>>
  /\ ~astray => Owned /\ \A n \in SourceNames : cancels[n] = None

Enabling(T) ==
  \E n \in SourceNames :
    T = <<<<"startCurrent", n>>>> /\ (~astray => AgreeBut({n}) /\ (cancels[n] # None => Right(n)))

(* The names in a list of sources.                                         *)
NamesOf(T) == {T[i][2] : i \in DOMAIN T}

(* The sources that are left to start: none, when the command is over.     *)
Starting(T) ==
  /\ T \in Seq({"start", "launch"} \X SourceNames \X Builtins) /\ Room(Len(T))
  /\ \A i \in DOMAIN T : /\ handlers[T[i][2]] = T[i][3]
                         /\ T[i][1] = "launch" => i = 1 /\ T[i][3] \in SourceKinds /\ T[i][2] \notin off
  /\ \A i, j \in DOMAIN T : T[i][2] = T[j][2] => i = j
  /\ ~astray => /\ AgreeBut(NamesOf(T))
                /\ \A i \in DOMAIN T : cancels[T[i][2]] # None => Right(T[i][2])

Doing(T) ==
  \/ Room(Cardinality(SourceNames)) /\ (Fresh(T) \/ Changing(T) \/ Renaming(T) \/ Replacing(T) \/ Enabling(T))
  \/ Starting(T)

SourcesInv == SrcShape /\ EntriesRun /\ \A a \in Commanders : Doing(todo[a])

(* Which step a command makes tells which command it is.                   *)
LEMMA CommandForms ==
  ASSUME NEW T \in Commands
  PROVE  /\ T # <<>>
         /\ \/ \E n \in SourceNames, b \in Builtins : T = <<<<"add", n, b>>, <<"start", n, b>>>>
            \/ \E n \in SourceNames, b \in Builtins : T = <<<<"stop", n>>, <<"update", n, b>>, <<"start", n, b>>>>
            \/ \E n \in SourceNames : T = <<<<"stop", n>>, <<"delete", n>>>>
            \/ \E n \in SourceNames : T = <<<<"enable", n>>, <<"startCurrent", n>>>>
            \/ \E n \in SourceNames : T = <<<<"stop", n>>, <<"disable", n>>>>
            \/ \E n, k \in SourceNames : T = <<<<"move", n, k>>, <<"rename", n, k>>>>
            \/ \E file \in Files : T = <<<<"stopAll">>, <<"replace", file>>, <<"startAll">>>>
<1>1. \/ \E n \in SourceNames, b \in Builtins : T = AddHandler(n, b) \/ T = UpdateHandler(n, b)
      \/ \E n \in SourceNames : T = DeleteHandler(n) \/ T = EnableHandler(n) \/ T = DisableHandler(n)
      \/ \E n, k \in SourceNames : T = RenameHandler(n, k)
      \/ \E file \in Files : T = ReloadHandlers(file)
  <2>1. \/ T \in UNION {{AddHandler(n, b), UpdateHandler(n, b)} : n \in SourceNames, b \in Builtins}
        \/ T \in UNION {{DeleteHandler(n), EnableHandler(n), DisableHandler(n)} : n \in SourceNames}
        \/ T \in {RenameHandler(n, k) : n, k \in SourceNames}
        \/ T \in {ReloadHandlers(file) : file \in Files}
    BY DEF Commands
  <2>2. CASE T \in UNION {{AddHandler(n, b), UpdateHandler(n, b)} : n \in SourceNames, b \in Builtins}
    BY <2>2
  <2>3. CASE T \in UNION {{DeleteHandler(n), EnableHandler(n), DisableHandler(n)} : n \in SourceNames}
    BY <2>3
  <2>4. QED
    BY <2>1, <2>2, <2>3
<1>2. CASE \E n \in SourceNames, b \in Builtins : T = AddHandler(n, b) \/ T = UpdateHandler(n, b)
  BY <1>2 DEF AddHandler, UpdateHandler
<1>3. CASE \E n \in SourceNames : T = DeleteHandler(n) \/ T = EnableHandler(n) \/ T = DisableHandler(n)
  BY <1>3 DEF DeleteHandler, EnableHandler, DisableHandler
<1>4. CASE \E n, k \in SourceNames : T = RenameHandler(n, k)
  BY <1>4 DEF RenameHandler
<1>5. CASE \E file \in Files : T = ReloadHandlers(file)
  BY <1>5 DEF ReloadHandlers
<1>6. QED
  BY <1>1, <1>2, <1>3, <1>4, <1>5

(* The first step of what is left to start.                                *)
LEMMA StartingForms ==
  ASSUME NEW T, Starting(T), T # <<>>
  PROVE  /\ Head(T) = T[1] /\ 1 \in DOMAIN T /\ T[1][1] \in {"start", "launch"}
         /\ T[1][2] \in SourceNames /\ T[1][3] \in Builtins
<1>1. T \in Seq({"start", "launch"} \X SourceNames \X Builtins)
  BY DEF Starting
<1>2. Head(T) = T[1] /\ 1 \in DOMAIN T /\ T[1] \in {"start", "launch"} \X SourceNames \X Builtins
  BY <1>1, EmptySeq, LenProperties, HeadTailProperties, ElementOfSeq
<1>3. QED
  BY <1>2

(* What a command with this step has left to do, and what it has undone.   *)
LEMMA StepForms ==
  ASSUME NEW a \in Commanders, Doing(todo[a]), NEW op, Step(a, op)
  PROVE  LET T == todo[a]
             agreed == Room(Cardinality(SourceNames)) /\ (~astray => AgreeBut({})) IN
         /\ op \in {"start", "launch"} => Starting(T)
         /\ op \notin {"start", "launch"} => Room(Cardinality(SourceNames))
         /\ op = "add" => agreed /\ \E n \in SourceNames, b \in Builtins : T = <<<<"add", n, b>>, <<"start", n, b>>>>
         /\ op = "stop" => agreed /\ \E n \in SourceNames :
               \/ \E b \in Builtins : T = <<<<"stop", n>>, <<"update", n, b>>, <<"start", n, b>>>>
               \/ T = <<<<"stop", n>>, <<"delete", n>>>>
               \/ T = <<<<"stop", n>>, <<"disable", n>>>>
         /\ op = "enable" => agreed /\ \E n \in SourceNames : T = <<<<"enable", n>>, <<"startCurrent", n>>>>
         /\ op = "move" => agreed /\ \E n, k \in SourceNames : T = <<<<"move", n, k>>, <<"rename", n, k>>>>
         /\ op = "stopAll" => agreed /\ \E file \in Files : T = <<<<"stopAll">>, <<"replace", file>>, <<"startAll">>>>
         /\ op = "update" => \E n \in SourceNames, b \in Builtins :
               T = <<<<"update", n, b>>, <<"start", n, b>>>> /\ (~astray => AgreeBut({n}) /\ cancels[n] = None)
         /\ op \in {"delete", "disable"} => \E n \in SourceNames :
               T = <<<<op, n>>>> /\ (~astray => AgreeBut({n}) /\ cancels[n] = None)
         /\ op = "rename" => \E n, k \in SourceNames : T = <<<<"rename", n, k>>>> /\ (~astray => Moved(n, k))
         /\ op = "replace" => /\ \E file \in Files : T = <<<<"replace", file>>, <<"startAll">>>>
                              /\ ~astray => Owned /\ \A n \in SourceNames : cancels[n] = None
         /\ op = "startAll" => /\ T = <<<<"startAll">>>>
                               /\ ~astray => Owned /\ \A n \in SourceNames : cancels[n] = None
         /\ op = "startCurrent" => \E n \in SourceNames :
               T = <<<<"startCurrent", n>>>> /\ (~astray => AgreeBut({n}) /\ (cancels[n] # None => Right(n)))
<1> DEFINE T == todo[a]
<1>0. T # <<>> /\ Head(T)[1] = op
  BY DEF Step
<1>r. Starting(T) \/ Room(Cardinality(SourceNames))
  BY DEF Doing
<1>1. CASE Starting(T)
  <2>1. op \in {"start", "launch"}
    BY <1>0, <1>1, StartingForms
  <2>2. QED
    BY <1>1, <2>1
<1> HIDE DEF T
<1>2. CASE Fresh(T) /\ Room(Cardinality(SourceNames))
  <2>0. T \in Commands /\ (~astray => AgreeBut({}))
    BY <1>2 DEF Fresh
  <2>1. ASSUME NEW n \in SourceNames, NEW b \in Builtins, T = <<<<"add", n, b>>, <<"start", n, b>>>>
        PROVE  op = "add"
    BY <1>0, <2>1
  <2>2. ASSUME NEW n \in SourceNames, NEW b \in Builtins, T = <<<<"stop", n>>, <<"update", n, b>>, <<"start", n, b>>>>
        PROVE  op = "stop"
    BY <1>0, <2>2
  <2>3. ASSUME NEW n \in SourceNames, T = <<<<"stop", n>>, <<"delete", n>>>> \/ T = <<<<"stop", n>>, <<"disable", n>>>>
        PROVE  op = "stop"
    BY <1>0, <2>3
  <2>4. ASSUME NEW n \in SourceNames, T = <<<<"enable", n>>, <<"startCurrent", n>>>>
        PROVE  op = "enable"
    BY <1>0, <2>4
  <2>5. ASSUME NEW n \in SourceNames, NEW k \in SourceNames, T = <<<<"move", n, k>>, <<"rename", n, k>>>>
        PROVE  op = "move"
    BY <1>0, <2>5
  <2>6. ASSUME NEW file \in Files, T = <<<<"stopAll">>, <<"replace", file>>, <<"startAll">>>>
        PROVE  op = "stopAll"
    BY <1>0, <2>6
  <2>7. /\ \/ op = "add" /\ \E n \in SourceNames, b \in Builtins : T = <<<<"add", n, b>>, <<"start", n, b>>>>
           \/ op = "stop" /\ \E n \in SourceNames :
               \/ \E b \in Builtins : T = <<<<"stop", n>>, <<"update", n, b>>, <<"start", n, b>>>>
               \/ T = <<<<"stop", n>>, <<"delete", n>>>>
               \/ T = <<<<"stop", n>>, <<"disable", n>>>>
           \/ op = "enable" /\ \E n \in SourceNames : T = <<<<"enable", n>>, <<"startCurrent", n>>>>
           \/ op = "move" /\ \E n, k \in SourceNames : T = <<<<"move", n, k>>, <<"rename", n, k>>>>
           \/ op = "stopAll" /\ \E file \in Files : T = <<<<"stopAll">>, <<"replace", file>>, <<"startAll">>>>
    BY <2>0, <2>1, <2>2, <2>3, <2>4, <2>5, <2>6, CommandForms
  <2>8. QED
    BY <1>2, <2>0, <2>7 DEF T
<1>3. CASE Changing(T) /\ Room(Cardinality(SourceNames))
  <2>1. PICK n \in SourceNames :
          /\ T \in {<<<<"update", n, b>>, <<"start", n, b>>>> : b \in Builtins} \cup {<<<<"delete", n>>>>, <<<<"disable", n>>>>}
          /\ ~astray => AgreeBut({n}) /\ cancels[n] = None
    BY <1>3 DEF Changing
  <2>2. ASSUME NEW b \in Builtins, T = <<<<"update", n, b>>, <<"start", n, b>>>>
        PROVE  op = "update"
    BY <1>0, <2>2
  <2>3. ASSUME T = <<<<"delete", n>>>>
        PROVE  op = "delete"
    BY <1>0, <2>3
  <2>4. ASSUME T = <<<<"disable", n>>>>
        PROVE  op = "disable"
    BY <1>0, <2>4
  <2>5. \/ op = "update" /\ \E b \in Builtins : T = <<<<"update", n, b>>, <<"start", n, b>>>>
        \/ op \in {"delete", "disable"} /\ T = <<<<op, n>>>>
    BY <2>1, <2>2, <2>3, <2>4
  <2>6. QED
    BY <1>3, <2>1, <2>5 DEF T
<1>4. CASE Renaming(T) /\ Room(Cardinality(SourceNames))
  <2>1. PICK n, k \in SourceNames : T = <<<<"rename", n, k>>>> /\ (~astray => Moved(n, k))
    BY <1>4 DEF Renaming
  <2>2. op = "rename"
    BY <1>0, <2>1
  <2>3. QED
    BY <1>4, <2>1, <2>2 DEF T
<1>5. CASE Replacing(T) /\ Room(Cardinality(SourceNames))
  <2>1. ~astray => Owned /\ \A n \in SourceNames : cancels[n] = None
    BY <1>5 DEF Replacing
  <2>2. CASE T = <<<<"startAll">>>>
    <3>1. op = "startAll"
      BY <1>0, <2>2
    <3>2. QED
      BY <1>5, <2>1, <2>2, <3>1 DEF T
  <2>3. ASSUME NEW file \in Files, T = <<<<"replace", file>>, <<"startAll">>>>
        PROVE  op = "replace"
    BY <1>0, <2>3
  <2>4. CASE \E file \in Files : T = <<<<"replace", file>>, <<"startAll">>>>
    BY <1>5, <2>1, <2>3, <2>4 DEF T
  <2>5. QED
    BY <1>5, <2>2, <2>4 DEF Replacing
<1>6. CASE Enabling(T) /\ Room(Cardinality(SourceNames))
  <2>1. PICK n \in SourceNames : T = <<<<"startCurrent", n>>>> /\ (~astray => AgreeBut({n}) /\ (cancels[n] # None => Right(n)))
    BY <1>6 DEF Enabling
  <2>2. op = "startCurrent"
    BY <1>0, <2>1
  <2>3. QED
    BY <1>6, <2>1, <2>2 DEF T
<1>7. QED
  BY <1>1, <1>2, <1>3, <1>4, <1>5, <1>6 DEF Doing, T

(* The ends of a command, and its last step.                               *)
LEMMA ToRest ==
  ASSUME NEW u \in Commanders, todo'[u] = <<>>, Room(0)', ~astray' => AgreeBut({})'
  PROVE  Doing(todo[u])'
<1>1. DOMAIN todo'[u] = {} /\ Len(todo'[u]) = 0 /\ todo'[u] \in Seq({"start", "launch"} \X SourceNames \X Builtins)
  OBVIOUS
<1>2. NamesOf(todo'[u]) = {}
  BY <1>1 DEF NamesOf
<1> HIDE DEF Room, AgreeBut
<1>3. QED
  BY <1>1, <1>2 DEF Doing, Starting, NamesOf

(* The last step but one: the source is to be started.                     *)
LEMMA ToStart ==
  ASSUME NEW u \in Commanders, NEW n \in SourceNames, NEW b \in Builtins, todo'[u] = <<<<"start", n, b>>>>,
         Room(1)', handlers'[n] = b, ~astray' => AgreeBut({n})' /\ (cancels'[n] # None => Right(n)')
  PROVE  Doing(todo[u])'
<1>1. /\ DOMAIN todo'[u] = {1} /\ Len(todo'[u]) = 1 /\ todo'[u][1] = <<"start", n, b>>
      /\ todo'[u][1][1] = "start" /\ todo'[u][1][2] = n /\ todo'[u][1][3] = b
  OBVIOUS
<1>2. todo'[u] \in Seq({"start", "launch"} \X SourceNames \X Builtins)
  <2>1. <<"start", n, b>> \in {"start", "launch"} \X SourceNames \X Builtins
    OBVIOUS
  <2> HIDE DEF Room, AgreeBut, Right
  <2>2. QED
    BY <2>1
<1>3. NamesOf(todo'[u]) = {n}
  BY <1>1 DEF NamesOf
<1> HIDE DEF Room, AgreeBut, Right
<1>4. QED
  BY <1>1, <1>2, <1>3 DEF Doing, Starting, NamesOf

(* A step in the registry leaves the sources alone.                        *)
LEMMA RegistryStep ==
  ASSUME NEW u, Commanders = {u}, SourcesInv, UNCHANGED <<cancels, goroutine, commands>>,
         handlers' \in [SourceNames -> Builtins \cup {None}], off' \in SUBSET {n \in SourceNames : handlers'[n] # None},
         todo' = [todo EXCEPT ![u] = todo'[u]], astray' \in BOOLEAN, Doing(todo[u])'
  PROVE  SourcesInv'
<1>1. SrcShape'
  BY DEF SourcesInv, SrcShape, Has
<1>2. EntriesRun'
  BY DEF SourcesInv, EntriesRun
<1>3. QED
  BY <1>1, <1>2 DEF SourcesInv

(* Names the registry does not touch agree as before.                      *)
LEMMA SameSources ==
  ASSUME UNCHANGED <<cancels, goroutine>>
  PROVE  /\ Owned => Owned'
         /\ \A n \in SourceNames : handlers'[n] = handlers[n] /\ (n \in off' <=> n \in off) => (Right(n) <=> Right(n)')
<1>1. Owned => Owned'
  BY DEF Owned
<1>2. ASSUME NEW n \in SourceNames, handlers'[n] = handlers[n], n \in off' <=> n \in off
      PROVE  Right(n) <=> Right(n)'
  BY <1>2 DEF Right
<1>3. QED
  BY <1>1, <1>2

(* A step that is refused ends its command.                                *)
LEMMA RefuseStep ==
  ASSUME NEW u, Commanders = {u}, SourcesInv, todo[u] # <<>>, Refuse(u), UNCHANGED <<cancels, goroutine, commands>>,
         Room(Cardinality(SourceNames)), ~astray' => AgreeBut({})
  PROVE  SourcesInv'
<1>1. /\ todo' = [todo EXCEPT ![u] = <<>>] /\ UNCHANGED <<handlers, off>> /\ astray' \in BOOLEAN
      /\ todo'[u] = <<>>
  <2>1. todo = [a \in Commanders |-> todo[a]]
    BY DEF SourcesInv, SrcShape
  <2>2. QED
    BY <2>1 DEF Refuse, SourcesInv, SrcShape
<1>2. Cardinality(SourceNames) \in Nat
  BY SourcesAssumption, FS_CardinalityType
<1>3. Room(0)'
  <2>1. Len(goroutine) \in Nat /\ commands \in Nat
    BY LenProperties DEF SourcesInv, SrcShape
  <2> DEFINE r == (commands + 1) * Cardinality(SourceNames)
  <2>2. r \in Nat
    BY <1>2, <2>1
  <2>3. r' = r
    OBVIOUS
  <2> HIDE DEF r
  <2>4. QED
    BY <1>2, <2>1, <2>2, <2>3 DEF Room, r
<1>4. ~astray' => AgreeBut({})'
  BY <1>1, SameSources DEF AgreeBut
<1>5. Doing(todo[u])'
  BY <1>1, <1>3, <1>4, ToRest
<1>6. QED
  BY <1>1, <1>5, RegistryStep DEF SourcesInv, SrcShape, Has

(* The registry's steps.                                                   *)
LEMMA RegistrySteps ==
  ASSUME NEW u, Commanders = {u}, SourcesInv,
         \/ RegistryAdd(u) \/ RegistryUpdate(u) \/ RegistryDelete(u) \/ RegistryRename(u)
         \/ RegistryReplace(u) \/ RegistryEnable(u) \/ RegistryDisable(u)
  PROVE  SourcesInv'
<1> DEFINE T == todo[u]
           C == Cardinality(SourceNames)
<1>0. /\ u \in Commanders /\ Doing(T) /\ T = todo[u]
      /\ handlers \in [SourceNames -> Builtins \cup {None}] /\ off \in SUBSET {n \in SourceNames : Has(n)}
      /\ None \notin Builtins /\ None \notin SourceKinds /\ astray \in BOOLEAN
      /\ \A X : todo' = [todo EXCEPT ![u] = X] => todo'[u] = X /\ todo' = [todo EXCEPT ![u] = todo'[u]]
  BY SourcesAssumption DEF SourcesInv, SrcShape
<1>c. C \in Nat /\ \A n \in SourceNames : C >= 1
  <2>1. C \in Nat /\ (C = 0 <=> SourceNames = {})
    BY SourcesAssumption, FS_CardinalityType, FS_EmptySet
  <2>2. QED
    BY <2>1
<1>r. /\ \A k \in Nat : k <= C /\ Room(C) => Room(k)
      /\ UNCHANGED <<goroutine, commands>> => \A k \in Nat : Room(k) => Room(k)'
  <2>1. Len(goroutine) \in Nat /\ commands \in Nat
    BY LenProperties DEF SourcesInv, SrcShape
  <2> DEFINE r == (commands + 1) * C
  <2>2. r \in Nat
    BY <1>c, <2>1
  <2> HIDE DEF r, C
  <2>3. \A k \in Nat : Room(k) <=> Len(goroutine) + k <= r
    BY DEF Room, r, C
  <2>4. \A k \in Nat : k <= C /\ Room(C) => Room(k)
    BY <1>c, <2>1, <2>2, <2>3
  <2>5. QED
    BY <2>4 DEF Room
<1> HIDE DEF T, C
<1>1. CASE RegistryAdd(u)
  <2>1. /\ Step(u, "add") /\ UNCHANGED <<cancels, goroutine, commands>> /\ T # <<>>
    BY <1>1 DEF RegistryAdd, Step, T
  <2>2. Room(C) /\ (~astray => AgreeBut({})) /\ \E n \in SourceNames, b \in Builtins : T = <<<<"add", n, b>>, <<"start", n, b>>>>
    BY <1>0, <2>1, StepForms DEF T, C
  <2>3. CASE Refuse(u)
    <3>1. astray' = astray
      <4>1. Head(todo[u])[1] \notin {"update", "rename", "replace"}
        BY <2>1 DEF Step
      <4>2. QED
        BY <1>0, <2>3, <4>1, Zenon DEF Refuse
    <3>2. QED
      BY <2>1, <2>2, <2>3, <3>1, RefuseStep DEF T, C
  <2>4. CASE ~Refuse(u)
    <3>1. PICK n \in SourceNames, b \in Builtins : T = <<<<"add", n, b>>, <<"start", n, b>>>>
      BY <2>2
    <3>2. /\ ~Has(n) /\ handlers' = [handlers EXCEPT ![n] = b] /\ off' = off /\ astray' = astray
          /\ todo' = [todo EXCEPT ![u] = Tail(T)]
      BY <1>1, <2>4, <3>1 DEF RegistryAdd, Arg, Proceed, Advance, T
    <3>3. Tail(T) = <<<<"start", n, b>>>>
      BY <3>1
    <3>4. todo'[u] = <<<<"start", n, b>>>> /\ todo' = [todo EXCEPT ![u] = todo'[u]]
      BY <1>0, <3>2, <3>3
    <3>5. handlers'[n] = b /\ \A k \in SourceNames \ {n} : handlers'[k] = handlers[k]
      BY <1>0, <3>2
    <3>6. ASSUME ~astray'
          PROVE  AgreeBut({n})' /\ cancels'[n] = None
      <4>1. AgreeBut({}) /\ Right(n)
        BY <2>2, <3>2, <3>6 DEF AgreeBut
      <4>2. cancels[n] = None
        BY <1>0, <3>2, <4>1 DEF Right, Has
      <4>3. QED
        BY <2>1, <3>2, <3>5, <4>1, <4>2, SameSources DEF AgreeBut
    <3>7. Room(1)'
      BY <1>c, <1>r, <2>1, <2>2
    <3>8. Doing(todo[u])'
      BY <1>0, <3>4, <3>5, <3>6, <3>7, ToStart
    <3>9. handlers' \in [SourceNames -> Builtins \cup {None}] /\ off' \in SUBSET {k \in SourceNames : handlers'[k] # None}
      BY <1>0, <3>2, <3>5 DEF Has
    <3>10. QED
      BY <1>0, <2>1, <3>2, <3>4, <3>8, <3>9, RegistryStep
  <2>5. QED
    BY <2>3, <2>4
<1>2. CASE RegistryUpdate(u)
  <2>1. /\ Step(u, "update") /\ UNCHANGED <<cancels, goroutine, commands>> /\ T # <<>>
    BY <1>2 DEF RegistryUpdate, Step, T
  <2>2. Room(C) /\ \E n \in SourceNames, b \in Builtins :
               T = <<<<"update", n, b>>, <<"start", n, b>>>> /\ (~astray => AgreeBut({n}) /\ cancels[n] = None)
    <3>1. Room(C)
      BY <1>0, <2>1, StepForms DEF T, C
    <3>2. \E n \in SourceNames, b \in Builtins :
            T = <<<<"update", n, b>>, <<"start", n, b>>>> /\ (~astray => AgreeBut({n}) /\ cancels[n] = None)
      BY <1>0, <2>1, StepForms DEF T
    <3>3. QED
      BY <3>1, <3>2
  <2>3. CASE Refuse(u)
    <3>1. astray'
      BY <2>1, <2>3 DEF Refuse, Step
    <3>2. QED
      BY <2>1, <2>2, <2>3, <3>1, RefuseStep DEF T, C
  <2>4. CASE ~Refuse(u)
    <3>1. PICK n \in SourceNames, b \in Builtins :
            T = <<<<"update", n, b>>, <<"start", n, b>>>> /\ (~astray => AgreeBut({n}) /\ cancels[n] = None)
      BY <2>2
    <3>2. /\ Has(n) /\ handlers' = [handlers EXCEPT ![n] = b] /\ off' = off /\ astray' = astray
          /\ todo' = [todo EXCEPT ![u] = Tail(T)]
      BY <1>2, <2>4, <3>1 DEF RegistryUpdate, Arg, Proceed, Advance, T
    <3>3. Tail(T) = <<<<"start", n, b>>>>
      BY <3>1
    <3>4. todo'[u] = <<<<"start", n, b>>>> /\ todo' = [todo EXCEPT ![u] = todo'[u]]
      BY <1>0, <3>2, <3>3
    <3>5. handlers'[n] = b /\ \A k \in SourceNames \ {n} : handlers'[k] = handlers[k]
      BY <1>0, <3>2
    <3>6. ASSUME ~astray'
          PROVE  AgreeBut({n})' /\ cancels'[n] = None
      BY <2>1, <3>1, <3>2, <3>5, <3>6, SameSources DEF AgreeBut
    <3>7. Room(1)'
      BY <1>c, <1>r, <2>1, <2>2
    <3>8. Doing(todo[u])'
      BY <1>0, <3>4, <3>5, <3>6, <3>7, ToStart
    <3>9. handlers' \in [SourceNames -> Builtins \cup {None}] /\ off' \in SUBSET {k \in SourceNames : handlers'[k] # None}
      BY <1>0, <3>2, <3>5 DEF Has
    <3>10. QED
      BY <1>0, <2>1, <3>2, <3>4, <3>8, <3>9, RegistryStep
  <2>5. QED
    BY <2>3, <2>4
<1>3. CASE RegistryDelete(u) \/ RegistryDisable(u)
  <2>1. PICK op \in {"delete", "disable"} : Step(u, op) /\ (op = "delete" => RegistryDelete(u)) /\ (op = "disable" => RegistryDisable(u))
    BY <1>3 DEF RegistryDelete, RegistryDisable
  <2>2. UNCHANGED <<cancels, goroutine, commands>> /\ T # <<>>
    BY <2>1 DEF RegistryDelete, RegistryDisable, Step, T
  <2>3. Room(C) /\ \E n \in SourceNames : T = <<<<op, n>>>> /\ (~astray => AgreeBut({n}) /\ cancels[n] = None)
    BY <1>0, <2>1, StepForms, ZenonT(40) DEF T, C
  <2>4. PICK n \in SourceNames : T = <<<<op, n>>>> /\ (~astray => AgreeBut({n}) /\ cancels[n] = None)
    BY <2>3
  <2>5. Head(todo[u])[1] = op /\ Arg(u, 1) = n
    BY <2>4 DEF Arg, T
  <2>6. CASE ~Has(n)
    <3>1. Refuse(u)
      BY <2>1, <2>5, <2>6 DEF RegistryDelete, RegistryDisable
    <3>2. astray' = astray
      <4>1. Head(todo[u])[1] \notin {"update", "rename", "replace"}
        BY <2>1, <2>5
      <4>2. QED
        BY <1>0, <3>1, <4>1, Zenon DEF Refuse
    <3>3. ~astray' => AgreeBut({})
      BY <1>0, <2>4, <2>6, <3>2 DEF AgreeBut, Right, Has
    <3>4. QED
      BY <2>2, <2>3, <3>1, <3>3, RefuseStep DEF T, C
  <2>7. CASE Has(n)
    <3>1. /\ \/ op = "delete" /\ handlers' = [handlers EXCEPT ![n] = None] /\ off' = off \ {n}
             \/ op = "disable" /\ handlers' = handlers /\ off' = off \cup {n}
          /\ todo' = [todo EXCEPT ![u] = Tail(T)] /\ astray' = astray
      BY <2>1, <2>5, <2>7 DEF RegistryDelete, RegistryDisable, Proceed, Advance, T
    <3>2. todo'[u] = <<>> /\ todo' = [todo EXCEPT ![u] = todo'[u]]
      <4>1. Tail(T) = <<>>
        BY <2>4
      <4>2. QED
        BY <1>0, <3>1, <4>1
    <3>3. /\ \A k \in SourceNames \ {n} : handlers'[k] = handlers[k] /\ (k \in off' <=> k \in off)
          /\ handlers'[n] = None \/ n \in off'
      BY <1>0, <3>1
    <3>4. ASSUME ~astray'
          PROVE  AgreeBut({})'
      <4>1. Right(n)'
        BY <1>0, <2>2, <2>4, <3>1, <3>3, <3>4 DEF Right
      <4>2. QED
        BY <2>2, <2>4, <3>1, <3>3, <3>4, <4>1, SameSources DEF AgreeBut
    <3>5. Room(0)'
      BY <1>c, <1>r, <2>2, <2>3
    <3>6. Doing(todo[u])'
      BY <1>0, <3>2, <3>4, <3>5, ToRest
    <3>7. handlers' \in [SourceNames -> Builtins \cup {None}]
      BY <1>0, <3>1
    <3>8. off' \in SUBSET {k \in SourceNames : handlers'[k] # None}
      BY <1>0, <2>7, <3>1 DEF Has
    <3>9. QED
      BY <1>0, <2>2, <3>1, <3>2, <3>6, <3>7, <3>8, RegistryStep
  <2>8. QED
    BY <2>6, <2>7
<1>4. CASE RegistryEnable(u)
  <2>1. /\ Step(u, "enable") /\ UNCHANGED <<cancels, goroutine, commands>> /\ T # <<>>
    BY <1>4 DEF RegistryEnable, Step, T
  <2>2. Room(C) /\ (~astray => AgreeBut({})) /\ \E n \in SourceNames : T = <<<<"enable", n>>, <<"startCurrent", n>>>>
    BY <1>0, <2>1, StepForms DEF T, C
  <2>3. PICK n \in SourceNames : T = <<<<"enable", n>>, <<"startCurrent", n>>>>
    BY <2>2
  <2>4. Head(todo[u])[1] = "enable" /\ Arg(u, 1) = n
    BY <2>3 DEF Arg, T
  <2>5. CASE ~Has(n)
    <3>1. Refuse(u)
      BY <1>4, <2>4, <2>5 DEF RegistryEnable
    <3>2. astray' = astray
      <4>1. Head(todo[u])[1] \notin {"update", "rename", "replace"}
        BY <2>4
      <4>2. QED
        BY <1>0, <3>1, <4>1, Zenon DEF Refuse
    <3>3. QED
      BY <2>1, <2>2, <3>1, <3>2, RefuseStep DEF T, C
  <2>6. CASE Has(n)
    <3>1. /\ handlers' = handlers /\ off' = off \ {n}
          /\ todo' = [todo EXCEPT ![u] = Tail(T)] /\ astray' = astray
      BY <1>4, <2>4, <2>6 DEF RegistryEnable, Proceed, Advance, T
    <3>2. todo'[u] = <<<<"startCurrent", n>>>> /\ todo' = [todo EXCEPT ![u] = todo'[u]]
      <4>1. Tail(T) = <<<<"startCurrent", n>>>>
        BY <2>3
      <4>2. QED
        BY <1>0, <3>1, <4>1
    <3>3. \A k \in SourceNames \ {n} : handlers'[k] = handlers[k] /\ (k \in off' <=> k \in off)
      BY <3>1
    <3>4. ASSUME ~astray'
          PROVE  AgreeBut({n})' /\ (cancels'[n] # None => Right(n)')
      <4>1. AgreeBut({}) /\ Right(n)
        BY <2>2, <3>1, <3>4 DEF AgreeBut
      <4>2. cancels[n] # None => Right(n)'
        BY <2>1, <3>1, <4>1 DEF Right
      <4>3. QED
        BY <2>1, <3>3, <4>1, <4>2, SameSources DEF AgreeBut
    <3>5. Room(C)'
      BY <1>c, <1>r, <2>1, <2>2
    <3>6. Doing(todo[u])'
      <4>1. Enabling(todo[u])'
        BY <3>2, <3>4 DEF Enabling
      <4>2. QED
        BY <3>5, <4>1 DEF Doing, C
    <3>7. off' \in SUBSET {k \in SourceNames : handlers'[k] # None}
      BY <1>0, <3>1 DEF Has
    <3>8. QED
      BY <1>0, <2>1, <3>1, <3>2, <3>6, <3>7, RegistryStep
  <2>7. QED
    BY <2>5, <2>6
<1>5. CASE RegistryReplace(u)
  <2>1. /\ Step(u, "replace") /\ UNCHANGED <<cancels, goroutine, commands>> /\ T # <<>>
    BY <1>5 DEF RegistryReplace, Step, T
  <2>2. /\ Room(C) /\ \E file \in Files : T = <<<<"replace", file>>, <<"startAll">>>>
        /\ ~astray => Owned /\ \A n \in SourceNames : cancels[n] = None
    BY <1>0, <2>1, StepForms DEF T, C
  <2>3. CASE Refuse(u)
    <3>1. astray'
      BY <2>1, <2>3 DEF Refuse, Step
    <3>2. QED
      BY <2>1, <2>2, <2>3, <3>1, RefuseStep DEF T, C
  <2>4. CASE ~Refuse(u)
    <3>1. PICK file \in Files : T = <<<<"replace", file>>, <<"startAll">>>>
      BY <2>2
    <3>2. /\ handlers' = file /\ off' = {} /\ astray' = astray /\ todo' = [todo EXCEPT ![u] = Tail(T)]
      BY <1>5, <2>4, <3>1 DEF RegistryReplace, Arg, Proceed, Advance, T
    <3>3. todo'[u] = <<<<"startAll">>>> /\ todo' = [todo EXCEPT ![u] = todo'[u]]
      <4>1. Tail(T) = <<<<"startAll">>>>
        BY <3>1
      <4>2. QED
        BY <1>0, <3>2, <4>1
    <3>4. Doing(todo[u])'
      <4>1. Replacing(todo[u])'
        BY <2>1, <2>2, <3>2, <3>3, SameSources DEF Replacing
      <4>2. Room(C)'
        BY <1>c, <1>r, <2>1, <2>2
      <4>3. QED
        BY <4>1, <4>2 DEF Doing, C
    <3>5. handlers' \in [SourceNames -> Builtins \cup {None}] /\ off' \in SUBSET {k \in SourceNames : handlers'[k] # None}
      BY <3>2, SourcesAssumption
    <3>6. QED
      BY <1>0, <2>1, <3>2, <3>3, <3>4, <3>5, RegistryStep
  <2>5. QED
    BY <2>3, <2>4
<1>6. CASE RegistryRename(u)
  <2>1. /\ Step(u, "rename") /\ UNCHANGED <<cancels, goroutine, commands>> /\ T # <<>>
    BY <1>6 DEF RegistryRename, Step, T
  <2>2. Room(C) /\ \E n, k \in SourceNames : T = <<<<"rename", n, k>>>> /\ (~astray => Moved(n, k))
    BY <1>0, <2>1, StepForms DEF T, C
  <2>3. PICK n, k \in SourceNames : T = <<<<"rename", n, k>>>> /\ (~astray => Moved(n, k))
    BY <2>2
  <2>4. Head(todo[u])[1] = "rename" /\ Arg(u, 1) = n /\ Arg(u, 2) = k /\ Tail(T) = <<>>
    BY <2>3 DEF Arg, T
  <2>5. Room(0)'
    BY <1>c, <1>r, <2>1, <2>2
  <2>6. CASE n = k
    <3>1. handlers' = handlers /\ off' = off /\ todo' = [todo EXCEPT ![u] = Tail(T)] /\ astray' = astray
      BY <1>6, <2>4, <2>6 DEF RegistryRename, Proceed, Advance, T
    <3>2. todo'[u] = <<>> /\ todo' = [todo EXCEPT ![u] = todo'[u]]
      BY <1>0, <2>4, <3>1
    <3>3. ~astray' => AgreeBut({})'
      BY <2>1, <2>3, <2>6, <3>1, SameSources DEF AgreeBut, Moved
    <3>4. Doing(todo[u])'
      BY <1>0, <2>5, <3>2, <3>3, ToRest
    <3>5. handlers' \in [SourceNames -> Builtins \cup {None}] /\ off' \in SUBSET {x \in SourceNames : handlers'[x] # None}
      BY <1>0, <3>1 DEF Has
    <3>6. QED
      BY <1>0, <2>1, <3>1, <3>2, <3>4, <3>5, RegistryStep
  <2>7. CASE n # k /\ ~(Has(n) /\ ~Has(k))
    <3>1. Refuse(u)
      BY <1>6, <2>4, <2>7 DEF RegistryRename
    <3>2. astray'
      BY <2>4, <3>1 DEF Refuse
    <3>3. QED
      BY <2>1, <2>2, <3>1, <3>2, RefuseStep DEF T, C
  <2>8. CASE n # k /\ Has(n) /\ ~Has(k)
    <3>1. /\ handlers' = [handlers EXCEPT ![k] = handlers[n], ![n] = None]
          /\ off' = (IF n \in off THEN (off \ {n}) \cup {k} ELSE off)
          /\ todo' = [todo EXCEPT ![u] = Tail(T)] /\ astray' = astray
      BY <1>6, <2>4, <2>8 DEF RegistryRename, Proceed, Advance, T
    <3>2. todo'[u] = <<>> /\ todo' = [todo EXCEPT ![u] = todo'[u]]
      BY <1>0, <2>4, <3>1
    <3>3. /\ handlers'[k] = handlers[n] /\ handlers'[n] = None /\ k \notin off
          /\ \A x \in SourceNames \ {n, k} : handlers'[x] = handlers[x] /\ (x \in off' <=> x \in off)
          /\ k \in off' <=> n \in off
      BY <1>0, <2>8, <3>1 DEF Has
    <3>4. handlers' \in [SourceNames -> Builtins \cup {None}]
      BY <1>0, <3>1
    <3>5. off' \in SUBSET {x \in SourceNames : handlers'[x] # None}
      BY <1>0, <2>8, <3>1, <3>3 DEF Has
    <3>6. ASSUME ~astray'
          PROVE  AgreeBut({})'
      <4>1. /\ AgreeBut({n, k}) /\ cancels[n] = None
            /\ IF handlers[n] \in SourceKinds /\ n \notin off
               THEN cancels[k] # None /\ goroutine[cancels[k]].kind = handlers[n]
               ELSE cancels[k] = None
        BY <2>3, <2>8, <3>1, <3>6 DEF Moved
      <4>2. Right(n)'
        BY <1>0, <2>1, <3>3, <4>1 DEF Right
      <4>3. Right(k)'
        BY <2>1, <3>3, <4>1 DEF Right
      <4>4. \A x \in SourceNames \ {n, k} : Right(x)'
        BY <2>1, <3>3, <4>1, SameSources DEF AgreeBut
      <4>5. QED
        BY <2>1, <4>1, <4>2, <4>3, <4>4, SameSources DEF AgreeBut
    <3>7. Doing(todo[u])'
      BY <1>0, <2>5, <3>2, <3>6, ToRest
    <3>8. QED
      BY <1>0, <2>1, <3>1, <3>2, <3>4, <3>5, <3>7, RegistryStep
  <2>9. QED
    BY <2>6, <2>7, <2>8
<1>7. QED
  BY <1>1, <1>2, <1>3, <1>4, <1>5, <1>6

(* How the room for sources depends on what there is to start.             *)
LEMMA RoomFacts ==
  ASSUME SourcesInv
  PROVE  /\ Cardinality(SourceNames) \in Nat /\ \A n \in SourceNames : Cardinality(SourceNames) >= 1
         /\ \A k \in Nat : k <= Cardinality(SourceNames) /\ Room(Cardinality(SourceNames)) => Room(k)
         /\ UNCHANGED <<goroutine, commands>> => \A k \in Nat : Room(k) => Room(k)'
         /\ Len(goroutine') = Len(goroutine) /\ UNCHANGED commands => \A k \in Nat : Room(k) => Room(k)'
         /\ \A k \in Nat \ {0} : Room(k) => Room(k - 1)
         /\ Room(0) /\ UNCHANGED goroutine /\ commands' = commands + 1 => Room(Cardinality(SourceNames))'
<1> DEFINE C == Cardinality(SourceNames)
           r == (commands + 1) * C
<1>1. C \in Nat /\ (C = 0 <=> SourceNames = {})
  BY SourcesAssumption, FS_CardinalityType, FS_EmptySet
<1>2. Len(goroutine) \in Nat /\ commands \in Nat
  BY LenProperties DEF SourcesInv, SrcShape
<1>3. r \in Nat
  BY <1>1, <1>2
<1>4. commands' = commands + 1 => r' = r + C
  BY <1>1, <1>2
<1>5. commands' = commands => r' = r
  OBVIOUS
<1> HIDE DEF r, C
<1>6. \A k : (Room(k) <=> Len(goroutine) + k <= r) /\ (Room(k)' <=> Len(goroutine)' + k <= r')
  BY DEF Room, r, C
<1>7. \A k \in Nat : k <= C /\ Room(C) => Room(k)
  BY <1>1, <1>2, <1>3, <1>6
<1>8. Room(0) /\ UNCHANGED goroutine /\ commands' = commands + 1 => Room(C)'
  BY <1>1, <1>2, <1>3, <1>4, <1>6
<1>9. \A k \in Nat \ {0} : Room(k) => Room(k - 1)
  BY <1>2, <1>3, <1>6
<1>10. Len(goroutine') = Len(goroutine) /\ UNCHANGED commands => \A k \in Nat : Room(k) => Room(k)'
  BY <1>5, <1>6
<1>11. UNCHANGED <<goroutine, commands>> => \A k \in Nat : Room(k) => Room(k)'
  BY <1>10
<1>12. \A n \in SourceNames : C >= 1
  BY <1>1
<1>13. QED
  BY <1>1, <1>7, <1>8, <1>9, <1>10, <1>11, <1>12 DEF C

(* Between commands.                                                       *)
LEMMA AtRest ==
  ASSUME NEW u \in Commanders, Doing(todo[u]), todo[u] = <<>>
  PROVE  Room(0) /\ (~astray => AgreeBut({}))
<1> DEFINE T == todo[u]
<1>1. /\ \A x, y : T # <<x, y>> /\ T # <<x>>
  OBVIOUS
<1>2. ~Fresh(T) /\ ~Changing(T) /\ ~Renaming(T) /\ ~Replacing(T) /\ ~Enabling(T)
  <2>1. ~Fresh(T)
    BY CommandForms DEF Fresh
  <2> HIDE DEF T
  <2>2. ~Changing(T)
    BY <1>1 DEF Changing
  <2>3. ~Renaming(T) /\ ~Replacing(T) /\ ~Enabling(T)
    BY <1>1 DEF Renaming, Replacing, Enabling
  <2>4. QED
    BY <2>1, <2>2, <2>3
<1>3. Starting(T)
  BY <1>2 DEF Doing
<1>4. Len(T) = 0 /\ NamesOf(T) = {}
  BY DEF NamesOf
<1> HIDE DEF T
<1>5. QED
  BY <1>3, <1>4 DEF Starting

(* A new command.                                                          *)
LEMMA CommandStep ==
  ASSUME NEW u, Commanders = {u}, SourcesInv, Command(u)
  PROVE  SourcesInv'
<1>1. /\ u \in Commanders /\ Doing(todo[u]) /\ todo[u] = <<>> /\ commands < MaxCommands
      /\ commands' = commands + 1 /\ UNCHANGED <<handlers, off, cancels, goroutine, astray>>
  BY DEF SourcesInv, Command
<1>2. PICK steps \in Commands : todo' = [todo EXCEPT ![u] = steps]
  BY DEF Command
<1>3. todo'[u] = steps /\ todo' = [a \in Commanders |-> todo'[a]]
  BY <1>2 DEF SourcesInv, SrcShape
<1>4. Room(0) /\ (~astray => AgreeBut({}))
  BY <1>1, AtRest
<1>5. Fresh(todo[u])'
  <2>1. ~astray' => AgreeBut({})'
    BY <1>1, <1>4, SameSources DEF AgreeBut
  <2>2. todo'[u] \in Commands'
    BY <1>2, <1>3 DEF Commands, AddHandler, UpdateHandler, DeleteHandler, EnableHandler, DisableHandler, RenameHandler, ReloadHandlers
  <2>3. QED
    BY <2>1, <2>2 DEF Fresh
<1>6. Room(Cardinality(SourceNames))'
  BY <1>1, <1>4, RoomFacts
<1>7. Doing(todo[u])'
  BY <1>5, <1>6 DEF Doing
<1>8. SrcShape'
  <2>1. commands' \in 0..MaxCommands
    BY <1>1, SourcesAssumption DEF SourcesInv, SrcShape
  <2>2. QED
    BY <1>1, <1>3, <2>1 DEF SourcesInv, SrcShape, Has
<1>9. EntriesRun'
  BY <1>1 DEF SourcesInv, EntriesRun
<1>10. QED
  BY <1>7, <1>8, <1>9 DEF SourcesInv

(* A step that only looks up what there is to start.                       *)
LEMMA ExpandStep ==
  ASSUME NEW u, Commanders = {u}, SourcesInv, todo' = [todo EXCEPT ![u] = todo'[u]],
         UNCHANGED <<handlers, off, cancels, goroutine, commands, astray>>, Starting(todo'[u])
  PROVE  SourcesInv'
<1>1. Starting(todo[u])'
  BY DEF Starting, Room, AgreeBut, Owned, Right, NamesOf
<1>2. handlers' \in [SourceNames -> Builtins \cup {None}] /\ off' \in SUBSET {n \in SourceNames : handlers'[n] # None} /\ astray' \in BOOLEAN
  BY DEF SourcesInv, SrcShape, Has
<1>3. QED
  BY <1>1, <1>2, RegistryStep DEF Doing

(* What is left to start, W of T, when the first one is dealt with.        *)
IsRest(W, T) ==
  /\ W \in Seq({"start", "launch"} \X SourceNames \X Builtins) /\ Len(T) \in Nat \ {0} /\ Len(W) = Len(T) - 1
  /\ \A i \in DOMAIN W : handlers[W[i][2]] = W[i][3] /\ W[i][1] # "launch" /\ W[i][2] # T[1][2]
                         /\ i + 1 \in DOMAIN T /\ W[i] = T[i + 1]
  /\ \A i, j \in DOMAIN W : W[i][2] = W[j][2] => i = j
  /\ NamesOf(T) = NamesOf(W) \cup {T[1][2]}

(* The tail of a list of sources.                                          *)
LEMMA StartingTail ==
  ASSUME NEW T, Starting(T), T # <<>>, SourcesInv
  PROVE  IsRest(Tail(T), T)
<1> DEFINE W == Tail(T)
<1> DEFINE S == {"start", "launch"} \X SourceNames \X Builtins
<1>1. T \in Seq(S)
  BY DEF Starting
<1>2. W \in Seq(S) /\ Len(T) \in Nat \ {0} /\ Len(W) = Len(T) - 1 /\ DOMAIN T = 1..Len(T) /\ DOMAIN W = 1..Len(W)
  <2> HIDE DEF S
  <2>1. QED
    BY <1>1, EmptySeq, LenProperties, HeadTailProperties
<1>3. \A i \in 1..Len(W) : W[i] = T[i + 1]
  <2> HIDE DEF S
  <2>1. QED
    BY <1>1, HeadTailProperties
<1> HIDE DEF W, S
<1>4. \A i \in DOMAIN W : i + 1 \in DOMAIN T /\ i + 1 # 1 /\ W[i] = T[i + 1]
  BY <1>2, <1>3
<1>5. /\ \A i \in DOMAIN T : handlers[T[i][2]] = T[i][3] /\ (T[i][1] = "launch" => i = 1)
      /\ \A i, j \in DOMAIN T : T[i][2] = T[j][2] => i = j
      /\ 1 \in DOMAIN T
  BY <1>2 DEF Starting
<1>6. \A i \in DOMAIN W : handlers[W[i][2]] = W[i][3] /\ W[i][1] # "launch" /\ W[i][2] # T[1][2]
  BY <1>4, <1>5
<1>7. \A i, j \in DOMAIN W : W[i][2] = W[j][2] => i = j
  <2>1. ASSUME NEW i \in DOMAIN W, NEW j \in DOMAIN W, W[i][2] = W[j][2]
        PROVE  i = j
    <3>1. i \in Nat /\ j \in Nat
      BY <1>2
    <3>2. i + 1 = j + 1
      BY <1>4, <1>5, <2>1
    <3>3. QED
      BY <3>1, <3>2
  <2>2. QED
    BY <2>1
<1>8. NamesOf(T) = NamesOf(W) \cup {T[1][2]}
  <2>1. ASSUME NEW i \in DOMAIN T
        PROVE  T[i][2] \in NamesOf(W) \cup {T[1][2]}
    <3>1. CASE i = 1
      BY <3>1 DEF NamesOf
    <3>2. CASE i # 1
      <4>1. i - 1 \in DOMAIN W /\ (i - 1) + 1 = i
        BY <1>2, <3>2
      <4>2. QED
        BY <1>4, <4>1 DEF NamesOf
    <3>3. QED
      BY <3>1, <3>2
  <2>2. \A i \in DOMAIN W : W[i][2] \in NamesOf(T)
    BY <1>4 DEF NamesOf
  <2>3. QED
    BY <1>5, <2>1, <2>2 DEF NamesOf
<1>9. QED
  BY <1>2, <1>4, <1>6, <1>7, <1>8 DEF S, W, IsRest

(* The rest is started as well when the first one needs no start.          *)
LEMMA StartRest ==
  ASSUME NEW T, Starting(T), T # <<>>, SourcesInv, ~astray => Right(T[1][2])
  PROVE  Starting(Tail(T))
<1>w. PICK W : W = Tail(T)
  OBVIOUS
<1>1. /\ W \in Seq({"start", "launch"} \X SourceNames \X Builtins) /\ Len(T) \in Nat \ {0} /\ Len(W) = Len(T) - 1
      /\ \A i \in DOMAIN W : handlers[W[i][2]] = W[i][3] /\ W[i][1] # "launch" /\ W[i][2] # T[1][2]
                             /\ i + 1 \in DOMAIN T /\ W[i] = T[i + 1]
      /\ \A i, j \in DOMAIN W : W[i][2] = W[j][2] => i = j
      /\ NamesOf(T) = NamesOf(W) \cup {T[1][2]}
  <2>1. IsRest(W, T)
    BY <1>w, StartingTail
  <2>2. QED
    BY <2>1 DEF IsRest
<1>2. Room(Len(W))
  BY <1>1, RoomFacts DEF Starting
<1>3. ASSUME ~astray
      PROVE  /\ AgreeBut(NamesOf(W))
             /\ \A i \in DOMAIN W : cancels[W[i][2]] # None => Right(W[i][2])
  <2>1. /\ AgreeBut(NamesOf(T)) /\ Right(T[1][2])
        /\ \A i \in DOMAIN T : cancels[T[i][2]] # None => Right(T[i][2])
    BY <1>3 DEF Starting
  <2>2. AgreeBut(NamesOf(W))
    BY <1>1, <2>1 DEF AgreeBut
  <2>3. \A i \in DOMAIN W : cancels[W[i][2]] # None => Right(W[i][2])
    BY <1>1, <2>1, SMTT(40)
  <2>4. QED
    BY <2>2, <2>3
<1>4. QED
  BY <1>w, <1>1, <1>2, <1>3 DEF Starting

(* A source that is to be started and is not running yet.                  *)
LEMMA CheckedStep ==
  ASSUME NEW u, Commanders = {u}, SourcesInv, StartChecked(u)
  PROVE  SourcesInv'
<1> DEFINE T == todo[u]
           n == T[1][2]
           b == T[1][3]
           S == {"start", "launch"} \X SourceNames \X Builtins
<1>w. PICK W : W = Tail(T)
  OBVIOUS
<1> DEFINE launched == <<<<"launch", n, b>>>> \o W
<1>0. u \in Commanders /\ Doing(T) /\ todo = [a \in Commanders |-> todo[a]] /\ None \notin SourceKinds
  BY SourcesAssumption DEF SourcesInv, SrcShape
<1>1. Step(u, "start") /\ T # <<>>
  BY DEF StartChecked, Step
<1>2. Starting(T)
  BY <1>0, <1>1, StepForms
<1>3. Head(T) = T[1] /\ 1 \in DOMAIN T /\ T[1][1] \in {"start", "launch"} /\ n \in SourceNames /\ b \in Builtins
  BY <1>1, <1>2, StartingForms
<1>4. Arg(u, 1) = n /\ Arg(u, 2) = b /\ handlers[n] = b
  BY <1>2, <1>3 DEF Arg, Starting
<1>5. /\ todo' = [todo EXCEPT ![u] = (IF b \in SourceKinds /\ n \notin off THEN <<<<"launch", n, b>>>> ELSE <<>>) \o W]
      /\ UNCHANGED <<handlers, off, cancels, goroutine, commands, astray>>
  BY <1>4, <1>w DEF StartChecked, Expands
<1>6. /\ W \in Seq(S) /\ Len(T) \in Nat \ {0} /\ Len(W) = Len(T) - 1
      /\ \A i \in DOMAIN W : handlers[W[i][2]] = W[i][3] /\ W[i][1] # "launch" /\ W[i][2] # T[1][2]
                             /\ i + 1 \in DOMAIN T /\ W[i] = T[i + 1]
      /\ \A i, j \in DOMAIN W : W[i][2] = W[j][2] => i = j
      /\ NamesOf(T) = NamesOf(W) \cup {n}
  <2> HIDE DEF T
  <2>1. IsRest(W, T)
    BY <1>1, <1>2, <1>w, StartingTail
  <2>2. QED
    BY <2>1 DEF IsRest, n
<1> HIDE DEF T, n, b, S
<1>7. CASE b \in SourceKinds /\ n \notin off
  <2>1. todo' = [todo EXCEPT ![u] = launched]
    BY <1>5, <1>7
  <2>2. /\ launched \in Seq(S) /\ Len(launched) = Len(T) /\ DOMAIN launched = 1..Len(T) /\ DOMAIN W = 1..Len(W)
        /\ launched[1] = <<"launch", n, b>> /\ \A i \in 1..Len(T) : i # 1 => launched[i] = W[i - 1] /\ i - 1 \in DOMAIN W
    <3>1. <<"launch", n, b>> \in S
      BY <1>3 DEF S
    <3> DEFINE one == <<<<"launch", n, b>>>>
    <3>2. one \in Seq(S) /\ Len(one) = 1 /\ one[1] = <<"launch", n, b>>
      BY <3>1
    <3> HIDE DEF one
    <3>3. /\ one \o W \in Seq(S) /\ Len(one \o W) = Len(one) + Len(W)
          /\ \A i \in 1..(Len(one) + Len(W)) : (one \o W)[i] = IF i <= Len(one) THEN one[i] ELSE W[i - Len(one)]
      <4>1. W \in Seq(S)
        BY <1>6
      <4>2. QED
        BY ONLY <3>2, <4>1, ConcatProperties
    <3>4. DOMAIN W = 1..Len(W) /\ DOMAIN (one \o W) = 1..Len(one \o W)
      BY <1>6, <3>3, LenProperties
    <3>5. launched = one \o W
      BY DEF one
    <3> HIDE DEF launched
    <3>6. launched[1] = <<"launch", n, b>> /\ \A i \in 1..Len(T) : i # 1 => launched[i] = W[i - 1] /\ i - 1 \in DOMAIN W
      BY <1>6, <3>2, <3>3, <3>4, <3>5
    <3>7. QED
      BY <1>6, <3>2, <3>3, <3>4, <3>5, <3>6
  <2> HIDE DEF launched
  <2>3. launched[1][1] = "launch" /\ launched[1][2] = n /\ launched[1][3] = b
    BY <2>2
  <2>4. /\ \A i \in DOMAIN launched : /\ handlers[launched[i][2]] = launched[i][3]
                                      /\ launched[i][1] = "launch" => i = 1 /\ launched[i][3] \in SourceKinds /\ launched[i][2] \notin off
        /\ \A i, j \in DOMAIN launched : launched[i][2] = launched[j][2] => i = j
    <3>1. ASSUME NEW i \in DOMAIN launched
          PROVE  /\ handlers[launched[i][2]] = launched[i][3]
                 /\ launched[i][1] = "launch" => i = 1 /\ launched[i][3] \in SourceKinds /\ launched[i][2] \notin off
                 /\ i # 1 => i - 1 \in DOMAIN W /\ launched[i][2] = W[i - 1][2] /\ launched[i][2] # n
      BY <1>4, <1>6, <1>7, <2>2, <2>3, <3>1, SMTT(40) DEF n
    <3>2. ASSUME NEW i \in DOMAIN launched, NEW j \in DOMAIN launched, launched[i][2] = launched[j][2]
          PROVE  i = j
      <4>1. CASE i = 1 \/ j = 1
        BY <2>3, <3>1, <3>2, <4>1
      <4>2. CASE i # 1 /\ j # 1
        <5>1. i - 1 = j - 1
          BY <1>6, <3>1, <3>2, <4>2
        <5>2. QED
          BY <2>2, <5>1
      <4>3. QED
        BY <4>1, <4>2
    <3>3. QED
      BY <3>1, <3>2
  <2>5. NamesOf(launched) = NamesOf(T)
    <3>1. NamesOf(launched) = NamesOf(W) \cup {n}
      <4>1. ASSUME NEW i \in DOMAIN launched
            PROVE  launched[i][2] \in NamesOf(W) \cup {n}
        BY <2>2, <2>3, <4>1 DEF NamesOf
      <4>2. ASSUME NEW j \in DOMAIN W
            PROVE  j + 1 \in DOMAIN launched /\ W[j][2] = launched[j + 1][2]
        <5>1. j + 1 \in 1..Len(T) /\ j + 1 # 1 /\ (j + 1) - 1 = j
          BY <1>6, <2>2
        <5>2. QED
          BY <2>2, <5>1
      <4>3. 1 \in DOMAIN launched
        BY <1>6, <2>2
      <4>4. QED
        BY <2>3, <4>1, <4>2, <4>3 DEF NamesOf
    <3>2. QED
      BY <1>6, <3>1
  <2>6. ASSUME ~astray
        PROVE  /\ AgreeBut(NamesOf(launched))
               /\ \A i \in DOMAIN launched : cancels[launched[i][2]] # None => Right(launched[i][2])
    <3>1. /\ AgreeBut(NamesOf(T))
          /\ \A x \in NamesOf(T) : cancels[x] # None => Right(x)
      BY <1>2, <2>6 DEF Starting, NamesOf
    <3>2. QED
      BY <2>5, <3>1 DEF NamesOf
  <2>7. Starting(launched)
    BY <1>2, <2>2, <2>4, <2>6 DEF Starting, S
  <2>8. todo'[u] = launched
    BY <1>0, <2>1
  <2>9. QED
    BY <1>5, <2>1, <2>7, <2>8, ExpandStep
<1>8. CASE ~(b \in SourceKinds /\ n \notin off)
  <2>1. todo' = [todo EXCEPT ![u] = W]
    <3>1. <<>> \o W = W
      BY <1>6, ConcatEmptySeq
    <3>2. QED
      BY <1>5, <1>8, <3>1
  <2>2. ~astray => Right(n)
    <3>1. ~astray => (cancels[n] # None => Right(n))
      BY <1>2, <1>3 DEF Starting, n
    <3>2. cancels[n] = None => Right(n)
      BY <1>4, <1>8 DEF Right
    <3>3. QED
      BY <3>1, <3>2
  <2>3. Starting(W)
    BY <1>1, <1>2, <1>w, <2>2, StartRest DEF n
  <2>4. todo'[u] = W
    BY <1>0, <2>1
  <2>5. QED
    BY <1>5, <2>1, <2>3, <2>4, ExpandStep
<1>9. QED
  BY <1>7, <1>8

(* SetToSeq lists the elements of a finite set, each once.                 *)
LEMMA ListsOnce ==
  ASSUME NEW S, IsFiniteSet(S)
  PROVE  LET f == SetToSeq(S) IN
         /\ Cardinality(S) \in Nat /\ f \in [1..Cardinality(S) -> S]
         /\ \A i, j \in 1..Cardinality(S) : f[i] = f[j] => i = j
         /\ \A x \in S : \E i \in 1..Cardinality(S) : f[i] = x
<1> DEFINE k == Cardinality(S)
           f == SetToSeq(S)
<1>1. k \in Nat /\ \E g \in [1..k -> S] : IsInjective(g)
  BY FS_CardinalityType DEF ExistsBijection, Bijection, Injection
<1>2. f \in [1..k -> S] /\ IsInjective(f)
  BY <1>1 DEF SetToSeq
<1>3. f \in Injection(1..k, S)
  BY <1>2 DEF Injection
<1>4. Cardinality(1..k) = k
  BY <1>1, FS_Interval
<1>5. f \in Surjection(1..k, S)
  BY <1>3, <1>4, FS_Injection
<1> HIDE DEF f, k
<1>6. \A x \in S : \E i \in 1..k : f[i] = x
  BY <1>5 DEF Surjection
<1>7. \A i, j \in 1..k : f[i] = f[j] => i = j
  BY <1>2 DEF IsInjective
<1>8. QED
  BY <1>1, <1>2, <1>6, <1>7 DEF f, k

(* All handlers are to be started.                                         *)
LEMMA StartAllStep ==
  ASSUME NEW u, Commanders = {u}, SourcesInv, StartAll(u)
  PROVE  SourcesInv'
<1> DEFINE T == todo[u]
           S == {m \in SourceNames : Has(m)}
           k == Cardinality(S)
           f == SetToSeq(S)
           W == [i \in 1..k |-> <<"start", f[i], handlers[f[i]]>>]
<1>0. u \in Commanders /\ Doing(T) /\ todo = [a \in Commanders |-> todo[a]] /\ None \notin Builtins
      /\ handlers \in [SourceNames -> Builtins \cup {None}]
  BY SourcesAssumption DEF SourcesInv, SrcShape
<1>1. Step(u, "startAll")
  BY DEF StartAll
<1>2. /\ T = <<<<"startAll">>>> /\ Room(Cardinality(SourceNames))
      /\ ~astray => Owned /\ \A n \in SourceNames : cancels[n] = None
  BY <1>0, <1>1, StepForms
<1>3. S \in SUBSET SourceNames /\ \A m \in SourceNames : m \in S <=> handlers[m] # None
  BY DEF Has
<1>4. /\ todo' = [todo EXCEPT ![u] = W \o Tail(T)]
      /\ UNCHANGED <<handlers, off, cancels, goroutine, commands, astray>>
  BY DEF StartAll, Expands
<1> HIDE DEF S
<1>5. IsFiniteSet(S) /\ k <= Cardinality(SourceNames)
  BY <1>3, SourcesAssumption, FS_Subset
<1>6. /\ k \in Nat /\ f \in [1..k -> S]
      /\ \A i, j \in 1..k : f[i] = f[j] => i = j
      /\ \A x \in S : \E i \in 1..k : f[i] = x
  BY <1>5, ListsOnce
<1> HIDE DEF k, f
<1>7. \A i \in 1..k : W[i][1] = "start" /\ W[i][2] = f[i] /\ W[i][3] = handlers[f[i]] /\ W[i] = <<"start", f[i], handlers[f[i]]>>
  OBVIOUS
<1>8. W \in Seq({"start", "launch"} \X SourceNames \X Builtins) /\ Len(W) = k /\ DOMAIN W = 1..k
  <2>1. ASSUME NEW i \in 1..k
        PROVE  W[i] \in {"start", "launch"} \X SourceNames \X Builtins
    <3>1. f[i] \in SourceNames /\ handlers[f[i]] \in Builtins
      <4>1. f[i] \in S
        BY <1>6
      <4>2. f[i] \in SourceNames /\ handlers[f[i]] # None
        BY <1>3, <4>1
      <4>3. QED
        BY <1>0, <4>2
    <3> HIDE DEF W
    <3>2. QED
      BY <1>7, <3>1
  <2> DEFINE A == {"start", "launch"} \X SourceNames \X Builtins
  <2> HIDE DEF A
  <2>2. W \in [1..k -> A]
    BY <2>1 DEF A
  <2> HIDE DEF W
  <2>3. W \in Seq(A) /\ DOMAIN W = 1..k
    BY <1>6, <2>2
  <2>4. Len(W) = k
    BY <1>6, <2>3, LenProperties
  <2>5. QED
    BY <2>3, <2>4 DEF A
<1> HIDE DEF W
<1>9. todo'[u] = W /\ todo' = [todo EXCEPT ![u] = todo'[u]]
  <2>1. Tail(T) = <<>>
    BY <1>2
  <2>2. W \o <<>> = W
    BY <1>8, ConcatEmptySeq
  <2>3. QED
    BY <1>0, <1>4, <2>1, <2>2
<1>10. NamesOf(W) = S
  <2>1. \A i \in DOMAIN W : W[i][2] \in S
    BY <1>6, <1>7, <1>8 DEF NamesOf
  <2>2. ASSUME NEW x \in S
        PROVE  \E i \in DOMAIN W : W[i][2] = x
    <3>1. PICK i \in 1..k : f[i] = x
      BY <1>6
    <3>2. i \in DOMAIN W /\ W[i][2] = x
      BY <1>7, <1>8, <3>1
    <3>3. QED
      BY <3>2
  <2>3. QED
    BY <2>1, <2>2 DEF NamesOf
<1>11. Starting(W)
  <2>1. Room(Len(W))
    BY <1>2, <1>5, <1>6, <1>8, RoomFacts
  <2>2. \A i \in DOMAIN W : handlers[W[i][2]] = W[i][3] /\ W[i][1] # "launch"
    BY <1>7, <1>8
  <2>3. \A i, j \in DOMAIN W : W[i][2] = W[j][2] => i = j
    BY <1>6, <1>7, <1>8
  <2>4. ~astray => AgreeBut(S)
    BY <1>0, <1>2, <1>3, SourcesAssumption DEF AgreeBut, Right
  <2>5. ~astray => \A i \in DOMAIN W : cancels[W[i][2]] = None
    BY <1>2, <1>3, <1>10 DEF NamesOf
  <2>6. QED
    BY <1>8, <1>10, <2>1, <2>2, <2>3, <2>4, <2>5 DEF Starting
<1>12. QED
  BY <1>4, <1>9, <1>11, ExpandStep

(* The enabled handler is to be started, if it is still there.             *)
LEMMA StartCurrentStep ==
  ASSUME NEW u, Commanders = {u}, SourcesInv, StartCurrent(u)
  PROVE  SourcesInv'
<1> DEFINE T == todo[u]
<1>0. u \in Commanders /\ Doing(T) /\ todo = [a \in Commanders |-> todo[a]] /\ None \notin SourceKinds
      /\ handlers \in [SourceNames -> Builtins \cup {None}] /\ off \in SUBSET {m \in SourceNames : Has(m)} /\ astray \in BOOLEAN
  BY SourcesAssumption DEF SourcesInv, SrcShape
<1>1. Step(u, "startCurrent")
  BY DEF StartCurrent
<1>2. Room(Cardinality(SourceNames))
  BY <1>0, <1>1, StepForms
<1>3. PICK n \in SourceNames :
        T = <<<<"startCurrent", n>>>> /\ (~astray => AgreeBut({n}) /\ (cancels[n] # None => Right(n)))
  BY <1>0, <1>1, StepForms
<1>4. Arg(u, 1) = n /\ Tail(T) = <<>>
  BY <1>3 DEF Arg
<1>5. /\ todo' = [todo EXCEPT ![u] = (IF Has(n) THEN <<<<"start", n, handlers[n]>>>> ELSE <<>>) \o <<>>]
      /\ UNCHANGED <<handlers, off, cancels, goroutine, commands, astray>>
  BY <1>4 DEF StartCurrent, Expands
<1>6. Cardinality(SourceNames) >= 1 /\ Cardinality(SourceNames) \in Nat
  BY RoomFacts
<1>7. Room(1)' /\ Room(0)'
  <2>1. Room(1) /\ Room(0)
    BY <1>2, <1>6, RoomFacts
  <2>2. QED
    BY <1>5, <2>1, RoomFacts
<1>8. /\ handlers' \in [SourceNames -> Builtins \cup {None}] /\ astray' \in BOOLEAN
      /\ off' \in SUBSET {m \in SourceNames : handlers'[m] # None}
  BY <1>0, <1>5 DEF Has
<1>9. ~astray' => AgreeBut({n})' /\ (cancels'[n] # None => Right(n)')
  BY <1>3, <1>5, SameSources DEF AgreeBut
<1> HIDE DEF T
<1>10. CASE Has(n)
  <2>1. todo'[u] = <<<<"start", n, handlers[n]>>>> /\ todo' = [todo EXCEPT ![u] = todo'[u]]
    <3>1. <<<<"start", n, handlers[n]>>>> \o <<>> = <<<<"start", n, handlers[n]>>>>
      OBVIOUS
    <3>2. QED
      BY <1>0, <1>5, <1>10, <3>1
  <2>2. handlers[n] \in Builtins /\ handlers'[n] = handlers[n]
    BY <1>0, <1>5, <1>10 DEF Has
  <2>3. Doing(todo[u])'
    BY <1>0, <1>7, <1>9, <2>1, <2>2, ToStart
  <2>4. QED
    BY <1>5, <1>8, <2>1, <2>3, RegistryStep
<1>11. CASE ~Has(n)
  <2>1. todo'[u] = <<>> /\ todo' = [todo EXCEPT ![u] = todo'[u]]
    <3>1. <<>> \o <<>> = <<>>
      OBVIOUS
    <3>2. QED
      BY <1>0, <1>5, <1>11, <3>1
  <2>2. Right(n)' \/ cancels'[n] # None
    BY <1>0, <1>5, <1>11 DEF Right, Has
  <2>3. ~astray' => AgreeBut({})'
    BY <1>9, <2>2 DEF AgreeBut
  <2>4. Doing(todo[u])'
    BY <1>0, <1>7, <2>1, <2>3, ToRest
  <2>5. QED
    BY <1>5, <1>8, <2>1, <2>4, RegistryStep
<1>12. QED
  BY <1>10, <1>11

(* A goroutine is started for the first source of the list, unless its     *)
(* name has an entry.                                                      *)
LEMMA LaunchStep ==
  ASSUME NEW u, Commanders = {u}, SourcesInv, Launch(u)
  PROVE  SourcesInv'
<1> DEFINE T == todo[u]
           names == NamesOf(T)
<1>0. /\ u \in Commanders /\ Doing(T) /\ todo = [a \in Commanders |-> todo[a]] /\ None \notin SourceKinds /\ None \notin Nat
      /\ handlers \in [SourceNames -> Builtins \cup {None}] /\ off \in SUBSET {m \in SourceNames : Has(m)} /\ astray \in BOOLEAN
      /\ cancels \in [SourceNames -> DOMAIN goroutine \cup {None}] /\ goroutine \in Seq(Started)
      /\ commands \in 0..MaxCommands /\ \A i \in DOMAIN goroutine : goroutine[i].pc = "ended" => goroutine[i].cancelled
  BY SourcesAssumption DEF SourcesInv, SrcShape
<1>1. Step(u, "launch") /\ T # <<>> /\ Head(T)[1] = "launch"
  BY DEF Launch, Step
<1>2. Starting(T)
  BY <1>0, <1>1, StepForms
<1>n. PICK n \in SourceNames, b \in Builtins : T[1][2] = n /\ T[1][3] = b
  BY <1>1, <1>2, StartingForms
<1>w. PICK W : W = Tail(T)
  OBVIOUS
<1> DEFINE rest == NamesOf(W)
<1>3. Head(T) = T[1] /\ 1 \in DOMAIN T
  BY <1>1, <1>2, StartingForms
<1>4. /\ Arg(u, 1) = n /\ Arg(u, 2) = b /\ handlers[n] = b /\ b \in SourceKinds /\ n \notin off
      /\ ~astray => AgreeBut(names) /\ \A x \in names : cancels[x] # None => Right(x)
  BY <1>1, <1>2, <1>3, <1>n DEF Arg, Starting, NamesOf
<1>5. /\ UNCHANGED <<handlers, off, commands, astray>> /\ todo' = [todo EXCEPT ![u] = W]
      /\ IF cancels[n] # None THEN UNCHANGED <<cancels, goroutine>>
         ELSE /\ goroutine' = Append(goroutine, [kind |-> b, pc |-> "check", cancelled |-> FALSE])
              /\ cancels' = [cancels EXCEPT ![n] = Len(goroutine) + 1]
  BY <1>4, <1>w DEF Launch, Proceed, Advance
<1>6. /\ W \in Seq({"start", "launch"} \X SourceNames \X Builtins) /\ Len(T) \in Nat \ {0} /\ Len(W) = Len(T) - 1
      /\ \A i \in DOMAIN W : handlers[W[i][2]] = W[i][3] /\ W[i][1] # "launch" /\ W[i][2] # n
      /\ \A i, j \in DOMAIN W : W[i][2] = W[j][2] => i = j
      /\ names = rest \cup {n} /\ n \notin rest
  <2>1. /\ W \in Seq({"start", "launch"} \X SourceNames \X Builtins) /\ Len(T) \in Nat \ {0} /\ Len(W) = Len(T) - 1
        /\ \A i \in DOMAIN W : handlers[W[i][2]] = W[i][3] /\ W[i][1] # "launch" /\ W[i][2] # n
        /\ \A i, j \in DOMAIN W : W[i][2] = W[j][2] => i = j
        /\ names = rest \cup {n}
    <3> HIDE DEF T
    <3>1. IsRest(W, T)
      BY <1>1, <1>2, <1>w, StartingTail
    <3>2. QED
      BY <1>n, <3>1 DEF IsRest
  <2>2. n \notin rest
    BY <2>1 DEF NamesOf
  <2>3. QED
    BY <2>1, <2>2
<1> HIDE DEF T, names
<1>7. todo'[u] = W /\ todo' = [todo EXCEPT ![u] = todo'[u]] /\ todo' = [a \in Commanders |-> todo'[a]]
  BY <1>0, <1>5
<1>8. CASE cancels[n] # None
  <2>1. Starting(W)
    <3>1. n \in names
      BY <1>6
    <3>2. ~astray => Right(n)
      BY <1>4, <1>8, <3>1
    <3>3. QED
      BY <1>1, <1>2, <1>n, <1>w, <3>2, StartRest
  <2>2. QED
    BY <1>5, <1>7, <1>8, <2>1, ExpandStep
<1>9. CASE cancels[n] = None
  <2> DEFINE g == [kind |-> b, pc |-> "check", cancelled |-> FALSE]
             k == Len(goroutine) + 1
  <2>1. g \in Started /\ g.kind = b /\ ~g.cancelled /\ g.pc # "ended"
    BY <1>3, <1>4 DEF Started
  <2>2. goroutine' = Append(goroutine, g) /\ cancels' = [cancels EXCEPT ![n] = k]
    BY <1>5, <1>9
  <2> HIDE DEF g
  <2>3. /\ goroutine' \in Seq(Started) /\ Len(goroutine) \in Nat /\ Len(goroutine') = Len(goroutine) + 1
        /\ DOMAIN goroutine = 1..Len(goroutine) /\ DOMAIN goroutine' = 1..k /\ goroutine'[k] = g
        /\ \A i \in DOMAIN goroutine : goroutine'[i] = goroutine[i]
    BY <1>0, <2>1, <2>2, AppendProperties, LenProperties
  <2>4. k \in Nat /\ k \in DOMAIN goroutine' /\ k \notin DOMAIN goroutine /\ k # None /\ DOMAIN goroutine \subseteq DOMAIN goroutine'
        /\ \A i \in DOMAIN goroutine' : i = k \/ i \in DOMAIN goroutine
    BY <1>0, <2>3
  <2> HIDE DEF k
  <2>5. /\ cancels' \in [SourceNames -> DOMAIN goroutine' \cup {None}]
        /\ cancels'[n] = k /\ \A x \in SourceNames : x # n => cancels'[x] = cancels[x]
    BY <1>0, <1>3, <2>2, <2>4
  <2>6. SrcShape'
    <3>1. \A i \in DOMAIN goroutine' : goroutine'[i].pc = "ended" => goroutine'[i].cancelled
      BY <1>0, <2>1, <2>3, <2>4
    <3>2. QED
      BY <1>0, <1>5, <1>7, <2>3, <2>5, <3>1 DEF SrcShape, Has
  <2>7. EntriesRun'
    <3>1. /\ \A x \in SourceNames : cancels[x] # None => ~goroutine[cancels[x]].cancelled /\ cancels[x] \in DOMAIN goroutine
          /\ \A x, y \in SourceNames : cancels[x] # None /\ cancels[x] = cancels[y] => x = y
      BY <1>0 DEF SourcesInv, EntriesRun
    <3>2. \A x \in SourceNames : cancels'[x] # None => ~goroutine'[cancels'[x]].cancelled
      BY <2>1, <2>3, <2>5, <3>1
    <3>3. \A x, y \in SourceNames : cancels'[x] # None /\ cancels'[x] = cancels'[y] => x = y
      BY <2>4, <2>5, <3>1
    <3>4. QED
      BY <3>2, <3>3 DEF EntriesRun
  <2>8. \A x \in SourceNames \ {n} : Right(x) => Right(x)'
    BY <1>0, <1>5, <2>3, <2>5 DEF Right
  <2>9. Right(n)'
    BY <1>4, <1>5, <2>1, <2>3, <2>4, <2>5 DEF Right
  <2>10. ASSUME ~astray'
         PROVE  AgreeBut(rest)' /\ \A x \in rest : cancels'[x] # None => Right(x)'
    <3>1. AgreeBut(names) /\ \A x \in names : cancels[x] # None => Right(x)
      BY <1>4, <1>5, <2>10
    <3>2. Owned'
      <4>1. ASSUME NEW i \in DOMAIN goroutine', ~goroutine'[i].cancelled
            PROVE  \E x \in SourceNames : cancels'[x] = i
        <5>1. CASE i = k
          BY <1>3, <2>5, <5>1
        <5>2. CASE i \in DOMAIN goroutine
          <6>1. PICK x \in SourceNames : cancels[x] = i
            BY <2>3, <3>1, <4>1, <5>2 DEF AgreeBut, Owned
          <6>2. x # n
            BY <1>0, <1>9, <2>3, <5>2, <6>1
          <6>3. QED
            BY <2>5, <6>1, <6>2
        <5>3. QED
          BY <2>4, <5>1, <5>2
      <4>2. QED
        BY <4>1 DEF Owned
    <3>3. \A x \in SourceNames \ rest : Right(x)'
      BY <1>6, <2>8, <2>9, <3>1 DEF AgreeBut
    <3>4. \A x \in rest : x \in SourceNames
      <4>1. \A i \in DOMAIN W : W[i][2] \in SourceNames
        <5> DEFINE A == {"start", "launch"} \X SourceNames \X Builtins
        <5>1. \A i \in DOMAIN W : W[i] \in A
          <6> HIDE DEF A
          <6>1. W \in Seq(A)
            BY <1>6 DEF A
          <6>2. QED
            BY <6>1, LenProperties, ElementOfSeq
        <5>2. QED
          BY <5>1
      <4>2. QED
        BY <4>1 DEF NamesOf
    <3>5. \A x \in rest : cancels'[x] # None => Right(x)'
      BY <1>6, <2>5, <2>8, <3>1, <3>4
    <3>6. QED
      BY <3>2, <3>3, <3>5 DEF AgreeBut
  <2>11. Room(Len(W))'
    <3>1. Room(Len(T))
      BY <1>2 DEF Starting
    <3>2. Len(goroutine)' + Len(W) = Len(goroutine) + Len(T)
      BY <1>6, <2>3
    <3>3. ((commands + 1) * Cardinality(SourceNames))' = (commands + 1) * Cardinality(SourceNames)
      BY <1>5
    <3> HIDE DEF T
    <3>4. QED
      BY <3>1, <3>2, <3>3 DEF Room
  <2>12. Starting(todo[u])'
    <3>1. \A i \in DOMAIN W : handlers'[W[i][2]] = W[i][3] /\ W[i][1] # "launch"
      BY <1>5, <1>6
    <3>2. \A i, j \in DOMAIN W : W[i][2] = W[j][2] => i = j
      BY <1>6
    <3>3. todo'[u] = W
      BY <1>7
    <3>4. ~astray' => \A i \in DOMAIN W : cancels'[W[i][2]] # None => Right(W[i][2])'
      BY <2>10 DEF NamesOf
    <3>5. ~astray' => AgreeBut(NamesOf(W))'
      BY <2>10
    <3> HIDE DEF Room, AgreeBut, Right
    <3>6. QED
      BY <1>6, <2>11, <3>1, <3>2, <3>3, <3>4, <3>5 DEF Starting, NamesOf
  <2>13. QED
    BY <2>6, <2>7, <2>12 DEF SourcesInv, Doing
<1>10. QED
  BY <1>8, <1>9

(* Stopping goroutines leaves the others as they are.                      *)
LEMMA CancelledKeeps ==
  ASSUME NEW stopped, SourcesInv, goroutine' = Cancelled(stopped)
  PROVE  /\ goroutine' \in Seq(Started) /\ DOMAIN goroutine' = DOMAIN goroutine /\ Len(goroutine') = Len(goroutine)
         /\ \A i \in DOMAIN goroutine :
              /\ goroutine'[i].kind = goroutine[i].kind
              /\ goroutine'[i].cancelled = (goroutine[i].cancelled \/ i \in stopped)
              /\ goroutine'[i].pc = "ended" => goroutine'[i].cancelled
<1>0. /\ goroutine \in Seq(Started) /\ Len(goroutine) \in Nat /\ DOMAIN goroutine = 1..Len(goroutine)
      /\ \A i \in DOMAIN goroutine : goroutine[i].pc = "ended" => goroutine[i].cancelled
  BY LenProperties DEF SourcesInv, SrcShape
<1>1. ASSUME NEW i \in DOMAIN goroutine
      PROVE  /\ goroutine'[i] \in Started /\ goroutine'[i].kind = goroutine[i].kind /\ goroutine'[i].pc = goroutine[i].pc
             /\ goroutine'[i].cancelled = (goroutine[i].cancelled \/ i \in stopped)
  <2>1. goroutine[i] \in Started
    BY <1>0, ElementOfSeq
  <2>2. goroutine'[i] = IF i \in stopped THEN [goroutine[i] EXCEPT !.cancelled = TRUE] ELSE goroutine[i]
    BY DEF Cancelled
  <2>3. CASE i \in stopped
    BY <2>1, <2>2, <2>3 DEF Started
  <2>4. CASE i \notin stopped
    BY <2>1, <2>2, <2>4 DEF Started
  <2>5. QED
    BY <2>3, <2>4
<1>2. goroutine' = [i \in 1..Len(goroutine) |-> goroutine'[i]]
  BY <1>0 DEF Cancelled
<1>3. goroutine' \in [1..Len(goroutine) -> Started]
  BY <1>0, <1>1, <1>2
<1>4. goroutine' \in Seq(Started) /\ DOMAIN goroutine' = 1..Len(goroutine) /\ Len(goroutine') = Len(goroutine)
  BY <1>0, <1>3, LenProperties
<1>5. QED
  BY <1>0, <1>1, <1>4

(* The source of a name is stopped.                                        *)
LEMMA StopStep ==
  ASSUME NEW u, Commanders = {u}, SourcesInv, StopSource(u)
  PROVE  SourcesInv'
<1> DEFINE T == todo[u]
<1>0. /\ u \in Commanders /\ Doing(T) /\ todo = [a \in Commanders |-> todo[a]] /\ None \notin SourceKinds /\ None \notin Nat
      /\ handlers \in [SourceNames -> Builtins \cup {None}] /\ off \in SUBSET {m \in SourceNames : Has(m)} /\ astray \in BOOLEAN
      /\ cancels \in [SourceNames -> DOMAIN goroutine \cup {None}] /\ goroutine \in Seq(Started)
      /\ commands \in 0..MaxCommands /\ DOMAIN goroutine \subseteq Nat
  BY SourcesAssumption, LenProperties DEF SourcesInv, SrcShape
<1>1. Step(u, "stop")
  BY DEF StopSource
<1>2. Room(Cardinality(SourceNames)) /\ (~astray => AgreeBut({}))
  BY <1>0, <1>1, StepForms
<1>3. PICK n \in SourceNames :
        \/ \E b \in Builtins : T = <<<<"stop", n>>, <<"update", n, b>>, <<"start", n, b>>>>
        \/ T = <<<<"stop", n>>, <<"delete", n>>>>
        \/ T = <<<<"stop", n>>, <<"disable", n>>>>
  BY <1>0, <1>1, StepForms
<1>4. Arg(u, 1) = n /\ Tail(T) \in {<<<<"update", n, b>>, <<"start", n, b>>>> : b \in Builtins} \cup {<<<<"delete", n>>>>, <<<<"disable", n>>>>}
  <2>1. Arg(u, 1) = n
    BY <1>3 DEF Arg
  <2>2. ASSUME NEW b \in Builtins, T = <<<<"stop", n>>, <<"update", n, b>>, <<"start", n, b>>>>
        PROVE  Tail(T) = <<<<"update", n, b>>, <<"start", n, b>>>>
    BY <2>2
  <2>3. ASSUME T = <<<<"stop", n>>, <<"delete", n>>>>
        PROVE  Tail(T) = <<<<"delete", n>>>>
    BY <2>3
  <2>4. ASSUME T = <<<<"stop", n>>, <<"disable", n>>>>
        PROVE  Tail(T) = <<<<"disable", n>>>>
    BY <2>4
  <2> HIDE DEF T
  <2>5. QED
    BY <1>3, <2>1, <2>2, <2>3, <2>4
<1> HIDE DEF T
<1>5. /\ goroutine' = Cancelled({cancels[n]}) /\ cancels' = [cancels EXCEPT ![n] = None]
      /\ todo' = [todo EXCEPT ![u] = Tail(T)] /\ UNCHANGED <<handlers, off, commands, astray>>
  BY <1>4 DEF StopSource, Proceed, Advance, T
<1>6. /\ goroutine' \in Seq(Started) /\ DOMAIN goroutine' = DOMAIN goroutine /\ Len(goroutine') = Len(goroutine)
      /\ \A i \in DOMAIN goroutine :
           /\ goroutine'[i].kind = goroutine[i].kind
           /\ goroutine'[i].cancelled = (goroutine[i].cancelled \/ i \in {cancels[n]})
           /\ goroutine'[i].pc = "ended" => goroutine'[i].cancelled
  BY <1>5, CancelledKeeps
<1>7. cancels'[n] = None /\ \A x \in SourceNames : x # n => cancels'[x] = cancels[x]
  BY <1>0, <1>5
<1>8. /\ \A x \in SourceNames : cancels[x] # None => ~goroutine[cancels[x]].cancelled /\ cancels[x] \in DOMAIN goroutine
      /\ \A x, y \in SourceNames : cancels[x] # None /\ cancels[x] = cancels[y] => x = y
  BY <1>0 DEF SourcesInv, EntriesRun
<1>9. todo'[u] = Tail(T) /\ todo' = [a \in Commanders |-> todo'[a]]
  BY <1>0, <1>5
<1>10. SrcShape'
  <2>1. cancels' \in [SourceNames -> DOMAIN goroutine' \cup {None}]
    BY <1>0, <1>5, <1>6
  <2>2. QED
    BY <1>0, <1>5, <1>6, <1>9, <2>1 DEF SrcShape, Has
<1>11. EntriesRun'
  <2>1. \A x \in SourceNames : cancels'[x] # None => ~goroutine'[cancels'[x]].cancelled
    BY <1>6, <1>7, <1>8, ZenonT(40)
  <2>2. \A x, y \in SourceNames : cancels'[x] # None /\ cancels'[x] = cancels'[y] => x = y
    BY <1>7, <1>8
  <2>3. QED
    BY <2>1, <2>2 DEF EntriesRun
<1>12. ASSUME ~astray'
       PROVE  AgreeBut({n})'
  <2>1. AgreeBut({})
    BY <1>2, <1>5, <1>12
  <2>2. ASSUME NEW x \in SourceNames \ {n}
        PROVE  Right(x)'
    <3>1. Right(x) /\ cancels'[x] = cancels[x] /\ handlers'[x] = handlers[x] /\ off' = off
      BY <1>5, <1>7, <2>1 DEF AgreeBut
    <3>2. cancels[x] # None => goroutine'[cancels[x]].kind = goroutine[cancels[x]].kind
      BY <1>6, <1>8
    <3>3. QED
      BY <3>1, <3>2 DEF Right
  <2>3. Owned'
    <3>1. ASSUME NEW i \in DOMAIN goroutine', ~goroutine'[i].cancelled
          PROVE  \E x \in SourceNames : cancels'[x] = i
      <4>1. i \in DOMAIN goroutine /\ ~goroutine[i].cancelled /\ i # cancels[n]
        BY <1>6, <3>1
      <4>2. PICK x \in SourceNames : cancels[x] = i
        BY <2>1, <4>1 DEF AgreeBut, Owned
      <4>3. QED
        BY <1>7, <4>1, <4>2
    <3>2. QED
      BY <3>1 DEF Owned
  <2>4. QED
    BY <2>2, <2>3 DEF AgreeBut
<1>13. Doing(todo[u])'
  <2>1. Changing(todo[u])'
    BY <1>4, <1>7, <1>9, <1>12 DEF Changing
  <2>2. Room(Cardinality(SourceNames))'
    BY <1>2, <1>5, <1>6, RoomFacts
  <2>3. QED
    BY <2>1, <2>2 DEF Doing
<1>14. QED
  BY <1>10, <1>11, <1>13 DEF SourcesInv

(* All sources are stopped.                                                *)
LEMMA StopAllStep ==
  ASSUME NEW u, Commanders = {u}, SourcesInv, StopAllSources(u)
  PROVE  SourcesInv'
<1> DEFINE T == todo[u]
           stopped == {cancels[n] : n \in SourceNames}
<1>0. /\ u \in Commanders /\ Doing(T) /\ todo = [a \in Commanders |-> todo[a]]
      /\ handlers \in [SourceNames -> Builtins \cup {None}] /\ off \in SUBSET {m \in SourceNames : Has(m)} /\ astray \in BOOLEAN
      /\ commands \in 0..MaxCommands
  BY DEF SourcesInv, SrcShape
<1>1. Step(u, "stopAll")
  BY DEF StopAllSources
<1>2. Room(Cardinality(SourceNames)) /\ (~astray => AgreeBut({}))
  BY <1>0, <1>1, StepForms
<1>3. PICK file \in Files : T = <<<<"stopAll">>, <<"replace", file>>, <<"startAll">>>>
  BY <1>0, <1>1, StepForms
<1>4. Tail(T) = <<<<"replace", file>>, <<"startAll">>>>
  BY <1>3
<1> HIDE DEF T
<1>5. /\ goroutine' = Cancelled(stopped) /\ cancels' = [n \in SourceNames |-> None]
      /\ todo' = [todo EXCEPT ![u] = Tail(T)] /\ UNCHANGED <<handlers, off, commands, astray>>
  BY DEF StopAllSources, Proceed, Advance, T
<1>6. /\ goroutine' \in Seq(Started) /\ DOMAIN goroutine' = DOMAIN goroutine /\ Len(goroutine') = Len(goroutine)
      /\ \A i \in DOMAIN goroutine :
           /\ goroutine'[i].kind = goroutine[i].kind
           /\ goroutine'[i].cancelled = (goroutine[i].cancelled \/ i \in stopped)
           /\ goroutine'[i].pc = "ended" => goroutine'[i].cancelled
  BY <1>5, CancelledKeeps
<1>7. todo'[u] = <<<<"replace", file>>, <<"startAll">>>> /\ todo' = [a \in Commanders |-> todo'[a]]
  BY <1>0, <1>4, <1>5
<1>8. \A n \in SourceNames : cancels'[n] = None
  BY <1>5
<1>9. SrcShape'
  <2>1. cancels' \in [SourceNames -> DOMAIN goroutine' \cup {None}]
    BY <1>5
  <2>2. QED
    BY <1>0, <1>5, <1>6, <1>7, <2>1 DEF SrcShape, Has
<1>10. EntriesRun'
  BY <1>8 DEF EntriesRun
<1>11. ~astray' => Owned'
  BY <1>2, <1>5, <1>6, ZenonT(40) DEF AgreeBut, Owned
<1>12. Replacing(todo[u])'
  BY <1>7, <1>8, <1>11 DEF Replacing
<1>13. Room(Cardinality(SourceNames))'
  BY <1>2, <1>5, <1>6, RoomFacts
<1>14. QED
  BY <1>9, <1>10, <1>12, <1>13 DEF SourcesInv, Doing

(* The entry of a name goes to another one.                                *)
LEMMA MoveStep ==
  ASSUME NEW u, Commanders = {u}, SourcesInv, MoveSource(u)
  PROVE  SourcesInv'
<1> DEFINE T == todo[u]
<1>0. /\ u \in Commanders /\ Doing(T) /\ todo = [a \in Commanders |-> todo[a]]
      /\ handlers \in [SourceNames -> Builtins \cup {None}] /\ off \in SUBSET {m \in SourceNames : Has(m)} /\ astray \in BOOLEAN
      /\ cancels \in [SourceNames -> DOMAIN goroutine \cup {None}] /\ None \notin SourceKinds
  BY SourcesAssumption DEF SourcesInv, SrcShape
<1>1. Step(u, "move")
  BY DEF MoveSource
<1>2. Room(Cardinality(SourceNames)) /\ (~astray => AgreeBut({}))
  BY <1>0, <1>1, StepForms
<1>3. PICK n, k \in SourceNames : T = <<<<"move", n, k>>, <<"rename", n, k>>>>
  BY <1>0, <1>1, StepForms
<1>4. Arg(u, 1) = n /\ Arg(u, 2) = k /\ Tail(T) = <<<<"rename", n, k>>>>
  BY <1>3 DEF Arg
<1> HIDE DEF T
<1>5. /\ cancels' = (IF cancels[n] = None THEN cancels ELSE [[cancels EXCEPT ![k] = cancels[n]] EXCEPT ![n] = None])
      /\ astray' = (astray \/ (n = k /\ cancels[n] # None))
      /\ todo' = [todo EXCEPT ![u] = Tail(T)] /\ UNCHANGED <<handlers, off, goroutine, commands>>
  BY <1>4 DEF MoveSource, Advance, T
<1>6. todo'[u] = <<<<"rename", n, k>>>> /\ todo' = [a \in Commanders |-> todo'[a]]
  BY <1>0, <1>4, <1>5
<1>7. astray' \in BOOLEAN /\ (~astray' => ~astray /\ ~(n = k /\ cancels[n] # None))
  BY <1>0, <1>5, Zenon
<1>8. /\ cancels[n] = None => cancels' = cancels
      /\ cancels[n] # None => /\ cancels'[n] = None /\ (n # k => cancels'[k] = cancels[n])
                              /\ \A x \in SourceNames \ {n, k} : cancels'[x] = cancels[x]
      /\ cancels'[n] = None /\ cancels' \in [SourceNames -> DOMAIN goroutine \cup {None}]
  BY <1>0, <1>5
<1>9. SrcShape'
  BY <1>5, <1>6, <1>7, <1>8 DEF SourcesInv, SrcShape, Has
<1>10. EntriesRun'
  <2>1. \A x \in SourceNames : cancels'[x] # None => \E y \in SourceNames : cancels[y] = cancels'[x]
    BY <1>8
  <2>2. \A x, y \in SourceNames : cancels'[x] # None /\ cancels'[x] = cancels'[y] => x = y
    BY <1>8 DEF SourcesInv, EntriesRun
  <2>3. QED
    BY <1>5, <2>1, <2>2 DEF SourcesInv, EntriesRun
<1>11. ASSUME ~astray'
       PROVE  Moved(n, k)'
  <2>1. AgreeBut({}) /\ Right(n) /\ Right(k)
    BY <1>2, <1>7, <1>11 DEF AgreeBut
  <2>2. CASE n = k
    <3>1. cancels' = cancels
      BY <1>7, <1>8, <1>11, <2>2
    <3>2. AgreeBut({})'
      BY <1>5, <2>1, <3>1, SameSources DEF AgreeBut
    <3>3. QED
      BY <2>2, <3>2 DEF Moved
  <2>3. CASE n # k /\ ~(Has(n) /\ ~Has(k))
    BY <1>5, <2>3 DEF Moved, Has
  <2>4. CASE n # k /\ Has(n) /\ ~Has(k)
    <3>1. cancels[k] = None
      BY <1>0, <2>1, <2>4 DEF Right, Has
    <3>2. cancels'[k] = cancels[n]
      BY <1>8, <2>4, <3>1
    <3>3. \A x \in SourceNames \ {n, k} : cancels'[x] = cancels[x] /\ Right(x)'
      BY <1>5, <1>8, <2>1 DEF AgreeBut, Right
    <3>4. Owned'
      <4>1. ASSUME NEW i \in DOMAIN goroutine, ~goroutine[i].cancelled
            PROVE  \E x \in SourceNames : cancels'[x] = i
        <5>1. PICK x \in SourceNames : cancels[x] = i
          BY <2>1, <4>1 DEF AgreeBut, Owned
        <5>2. i # None
          BY <4>1, SourcesAssumption, LenProperties DEF SourcesInv, SrcShape
        <5>3. QED
          BY <3>1, <3>2, <3>3, <5>1, <5>2
      <4>2. QED
        BY <1>5, <4>1 DEF Owned
    <3>5. AgreeBut({n, k})'
      BY <3>3, <3>4 DEF AgreeBut
    <3>6. IF handlers'[n] \in SourceKinds /\ n \notin off'
          THEN cancels'[k] # None /\ goroutine'[cancels'[k]].kind = handlers'[n]
          ELSE cancels'[k] = None
      BY <1>5, <2>1, <3>2 DEF Right
    <3>7. QED
      BY <1>8, <2>4, <3>5, <3>6 DEF Moved
  <2>5. QED
    BY <2>2, <2>3, <2>4
<1>12. Doing(todo[u])'
  <2>1. Renaming(todo[u])'
    BY <1>6, <1>11 DEF Renaming
  <2>2. Room(Cardinality(SourceNames))'
    BY <1>2, <1>5, RoomFacts
  <2>3. QED
    BY <2>1, <2>2 DEF Doing
<1>13. QED
  BY <1>9, <1>10, <1>12 DEF SourcesInv

(* What goroutines do, other than being stopped, is no matter.             *)
LEMMA GoesOn ==
  ASSUME NEW u, Commanders = {u}, SourcesInv, UNCHANGED <<handlers, off, cancels, todo, commands, astray>>,
         goroutine' \in Seq(Started), DOMAIN goroutine' = DOMAIN goroutine, Len(goroutine') = Len(goroutine),
         \A j \in DOMAIN goroutine : /\ goroutine'[j].kind = goroutine[j].kind
                                     /\ goroutine'[j].cancelled = goroutine[j].cancelled
                                     /\ goroutine'[j].pc = "ended" => goroutine'[j].cancelled
  PROVE  SourcesInv'
<1>0. /\ u \in Commanders /\ Doing(todo[u]) /\ todo = [a \in Commanders |-> todo[a]]
      /\ handlers \in [SourceNames -> Builtins \cup {None}] /\ off \in SUBSET {m \in SourceNames : Has(m)} /\ astray \in BOOLEAN
      /\ cancels \in [SourceNames -> DOMAIN goroutine \cup {None}] /\ goroutine \in Seq(Started)
      /\ commands \in 0..MaxCommands
  BY DEF SourcesInv, SrcShape
<1>1. UNCHANGED <<handlers, off, cancels, todo, commands, astray>>
  OBVIOUS
<1>3. goroutine' \in Seq(Started) /\ DOMAIN goroutine' = DOMAIN goroutine /\ Len(goroutine') = Len(goroutine)
  OBVIOUS
<1>4. \A j \in DOMAIN goroutine : /\ goroutine'[j].kind = goroutine[j].kind
                                  /\ goroutine'[j].cancelled = goroutine[j].cancelled
                                  /\ goroutine'[j].pc = "ended" => goroutine'[j].cancelled
  OBVIOUS
<1>5. SrcShape'
  BY <1>0, <1>1, <1>3, <1>4 DEF SrcShape, Has
<1>6. EntriesRun'
  BY <1>0, <1>1, <1>4 DEF SourcesInv, EntriesRun
<1>7. Owned => Owned'
  BY <1>1, <1>3, <1>4 DEF Owned
<1>8. \A n \in SourceNames : Right(n) => Right(n)'
  BY <1>0, <1>1, <1>4 DEF Right
<1>9. \A names : AgreeBut(names) => (AgreeBut(names))'
  BY <1>7, <1>8 DEF AgreeBut
<1>10. \A k \in Nat : Room(k) => Room(k)'
  BY <1>1, <1>3, RoomFacts
<1>11. Cardinality(SourceNames) \in Nat /\ (Room(Cardinality(SourceNames)) => Room(Cardinality(SourceNames))')
  BY <1>10, RoomFacts
<1>12. Fresh(todo[u]) => Fresh(todo[u])'
  <2>1. todo'[u] \in Commands <=> (todo[u] \in Commands)'
    BY DEF Commands, AddHandler, UpdateHandler, DeleteHandler, EnableHandler, DisableHandler, RenameHandler, ReloadHandlers
  <2>2. AgreeBut({}) => AgreeBut({})'
    BY <1>7, <1>8 DEF AgreeBut
  <2>3. QED
    BY <1>1, <2>1, <2>2 DEF Fresh
<1>13. Changing(todo[u]) => Changing(todo[u])'
  <2>1. \A n \in SourceNames : AgreeBut({n}) => AgreeBut({n})'
    BY <1>7, <1>8 DEF AgreeBut
  <2>2. ASSUME Changing(todo[u])
        PROVE  Changing(todo[u])'
    <3>1. PICK n \in SourceNames :
            /\ todo[u] \in {<<<<"update", n, b>>, <<"start", n, b>>>> : b \in Builtins} \cup {<<<<"delete", n>>>>, <<<<"disable", n>>>>}
            /\ ~astray => AgreeBut({n}) /\ cancels[n] = None
      BY <2>2 DEF Changing
    <3>2. ~astray' => AgreeBut({n})' /\ cancels'[n] = None
      BY <1>1, <2>1, <3>1
    <3>3. QED
      BY <1>1, <3>1, <3>2 DEF Changing
  <2>3. QED
    BY <2>2
<1>14. Renaming(todo[u]) => Renaming(todo[u])'
  <2>1. ASSUME NEW n \in SourceNames, NEW k \in SourceNames, Moved(n, k)
        PROVE  Moved(n, k)'
    <3>1. (AgreeBut({}) => AgreeBut({})') /\ (AgreeBut({n, k}) => AgreeBut({n, k})')
      BY <1>7, <1>8 DEF AgreeBut
    <3>2. cancels[k] # None => goroutine'[cancels[k]].kind = goroutine[cancels[k]].kind
      BY <1>0, <1>4
    <3>3. QED
      BY <1>1, <2>1, <3>1, <3>2 DEF Moved, Has
  <2>2. QED
    BY <1>1, <2>1 DEF Renaming
<1>15. Replacing(todo[u]) => Replacing(todo[u])'
  BY <1>1, <1>7 DEF Replacing
<1>16. Enabling(todo[u]) => Enabling(todo[u])'
  <2>1. \A n \in SourceNames : AgreeBut({n}) => AgreeBut({n})'
    BY <1>7, <1>8 DEF AgreeBut
  <2>2. ASSUME Enabling(todo[u])
        PROVE  Enabling(todo[u])'
    <3>1. PICK n \in SourceNames :
            todo[u] = <<<<"startCurrent", n>>>> /\ (~astray => AgreeBut({n}) /\ (cancels[n] # None => Right(n)))
      BY <2>2 DEF Enabling
    <3>2. ~astray' => AgreeBut({n})' /\ (cancels'[n] # None => Right(n)')
      BY <1>1, <1>8, <2>1, <3>1
    <3>3. QED
      BY <1>1, <3>1, <3>2 DEF Enabling
  <2>3. QED
    BY <2>2
<1>17. Starting(todo[u]) => Starting(todo[u])'
  <2> DEFINE T == todo[u]
  <2>1. SUFFICES ASSUME Starting(T)
                 PROVE  Starting(todo[u])'
    OBVIOUS
  <2>2. T \in Seq({"start", "launch"} \X SourceNames \X Builtins) /\ Len(T) \in Nat /\ DOMAIN T = 1..Len(T)
    <3> DEFINE A == {"start", "launch"} \X SourceNames \X Builtins
    <3>1. T \in Seq(A)
      BY <2>1 DEF Starting
    <3> HIDE DEF A, T
    <3>2. Len(T) \in Nat /\ DOMAIN T = 1..Len(T)
      BY <3>1, LenProperties
    <3>3. QED
      BY <3>1, <3>2 DEF A
  <2>3. \A j \in DOMAIN T : T[j][2] \in SourceNames
    <3> DEFINE A == {"start", "launch"} \X SourceNames \X Builtins
    <3>1. \A j \in DOMAIN T : T[j] \in A
      <4> HIDE DEF A, T
      <4>1. T \in Seq(A)
        BY <2>2 DEF A
      <4>2. QED
        BY <2>2, <4>1, ElementOfSeq
    <3>2. QED
      BY <3>1
  <2>4. ~astray => AgreeBut(NamesOf(T))' /\ \A j \in DOMAIN T : cancels[T[j][2]] # None => Right(T[j][2])'
    <3>1. ~astray => AgreeBut(NamesOf(T)) /\ \A j \in DOMAIN T : cancels[T[j][2]] # None => Right(T[j][2])
      BY <2>1 DEF Starting
    <3>2. AgreeBut(NamesOf(T)) => AgreeBut(NamesOf(T))'
      BY <1>1, <1>7, <1>8 DEF AgreeBut, NamesOf
    <3>3. \A j \in DOMAIN T : Right(T[j][2]) => Right(T[j][2])'
      BY <1>1, <1>8, <2>3
    <3>4. QED
      BY <3>1, <3>2, <3>3
  <2>5. Room(Len(T))'
    BY <1>1, <1>10, <2>1, <2>2 DEF Starting
  <2>6. QED
    BY <1>1, <2>1, <2>2, <2>4, <2>5 DEF Starting
<1>18. Doing(todo[u])'
  BY <1>0, <1>11, <1>12, <1>13, <1>14, <1>15, <1>16, <1>17 DEF Doing
<1>19. QED
  BY <1>5, <1>6, <1>18 DEF SourcesInv

(* A step of a goroutine.                                                  *)
LEMMA GoroutineStep ==
  ASSUME NEW u, Commanders = {u}, SourcesInv, NEW i \in DOMAIN goroutine,
         NEW pc \in {"check", "connect", "active", "backoff", "ended"}, Goes(i, pc),
         pc = "ended" => goroutine[i].cancelled
  PROVE  SourcesInv'
<1> DEFINE g == [goroutine[i] EXCEPT !.pc = pc]
<1>0. /\ u \in Commanders /\ Doing(todo[u]) /\ todo = [a \in Commanders |-> todo[a]]
      /\ handlers \in [SourceNames -> Builtins \cup {None}] /\ off \in SUBSET {m \in SourceNames : Has(m)} /\ astray \in BOOLEAN
      /\ cancels \in [SourceNames -> DOMAIN goroutine \cup {None}] /\ goroutine \in Seq(Started)
      /\ commands \in 0..MaxCommands /\ \A j \in DOMAIN goroutine : goroutine[j].pc = "ended" => goroutine[j].cancelled
  BY DEF SourcesInv, SrcShape
<1>1. goroutine' = [goroutine EXCEPT ![i] = g] /\ UNCHANGED <<handlers, off, cancels, todo, commands, astray>>
  BY DEF Goes
<1>2. g \in Started /\ g.kind = goroutine[i].kind /\ g.cancelled = goroutine[i].cancelled /\ g.pc = pc
  <2>1. goroutine[i] \in Started
    BY <1>0, ElementOfSeq, LenProperties
  <2>2. QED
    BY <2>1 DEF Started
<1> HIDE DEF g
<1>3. goroutine' \in Seq(Started) /\ DOMAIN goroutine' = DOMAIN goroutine /\ Len(goroutine') = Len(goroutine)
  BY <1>0, <1>1, <1>2, ExceptSeq, LenProperties
<1>4. \A j \in DOMAIN goroutine : /\ goroutine'[j].kind = goroutine[j].kind
                                  /\ goroutine'[j].cancelled = goroutine[j].cancelled
                                  /\ goroutine'[j].pc = "ended" => goroutine'[j].cancelled
  BY <1>0, <1>1, <1>2
<1>5. QED
  BY <1>1, <1>3, <1>4, GoesOn

(* One step of the one who gives commands, or of a goroutine.              *)
LEMMA StepSources ==
  ASSUME NEW u, Commanders = {u}, SourcesInv, [SourcesNext \/ SourcesQuiet]_srcVars
  PROVE  SourcesInv'
<1>1. CASE Command(u)
  BY <1>1, CommandStep
<1>2. CASE \/ RegistryAdd(u) \/ RegistryUpdate(u) \/ RegistryDelete(u) \/ RegistryRename(u)
           \/ RegistryReplace(u) \/ RegistryEnable(u) \/ RegistryDisable(u)
  BY <1>2, RegistrySteps
<1>3. CASE StartAll(u) \/ StartCurrent(u) \/ StartChecked(u) \/ Launch(u)
  BY <1>3, StartAllStep, StartCurrentStep, CheckedStep, LaunchStep
<1>4. CASE StopSource(u) \/ StopAllSources(u) \/ MoveSource(u)
  BY <1>4, StopStep, StopAllStep, MoveStep
<1>5. ASSUME NEW i \in DOMAIN goroutine, Run(i) \/ ConnectionLost(i)
      PROVE  SourcesInv'
  <2>1. CASE CheckDone(i)
    <3>1. CASE goroutine[i].cancelled
      BY <2>1, <3>1, GoroutineStep DEF CheckDone
    <3>2. CASE ~goroutine[i].cancelled
      BY <2>1, <3>2, GoroutineStep DEF CheckDone
    <3>3. QED
      BY <3>1, <3>2
  <2>2. CASE Connected(i)
    BY <2>2, GoroutineStep DEF Connected
  <2>3. CASE ConnectFails(i) \/ ConnectionLost(i)
    <3>1. CASE ConnectFails(i)
      BY <3>1, GoroutineStep DEF ConnectFails
    <3>2. CASE ConnectionLost(i) /\ goroutine[i].cancelled
      BY <3>2, GoroutineStep DEF ConnectionLost
    <3>3. CASE ConnectionLost(i) /\ ~goroutine[i].cancelled
      BY <3>3, GoroutineStep DEF ConnectionLost
    <3>4. QED
      BY <2>3, <3>1, <3>2, <3>3
  <2>4. CASE BackoffEnds(i)
    BY <2>4, GoroutineStep DEF BackoffEnds
  <2>5. CASE ActiveEnds(i)
    BY <2>5, GoroutineStep DEF ActiveEnds
  <2>6. QED
    BY <1>5, <2>1, <2>2, <2>3, <2>4, <2>5 DEF Run
<1>6. CASE SourcesQuiet \/ UNCHANGED srcVars
  <2>1. UNCHANGED <<handlers, off, cancels, goroutine, todo, commands, astray>>
    BY <1>6 DEF SourcesQuiet, srcVars
  <2>2. goroutine \in Seq(Started) /\ \A i \in DOMAIN goroutine : goroutine[i].pc = "ended" => goroutine[i].cancelled
    BY DEF SourcesInv, SrcShape
  <2>3. QED
    BY <2>1, <2>2, GoesOn
<1>7. QED
  BY <1>1, <1>2, <1>3, <1>4, <1>5, <1>6 DEF SourcesNext, Perform

(* The server starts with the sources of its file.                         *)
LEMMA InitSources ==
  ASSUME NEW u, Commanders = {u}, SourcesInit
  PROVE  SourcesInv
<1>1. todo = [a \in Commanders |-> <<<<"startAll">>>>] /\ todo[u] = <<<<"startAll">>>>
  BY DEF SourcesInit
<1>2. /\ handlers \in [SourceNames -> Builtins \cup {None}] /\ off = {} /\ cancels = [n \in SourceNames |-> None]
      /\ goroutine = <<>> /\ commands = 0 /\ astray = FALSE
  BY SourcesAssumption DEF SourcesInit
<1>3. Len(goroutine) = 0 /\ DOMAIN goroutine = {} /\ goroutine \in Seq(Started)
  BY <1>2
<1>4. SrcShape
  <2>1. /\ off \in SUBSET {n \in SourceNames : Has(n)} /\ cancels \in [SourceNames -> DOMAIN goroutine \cup {None}]
        /\ \A i \in DOMAIN goroutine : goroutine[i].pc = "ended" => goroutine[i].cancelled
    BY <1>2, <1>3
  <2>2. todo = [a \in Commanders |-> todo[a]]
    BY <1>1
  <2>3. commands \in 0..MaxCommands /\ astray \in BOOLEAN
    <3>1. MaxCommands \in Nat
      BY SourcesAssumption
    <3>2. 0 \in 0..MaxCommands
      BY <3>1
    <3>3. commands \in 0..MaxCommands
      BY <1>2, <3>2
    <3>4. astray \in BOOLEAN
      BY <1>2
    <3>5. QED
      BY <3>3, <3>4
  <2>4. QED
    BY <1>2, <1>3, <2>1, <2>2, <2>3 DEF SrcShape
<1>5. EntriesRun /\ Owned
  BY <1>2, <1>3 DEF EntriesRun, Owned
<1>6. Room(Cardinality(SourceNames))
  <2>1. Cardinality(SourceNames) \in Nat
    BY SourcesAssumption, FS_CardinalityType
  <2>2. QED
    BY <1>2, <1>3, <2>1 DEF Room
<1>7. Replacing(todo[u])
  BY <1>1, <1>2, <1>5 DEF Replacing
<1>8. QED
  BY <1>4, <1>5, <1>6, <1>7 DEF SourcesInv, Doing

(* What one who gives commands has left to do, what of it is done already  *)
(* and which names may disagree meanwhile, in every reachable state.       *)
THEOREM SourcesInductive ==
  ASSUME NEW u, Commanders = {u}
  PROVE  SourcesSpec => []SourcesInv
<1>1. SourcesInit => SourcesInv
  BY InitSources
<1>2. SourcesInv /\ [SourcesNext \/ SourcesQuiet]_srcVars => SourcesInv'
  BY StepSources
<1>3. QED
  BY <1>1, <1>2, PTL DEF SourcesSpec

(* Every name is what some file or command made it, and no more goroutines *)
(* are started than there are names for each command and the first file.   *)
THEOREM SourcesTypeCorrect ==
  ASSUME NEW u, Commanders = {u}
  PROVE  SourcesSpec => []SourcesTypeOK
<1>1. SourcesInv => SourcesTypeOK
  <2>1. SUFFICES ASSUME SourcesInv
                 PROVE  SourcesTypeOK
    OBVIOUS
  <2> DEFINE C == Cardinality(SourceNames)
  <2>2. \A i \in DOMAIN goroutine : goroutine[i] \in Started
    BY <2>1, ElementOfSeq, LenProperties DEF SourcesInv, SrcShape
  <2>3. Len(goroutine) <= MaxSources
    <3>1. C \in Nat
      BY <2>1, RoomFacts
    <3>2. Len(goroutine) \in Nat /\ commands \in 0..MaxCommands /\ MaxCommands \in Nat
      BY <2>1, SourcesAssumption, LenProperties DEF SourcesInv, SrcShape
    <3>3. \E k \in Nat : Room(k)
      <4> DEFINE T == todo[u]
                 A == {"start", "launch"} \X SourceNames \X Builtins
      <4>1. Room(C) \/ Starting(T)
        BY <2>1 DEF SourcesInv, Doing
      <4>2. CASE Starting(T)
        <5>1. T \in Seq(A) /\ Room(Len(T))
          BY <4>2 DEF Starting
        <5> HIDE DEF A, T
        <5>2. Len(T) \in Nat
          BY <5>1, LenProperties
        <5>3. QED
          BY <5>1, <5>2
      <4>3. QED
        BY <3>1, <4>1, <4>2
    <3>4. PICK k \in Nat : Len(goroutine) + k <= (commands + 1) * C
      BY <3>3 DEF Room
    <3> HIDE DEF C
    <3>5. (commands + 1) * C <= (MaxCommands + 1) * C
      <4>1. PICK d \in Nat : MaxCommands = commands + d
        <5>1. MaxCommands - commands \in Nat /\ MaxCommands = commands + (MaxCommands - commands)
          BY <3>2
        <5>2. QED
          BY <5>1
      <4>2. (MaxCommands + 1) * C = (commands + 1) * C + d * C
        BY <3>1, <3>2, <4>1
      <4>3. d * C \in Nat /\ (commands + 1) * C \in Nat
        BY <3>1, <3>2
      <4>4. QED
        BY <4>2, <4>3
    <3>6. (commands + 1) * C \in Nat /\ (MaxCommands + 1) * C \in Nat
      BY <3>1, <3>2
    <3>7. QED
      BY <3>2, <3>4, <3>5, <3>6 DEF MaxSources, C
  <2>4. QED
    BY <2>1, <2>2, <2>3 DEF SourcesTypeOK, SourcesInv, SrcShape, Started
<1>2. QED
  BY <1>1, SourcesInductive, PTL

(* Between commands, unless one was refused halfway, exactly the enabled   *)
(* source handlers have a goroutine that is not cancelled, one each, as    *)
(* long as only one gives commands.                                        *)
THEOREM SourcesConsistent ==
  ASSUME NEW u, Commanders = {u}
  PROVE  SourcesSpec => []SourcesAgree
<1>1. SourcesInv => SourcesAgree
  <2>1. SUFFICES ASSUME SourcesInv, Idle, ~astray
                 PROVE  SourcesAgree
    BY DEF SourcesAgree
  <2>2. AgreeBut({})
    BY <2>1, AtRest DEF SourcesInv, Idle
  <2>3. \A n \in SourceNames : Right(n) /\ (cancels[n] # None => ~goroutine[cancels[n]].cancelled)
    BY <2>1, <2>2 DEF AgreeBut, SourcesInv, EntriesRun
  <2>4. QED
    BY <2>2, <2>3 DEF SourcesAgree, AgreeBut, Owned, Right, Running
<1>2. QED
  BY <1>1, SourcesInductive, PTL
=============================================================================

----------------------------- MODULE PartsProofs ------------------------------
(***************************************************************************)
(* Theorems about five parts of the program that share no state: the       *)
(* key-value store, the static file servers, the limits of a request, the  *)
(* interactive shell and the connection, for any number of keys, readers,  *)
(* ports, stoppers, hosts, origins, policies, scripts, lines, callers,     *)
(* capacities and close codes. The inductive invariant of the connection   *)
(* is IInv of Connection.                                                  *)
(***************************************************************************)
EXTENDS KVStore, Static, Limits, Repl, Connection, SequenceLemmas, FiniteSetTheorems

-----------------------------------------------------------------------------
(* The key-value store *)

(* What Get found and still has to test was there when the read began, and *)
(* if it was stale then, it had expired.                                   *)
FoundFresh(r) ==
  /\ get[r].pc = "test" => \E v \in get[r].got : get[r].got = {v} /\ (v \in get[r].stale => v \in expired)
  /\ get[r].pc = "evict" => get[r].got = {}

KVInv ==
  /\ KVTypeOK
  /\ get \in [Readers -> [pc : {"idle", "test", "evict", "returned"}, key : Keys \cup {None},
                          got : SUBSET (1..sets), stale : SUBSET (1..sets)]]
  /\ \A r \in Readers : FoundFresh(r) /\ (get[r].pc \in {"test", "evict"} => get[r].key \in Keys)
  /\ \A k, l \in Keys : data[k] = data[l] /\ data[k] # None => k = l
  /\ NothingStale

(* Every step of the store keeps its invariant. *)
LEMMA StepKV == KVInv /\ [KVNext]_kvVars => KVInv'
<1> SUFFICES ASSUME KVInv, [KVNext]_kvVars PROVE KVInv'
  OBVIOUS
<1> USE KVAssumption DEF KVInv, KVTypeOK, FoundFresh, NothingStale
<1> DEFINE GetType(n) == [pc : {"idle", "test", "evict", "returned"}, key : Keys \cup {None},
                          got : SUBSET (1..n), stale : SUBSET (1..n)]
<1>0. None \notin removed
  <2>1. None \notin Nat /\ removed \subseteq 1..sets /\ 1..sets \subseteq Nat
    OBVIOUS
  <2>2. QED
    BY ONLY <2>1
<1>1. ASSUME NEW k \in Keys, NEW ttl \in BOOLEAN, Set(k, ttl)
      PROVE  KVInv'
  <2>1. /\ sets' = sets + 1 /\ sets' \in 0..MaxSets /\ 1..sets \subseteq 1..sets'
        /\ sets' \in 1..sets' /\ sets' \notin 1..sets
    BY <1>1 DEF Set
  <2>2. data' \in [Keys -> 1..sets' \cup {None}]
    BY <1>1, <2>1 DEF Set
  <2>3. removed' \subseteq 1..sets' /\ \A l \in Keys : data'[l] \notin removed'
    <3>1. At(k) \subseteq 1..sets /\ removed' = removed \cup At(k)
      BY <1>1 DEF Set, At
    <3>2. ASSUME NEW l \in Keys
          PROVE  data'[l] \notin removed'
      <4>1. CASE l = k
        BY <1>1, <2>1, <3>1, <4>1 DEF Set
      <4>2. CASE l # k
        BY <1>1, <3>1, <4>2 DEF Set, At
      <4>3. QED
        BY <4>1, <4>2
    <3>3. QED
      BY <2>1, <3>1, <3>2
  <2>7. \A l, j \in Keys : data'[l] = data'[j] /\ data'[l] # None => l = j
    BY <1>1, <2>1 DEF Set
  <2>4. expired' \subseteq mortal' /\ mortal' \subseteq 1..sets'
    BY <1>1, <2>1 DEF Set
  <2>5. /\ get' = get /\ expired' = expired /\ reads' = reads
        /\ get' \in [Readers -> GetType(sets')]
    BY <1>1, <2>1 DEF Set
  <2>6. QED
    BY <2>1, <2>2, <2>3, <2>4, <2>5, <2>7
<1>2. ASSUME NEW k \in Keys, Delete(k)
      PROVE  KVInv'
  <2>1. data' \in [Keys -> 1..sets \cup {None}]
    BY <1>2 DEF Delete
  <2>2. removed' \subseteq 1..sets /\ \A l \in Keys : data'[l] \notin removed'
    <3>1. At(k) \subseteq 1..sets /\ removed' = removed \cup At(k) /\ None \notin removed'
      BY <1>0, <1>2 DEF Delete, At
    <3>2. ASSUME NEW l \in Keys
          PROVE  data'[l] \notin removed'
      <4>1. CASE l = k
        BY <1>2, <3>1, <4>1 DEF Delete
      <4>2. CASE l # k
        BY <1>2, <3>1, <4>2 DEF Delete, At
      <4>3. QED
        BY <4>1, <4>2
    <3>3. QED
      BY <3>1, <3>2
  <2>3. \A l, j \in Keys : data'[l] = data'[j] /\ data'[l] # None => l = j
    BY <1>2 DEF Delete
  <2>4. QED
    BY <1>2, <2>1, <2>2, <2>3 DEF Delete
<1>3. ASSUME NEW v \in 1..MaxSets, Expire(v)
      PROVE  KVInv'
  <2>1. expired \subseteq expired' /\ expired' \subseteq mortal
    BY <1>3 DEF Expire
  <2>2. QED
    BY <1>3, <2>1 DEF Expire
<1>4. ASSUME NEW r \in Readers, NEW k \in Keys, Look(r, k)
      PROVE  KVInv'
  <2> DEFINE q == [pc |-> IF data[k] = None THEN "returned" ELSE "test", key |-> k,
                   got |-> At(k), stale |-> removed \cup expired]
  <2>1. /\ get' = [get EXCEPT ![r] = q] /\ reads' \in 0..MaxReads
        /\ UNCHANGED <<data, mortal, expired, sets, removed>>
    BY <1>4 DEF Look, Reads
  <2>2. /\ q \in GetType(sets)
        /\ q.pc \in {"returned", "test"}
        /\ q.pc = "returned" => q.got = {}
        /\ q.pc = "test" => q.got = {data[k]} /\ data[k] \notin removed
        /\ q.stale = removed \cup expired /\ q.key \in Keys
    BY DEF At
  <2> HIDE DEF q
  <2>3. \A s \in Readers : get'[s] = IF s = r THEN q ELSE get[s]
    BY <2>1
  <2>4. get' \in [Readers -> GetType(sets)]
    BY <2>1, <2>2
  <2>5. \A s \in Readers : FoundFresh(s)'
    BY <2>1, <2>2, <2>3
  <2>6. QED
    BY <2>1, <2>2, <2>3, <2>4, <2>5
<1>5. ASSUME NEW r \in Readers, Test(r)
      PROVE  KVInv'
  <2>0. get[r] \in GetType(sets)
    OBVIOUS
  <2>1. PICK v \in get[r].got : get[r].got = {v} /\ (v \in get[r].stale => v \in expired)
    BY <1>5 DEF Test
  <2>2. CASE v \in expired
    <3> DEFINE q == [get[r] EXCEPT !.pc = "evict", !.got = {}]
    <3>1. get' = [get EXCEPT ![r] = q] /\ UNCHANGED <<data, mortal, expired, sets, reads, removed>>
      BY <1>5, <2>1, <2>2 DEF Test
    <3>2. /\ q.pc = "evict" /\ q.got = {} /\ q.key = get[r].key
          /\ q \in GetType(sets)
      BY <2>0
    <3> HIDE DEF q
    <3>3. /\ \A t \in Readers : get'[t] = IF t = r THEN q ELSE get[t]
          /\ get' \in [Readers -> GetType(sets)]
      BY <3>1, <3>2
    <3>4. get[r].key \in Keys
      BY <1>5 DEF Test
    <3>5. QED
      BY <3>1, <3>2, <3>3, <3>4
  <2>3. CASE v \notin expired
    <3> DEFINE q == [get[r] EXCEPT !.pc = "returned"]
    <3>1. get' = [get EXCEPT ![r] = q] /\ UNCHANGED <<data, mortal, expired, sets, reads, removed>>
      BY <1>5, <2>1, <2>3 DEF Test
    <3>2. /\ q.pc = "returned" /\ q.got \cap q.stale = {}
          /\ q \in GetType(sets)
      BY <2>1, <2>3
    <3> HIDE DEF q
    <3>3. QED
      BY <3>1, <3>2
  <2>4. QED
    BY <2>2, <2>3
<1>6. ASSUME NEW r \in Readers, Evict(r)
      PROVE  KVInv'
  <2> DEFINE q == [get[r] EXCEPT !.pc = "returned"]
  <2>1. /\ get' = [get EXCEPT ![r] = q] /\ UNCHANGED <<mortal, expired, sets, reads, removed>>
        /\ data' = [data EXCEPT ![get[r].key] = None]
    BY <1>6 DEF Evict
  <2>2. /\ q.pc = "returned" /\ q.got \cap q.stale = {}
        /\ q \in GetType(sets)
    BY <1>6 DEF Evict
  <2>3. data' \in [Keys -> 1..sets \cup {None}]
    BY <2>1
  <2>4. \A k \in Keys : data'[k] \notin removed
    BY <1>0, <2>1
  <2>5. \A l, j \in Keys : data'[l] = data'[j] /\ data'[l] # None => l = j
    BY <2>1
  <2> HIDE DEF q
  <2>6. QED
    BY <2>1, <2>2, <2>3, <2>4, <2>5
<1>7. ASSUME NEW r \in Readers, List(r)
      PROVE  KVInv'
  <2> DEFINE q == [pc |-> "returned", key |-> None,
                   got |-> {data[k] : k \in Keys} \ (expired \cup {None}),
                   stale |-> removed \cup expired]
  <2>1. /\ get' = [get EXCEPT ![r] = q] /\ reads' \in 0..MaxReads
        /\ UNCHANGED <<data, mortal, expired, sets, removed>>
    BY <1>7 DEF List, Reads
  <2>2. /\ q \in GetType(sets)
        /\ q.pc = "returned" /\ q.got \cap q.stale = {}
    OBVIOUS
  <2> HIDE DEF q
  <2>3. QED
    BY <2>1, <2>2
<1>8. CASE Cleanup
  <2>1. data' \in [Keys -> 1..sets \cup {None}]
    BY <1>8 DEF Cleanup
  <2>2. \A k \in Keys : data'[k] \notin removed
    BY <1>0, <1>8 DEF Cleanup
  <2>3. \A l, j \in Keys : data'[l] = data'[j] /\ data'[l] # None => l = j
    BY <1>8 DEF Cleanup
  <2>4. QED
    BY <1>8, <2>1, <2>2, <2>3 DEF Cleanup
<1>9. CASE UNCHANGED kvVars
  BY <1>9 DEF kvVars
<1>10. QED
  BY <1>1, <1>2, <1>3, <1>4, <1>5, <1>6, <1>7, <1>8, <1>9 DEF KVNext

(* The store keeps its inductive invariant. *)
THEOREM KVInductive == KVSpec => []KVInv
<1>1. KVInit => KVInv
  BY KVAssumption DEF KVInit, KVInv, KVTypeOK, FoundFresh, NothingStale, NoGet
<1>2. QED
  BY <1>1, StepKV, PTL DEF KVSpec

(* A key holds a value that was set and is not overwritten. *)
THEOREM KVTypeCorrect == KVSpec => []KVTypeOK
<1>1. KVInv => KVTypeOK
  BY DEF KVInv
<1>2. QED
  BY KVInductive, <1>1, PTL

(* A read returns nothing that was overwritten, deleted or expired when it *)
(* began, whatever else happens between its look, its test and its return. *)
THEOREM KVNothingStale == KVSpec => []NothingStale
<1>1. KVInv => NothingStale
  BY DEF KVInv
<1>2. QED
  BY KVInductive, <1>1, PTL

-----------------------------------------------------------------------------
(* Static file servers *)

ListenerStates == {"new", "listening", "failed", "gone"}

(* A server that listens, or is going to, and that nobody can stop has     *)
(* lost its entry to a failed listener on the same port.                   *)
CanStop(i) ==
  listener[i] \in {"new", "listening"} /\ i \notin shutdown =>
    servers[at[i]] = i \/ (\E s \in Stoppers : stopping[s] = i) \/ at[i] \in crossed

(* Servers are numbered as they start, and an entry is at its own port.    *)
StaticInv ==
  /\ at \in Seq(Ports) /\ listener \in Seq(ListenerStates)
  /\ Len(listener) = Len(at) /\ Len(at) <= MaxServers
  /\ servers \in [Ports -> (1..Len(at)) \cup {None}]
  /\ \A p \in Ports : servers[p] # None => at[servers[p]] = p
  /\ shutdown \subseteq 1..Len(at) /\ taken \subseteq Ports /\ crossed \subseteq Ports
  /\ stopping \in [Stoppers -> (1..Len(at)) \cup {None}] /\ todo \in [Stoppers -> SUBSET Ports]
  /\ \A i \in 1..Len(at) : CanStop(i)

(* The number of the next server. *)
LEMMA NextServer ==
  ASSUME at \in Seq(Ports)
  PROVE  /\ Started = 1..Len(at) /\ Len(at) \in Nat
         /\ Cardinality(Started) = Len(at)
<1>1. Len(at) \in Nat /\ Started = 1..Len(at)
  BY LenProperties DEF Started
<1>2. Cardinality(1..Len(at)) = Len(at)
  BY <1>1, FS_Interval, SMTT(40)
<1>3. QED
  BY <1>1, <1>2

(* StopPort takes an entry out and remembers its server. *)
LEMMA StopPortKeeps ==
  ASSUME StaticInv, NEW s \in Stoppers, NEW p \in Ports, StopPort(s, p),
         todo' \in [Stoppers -> SUBSET Ports]
  PROVE  StaticInv'
<1> USE DEF StaticInv
<1>1. /\ stopping[s] = None /\ stopping' = [stopping EXCEPT ![s] = servers[p]]
      /\ servers' = [servers EXCEPT ![p] = None]
      /\ UNCHANGED <<at, listener, shutdown, taken, crossed>>
  BY DEF StopPort
<1>2. /\ stopping' \in [Stoppers -> (1..Len(at)) \cup {None}]
      /\ servers' \in [Ports -> (1..Len(at)) \cup {None}]
      /\ \A o \in Ports : servers'[o] # None => at[servers'[o]] = o
  BY <1>1
<1>3. ASSUME NEW i \in 1..Len(at)
      PROVE  CanStop(i)'
  <2>0. at[i] \in Ports
    BY <1>3
  <2>1. CASE servers[at[i]] = i /\ at[i] = p
    <3>1. stopping'[s] = i
      BY <1>1, <2>1
    <3>2. QED
      BY <3>1 DEF CanStop
  <2>2. CASE servers[at[i]] = i /\ at[i] # p
    <3>1. servers'[at'[i]] = i
      BY <1>1, <2>0, <2>2
    <3>2. QED
      BY <3>1 DEF CanStop
  <2>3. ASSUME NEW t \in Stoppers, stopping[t] = i
        PROVE  CanStop(i)'
    <3>1. t # s
      BY <1>1, <2>3, StaticAssumption
    <3>2. stopping'[t] = i
      BY <1>1, <2>3, <3>1
    <3>3. QED
      BY <3>2 DEF CanStop
  <2>4. CASE ~(listener[i] \in {"new", "listening"} /\ i \notin shutdown) \/ at[i] \in crossed
    BY <1>1, <2>4 DEF CanStop
  <2>5. QED
    BY <1>3, <2>1, <2>2, <2>3, <2>4 DEF CanStop
<1>4. QED
  BY <1>1, <1>2, <1>3

(* Every step of the static servers keeps their invariant. *)
LEMMA StepStatic == StaticInv /\ [StaticNext \/ StaticQuiet]_statVars => StaticInv'
<1> SUFFICES ASSUME StaticInv, [StaticNext \/ StaticQuiet]_statVars PROVE StaticInv'
  OBVIOUS
<1> USE DEF StaticInv
<1>0. /\ Started = 1..Len(at) /\ Len(at) \in Nat /\ Cardinality(Started) = Len(at)
      /\ DOMAIN listener = 1..Len(at)
      /\ \A i \in 1..Len(at) : at[i] \in Ports /\ listener[i] \in ListenerStates
  BY NextServer, LenProperties
<1>1. ASSUME NEW p \in Ports, Start(p)
      PROVE  StaticInv'
  <2> DEFINE n == Len(at) + 1
  <2>1. /\ servers[p] = None /\ Cardinality(Started) < MaxServers
        /\ at' = Append(at, p) /\ listener' = Append(listener, "new")
        /\ servers' = [servers EXCEPT ![p] = n]
        /\ UNCHANGED <<shutdown, taken, stopping, todo, crossed>>
    BY <1>0, <1>1 DEF Start
  <2>2. n <= MaxServers
    BY <1>0, <2>1, StaticAssumption
  <2>3. /\ at' \in Seq(Ports) /\ Len(at') = n /\ at'[n] = p
        /\ \A i \in 1..Len(at) : at'[i] = at[i]
    BY <2>1, AppendProperties
  <2>4. /\ listener' \in Seq(ListenerStates) /\ Len(listener') = n
        /\ \A i \in 1..Len(at) : listener'[i] = listener[i]
    <3>1. "new" \in ListenerStates
      BY DEF ListenerStates
    <3>2. QED
      BY <2>1, <3>1, AppendProperties
  <2>5. 1..Len(at') = (1..Len(at)) \cup {n} /\ n \notin 1..Len(at)
    BY <1>0, <2>3
  <2>6. servers' \in [Ports -> (1..Len(at')) \cup {None}]
    BY <2>1, <2>5
  <2>7. \A o \in Ports : servers'[o] # None => at'[servers'[o]] = o
    BY <2>1, <2>3
  <2>8. ASSUME NEW i \in 1..Len(at')
        PROVE  CanStop(i)'
    <3>1. CASE i = n
      BY <2>1, <2>3, <3>1 DEF CanStop
    <3>2. CASE i \in 1..Len(at)
      <4>1. servers[at[i]] = i => at[i] # p
        BY <2>1, <3>2, StaticAssumption
      <4>2. CanStop(i)
        BY <3>2
      <4>3. servers[at[i]] = i => servers'[at'[i]] = i
        BY <1>0, <2>1, <2>3, <3>2, <4>1
      <4>4. QED
        BY <2>1, <2>3, <2>4, <3>2, <4>2, <4>3 DEF CanStop
    <3>3. QED
      BY <2>5, <3>1, <3>2
  <2> HIDE DEF n
  <2>9. QED
    BY <2>1, <2>2, <2>3, <2>4, <2>5, <2>6, <2>7, <2>8
<1>2. ASSUME NEW i \in Started, Listen(i)
      PROVE  StaticInv'
  <2>1. PICK next \in ListenerStates :
          /\ listener' = [listener EXCEPT ![i] = next]
          /\ UNCHANGED <<servers, at, shutdown, taken, stopping, todo, crossed>>
    BY <1>2 DEF Listen, ListenerStates
  <2>2. listener[i] = "new"
    BY <1>2 DEF Listen
  <2>3. listener' \in Seq(ListenerStates) /\ Len(listener') = Len(at)
    BY <1>0, <1>2, <2>1, ExceptSeq
  <2>4. \A j \in 1..Len(at) : j # i => listener'[j] = listener[j]
    BY <1>0, <2>1
  <2>5. ASSUME NEW j \in 1..Len(at)
        PROVE  CanStop(j)'
    BY <2>1, <2>2, <2>4 DEF CanStop
  <2>6. QED
    BY <2>1, <2>3, <2>5
<1>3. ASSUME NEW i \in Started, RemoveFailed(i)
      PROVE  StaticInv'
  <2>1. /\ listener[i] = "failed" /\ listener' = [listener EXCEPT ![i] = "gone"]
        /\ servers' = [servers EXCEPT ![at[i]] = None]
        /\ crossed' = IF servers[at[i]] \notin {None, i} THEN crossed \cup {at[i]} ELSE crossed
        /\ UNCHANGED <<at, shutdown, taken, stopping, todo>>
    BY <1>3 DEF RemoveFailed
  <2>2. listener' \in Seq(ListenerStates) /\ Len(listener') = Len(at)
    BY <1>0, <1>3, <2>1, ExceptSeq DEF ListenerStates
  <2>3. listener'[i] = "gone" /\ \A j \in 1..Len(at) : j # i => listener'[j] = listener[j]
    BY <1>0, <1>3, <2>1
  <2>4. /\ servers' \in [Ports -> (1..Len(at)) \cup {None}] /\ crossed \subseteq crossed'
        /\ crossed' \subseteq Ports
        /\ \A o \in Ports : servers'[o] # None => at[servers'[o]] = o
    BY <1>0, <1>3, <2>1
  <2>5. ASSUME NEW j \in 1..Len(at)
        PROVE  CanStop(j)'
    <3>1. CASE j = i
      BY <2>3, <3>1 DEF CanStop
    <3>2. CASE j # i /\ at[j] = at[i] /\ servers[at[j]] = j
      <4>1. at[i] \in crossed'
        BY <2>1, <2>5, <3>2, StaticAssumption
      <4>2. QED
        BY <2>1, <3>2, <4>1 DEF CanStop
    <3>3. CASE j # i /\ at[j] # at[i]
      <4>1. servers'[at[j]] = servers[at[j]]
        BY <1>0, <2>1, <3>3
      <4>2. QED
        BY <2>1, <2>3, <2>4, <3>3, <4>1 DEF CanStop
    <3>4. CASE j # i /\ servers[at[j]] # j
      BY <2>1, <2>3, <2>4, <3>4 DEF CanStop
    <3>5. QED
      BY <3>1, <3>2, <3>3, <3>4
  <2>6. QED
    BY <2>1, <2>2, <2>4, <2>5
<1>4. ASSUME NEW s \in Stoppers, Stop(s)
      PROVE  StaticInv'
  <2>1. PICK p \in Ports : StopPort(s, p)
    BY <1>4 DEF Stop
  <2>2. todo' \in [Stoppers -> SUBSET Ports]
    BY <1>4 DEF Stop
  <2>3. QED
    BY <2>1, <2>2, StopPortKeeps
<1>5. ASSUME NEW s \in Stoppers, Shutdown(s)
      PROVE  StaticInv'
  <2> DEFINE i == stopping[s]
  <2>1. i \in 1..Len(at) /\ i # None
    BY <1>5 DEF Shutdown
  <2>2. PICK next \in ListenerStates : listener' = [listener EXCEPT ![i] = next]
    BY <1>0, <1>5, <2>1 DEF Shutdown, ListenerStates
  <2>3. /\ stopping' = [stopping EXCEPT ![s] = None] /\ shutdown' = shutdown \cup {i}
        /\ UNCHANGED <<servers, at, taken, todo, crossed>>
    BY <1>5 DEF Shutdown
  <2>4. listener' \in Seq(ListenerStates) /\ Len(listener') = Len(at)
    BY <2>1, <2>2, ExceptSeq
  <2>5. \A j \in 1..Len(at) : j # i => listener'[j] = listener[j]
    BY <1>0, <2>2
  <2>6. /\ shutdown' \subseteq 1..Len(at) /\ stopping' \in [Stoppers -> (1..Len(at)) \cup {None}]
    BY <2>1, <2>3
  <2>7. ASSUME NEW j \in 1..Len(at)
        PROVE  CanStop(j)'
    <3>1. CASE j = i
      BY <2>3, <3>1 DEF CanStop
    <3>2. CASE j # i
      <4>1. \A t \in Stoppers : stopping[t] = j => stopping'[t] = j
        BY <2>3, <3>2
      <4>2. CanStop(j)
        OBVIOUS
      <4>3. QED
        BY <2>3, <2>5, <3>2, <4>1, <4>2 DEF CanStop
    <3>3. QED
      BY <3>1, <3>2
  <2>8. QED
    BY <2>3, <2>4, <2>6, <2>7
<1>6. ASSUME NEW s \in Stoppers, StopAll(s)
      PROVE  StaticInv'
  <2>1. todo' \in [Stoppers -> SUBSET Ports] /\ UNCHANGED <<servers, at, listener, shutdown, taken, stopping, crossed>>
    BY <1>6 DEF StopAll
  <2>2. QED
    BY <2>1 DEF CanStop
<1>7. ASSUME NEW s \in Stoppers, StopAllNext(s)
      PROVE  StaticInv'
  <2>1. PICK p \in todo[s] : StopPort(s, p) /\ todo' = [todo EXCEPT ![s] = @ \ {p}]
    BY <1>7 DEF StopAllNext
  <2>2. p \in Ports /\ todo' \in [Stoppers -> SUBSET Ports]
    BY <2>1
  <2>3. QED
    BY <2>1, <2>2, StopPortKeeps
<1>8. CASE Release
  BY <1>8 DEF Release, CanStop
<1>9. CASE UNCHANGED statVars
  BY <1>9 DEF statVars, CanStop
<1>10. QED
  BY <1>1, <1>2, <1>3, <1>4, <1>5, <1>6, <1>7, <1>8, <1>9 DEF StaticNext, StaticQuiet

(* The static servers keep their inductive invariant. *)
THEOREM StaticInductive == StaticSpec => []StaticInv
<1>1. StaticInit => StaticInv
  <2> SUFFICES ASSUME StaticInit PROVE StaticInv
    OBVIOUS
  <2>1. at = <<>> /\ listener = <<>> /\ Len(<<>>) = 0 /\ 1..0 = {} /\ taken \subseteq Ports
    BY DEF StaticInit
  <2>2. at \in Seq(Ports) /\ listener \in Seq(ListenerStates)
    BY <2>1, EmptySeq
  <2>3. QED
    BY <2>1, <2>2, StaticAssumption DEF StaticInit, StaticInv
<1>2. QED
  BY <1>1, StepStatic, PTL DEF StaticSpec

(* Every variable stays in its domain. *)
THEOREM StaticTypeCorrect == StaticSpec => []StaticTypeOK
<1>1. StaticInv => StaticTypeOK
  <2> SUFFICES ASSUME StaticInv PROVE StaticTypeOK
    OBVIOUS
  <2>1. Started = 1..Len(at) /\ Len(at) \in Nat /\ DOMAIN listener = 1..Len(at)
    BY NextServer, LenProperties DEF StaticInv
  <2>2. Started \subseteq 1..MaxServers
    BY <2>1, StaticAssumption DEF StaticInv
  <2>3. \A i \in Started : at[i] \in Ports /\ listener[i] \in {"new", "listening", "failed", "gone"}
    BY <2>1 DEF StaticInv, ListenerStates
  <2>4. QED
    BY <2>1, <2>2, <2>3 DEF StaticInv, StaticTypeOK
<1>2. QED
  BY StaticInductive, <1>1, PTL

(* With any number of servers and of commands that stop them, a server     *)
(* that listens can be stopped, unless a failed listener on its port took  *)
(* its entry away.                                                         *)
THEOREM StaticStoppable == StaticSpec => []Stoppable
<1>1. StaticInv => Stoppable
  BY NextServer DEF StaticInv, CanStop, Stoppable
<1>2. QED
  BY StaticInductive, <1>1, PTL

-----------------------------------------------------------------------------
(* Limits *)

Limiter == [tokens : 0..Bucket(policy.client), lastSeen : 0..ticks]

(* What a client has been served and what its bucket holds came from its   *)
(* bucket and the ticks; nothing was served since it was last seen. A      *)
(* client that is forgotten has waited for as long as Pace needs to give   *)
(* it a full bucket: the new one gives nothing away.                       *)
ClientInv(h) ==
  /\ clientLimits[h] = None => Cost * served[h] <= ticks * Pace(policy.client)
  /\ clientLimits[h] # None =>
       /\ Cost * served[h] + clientLimits[h].tokens
            <= Bucket(policy.client) + ticks * Pace(policy.client)
       /\ Cost * served[h]
            <= Bucket(policy.client) + clientLimits[h].lastSeen * Pace(policy.client)

NoLimiters == \A h \in Hosts : clientLimits[h] = None

LimitsInv ==
  /\ policy \in Policies /\ ticks \in 0..MaxTicks /\ requested \in 0..MaxRequested
  /\ globalTokens \in 0..Bucket(policy.global)
  /\ clientLimits \in [Hosts -> Limiter \cup {None}]
  /\ served \in [Hosts -> Nat] /\ allServed \in Nat /\ upgraded \subseteq Origins \cup {None}
  /\ IF policy.client = None THEN NoLimiters ELSE \A h \in Hosts : ClientInv(h)
  /\ policy.global # None =>
       Cost * allServed + globalTokens <= Bucket(policy.global) + ticks * Gain(policy.global)
  /\ \A h \in Hosts : h \in policy.denied => served[h] = 0
  /\ policy.origins # {} => upgraded \subseteq policy.origins \cup {None}

(* A token is some grains. *)
LEMMA CostIs == Cost \in Nat /\ Cost > 0 /\ Cost = Hour * Fine /\ {Hour, Fine} \subseteq Nat \ {0}
BY LimitsAssumption DEF Cost

(* What Fine goes into a number of times is no more than the number. *)
LEMMA DivBelow ==
  ASSUME NEW v \in Nat, NEW f \in Nat \ {0}
  PROVE  v \div f \in Nat /\ f * (v \div f) <= v
OBVIOUS

(* The bucket of a limit is full, at the limit's pace, within an hour. *)
LEMMA RateFacts ==
  ASSUME NEW l \in Rates
  PROVE  /\ Gain(l) \in Nat /\ Bucket(l) \in Nat /\ Pace(l) \in Nat /\ Gain(l) <= Pace(l)
         /\ Bucket(l) <= Hour * Pace(l)
<1>1. l.val \in Nat \ {0} /\ l.per \in {"s", "m", "h"} /\ l # None
  BY LimitsAssumption DEF Rates
<1>2. Gain(l) \in Nat /\ l.val <= Gain(l)
  BY <1>1 DEF Gain
<1>3. Pace(l) \in Nat /\ Gain(l) <= Pace(l) /\ Fine <= Pace(l) /\ l.val <= Pace(l)
  BY <1>1, <1>2, LimitsAssumption DEF Pace
<1> DEFINE p == Pace(l)
           q == l.val \div Fine
<1>4. \A x \in Nat : x <= p => Hour * x \in Nat /\ Hour * x <= Hour * p
  BY <1>3, LimitsAssumption
<1>5. q \in Nat /\ Fine * q \in Nat /\ Fine * q <= p
  <2>1. q \in Nat /\ Fine * q <= l.val
    BY <1>1, LimitsAssumption, DivBelow
  <2>2. Fine * q \in Nat
    BY <2>1, LimitsAssumption
  <2> HIDE DEF q
  <2>3. QED
    BY <1>1, <1>3, <2>1, <2>2
<1> HIDE DEF p, q
<1>6. Cost * q = Hour * (Fine * q)
  BY <1>5, CostIs
<1>7. Bucket(l) \in {Cost, Cost * q}
  BY <1>1 DEF Bucket, q
<1>8. Bucket(l) \in Nat /\ Bucket(l) <= Hour * p
  <2>1. CASE Bucket(l) = Cost
    BY <1>3, <1>4, <2>1, CostIs DEF p
  <2>2. CASE Bucket(l) = Cost * q
    BY <1>4, <1>5, <1>6, <2>2
  <2>3. QED
    BY <1>7, <2>1, <2>2
<1>9. QED
  BY <1>2, <1>3, <1>8 DEF p

(* What the assumptions say of the policy in force. *)
LEMMA PolicyFacts ==
  ASSUME policy \in Policies
  PROVE  /\ policy.origins \subseteq Origins
         /\ policy.client \in Rates \cup {None} /\ policy.global \in Rates \cup {None}
         /\ Bucket(policy.client) \in Nat /\ Bucket(policy.global) \in Nat
<1>1. /\ policy.origins \subseteq Origins
      /\ policy.client \in Rates \cup {None} /\ policy.global \in Rates \cup {None}
  BY LimitsAssumption
<1>2. Bucket(None) \in Nat
  BY DEF Bucket
<1>3. QED
  BY <1>1, <1>2, RateFacts

(* A tick gives every bucket its share. *)
LEMMA OneMoreTick ==
  ASSUME NEW t \in Nat, NEW k \in Nat
  PROVE  t * k \in Nat /\ (t + 1) * k = t * k + k
OBVIOUS

(* And one more request costs a token. *)
LEMMA OneMoreServed ==
  ASSUME NEW n \in Nat
  PROVE  Cost * n \in Nat /\ Cost * (n + 1) = Cost * n + Cost
BY CostIs

(* What a bucket holds after a tick. *)
LEMMA RefilledBucket ==
  ASSUME NEW l \in Rates, NEW tokens \in 0..Bucket(l)
  PROVE  /\ Refilled(tokens, l) \in 0..Bucket(l)
         /\ Refilled(tokens, l) <= tokens + Gain(l)
BY RateFacts DEF Refilled

(* The token of a request is taken out of the bucket it is counted for. *)
LEMMA CheckKeeps ==
  ASSUME LimitsInv, NEW h \in Hosts, CheckRateLimit(h), h \notin policy.denied,
         requested' \in 0..MaxRequested, UNCHANGED <<policy, ticks>>
  PROVE  LimitsInv'
<1> USE DEF LimitsInv
<1> DEFINE limiter == Seen(h)
           passes == policy.client = None \/ limiter.tokens >= Cost
           taken1 == [tokens |-> IF passes THEN limiter.tokens - Cost ELSE limiter.tokens,
                      lastSeen |-> ticks]
           bucket == Bucket(policy.client)
<1>1. /\ bucket \in Nat /\ Bucket(policy.global) \in Nat /\ ticks \in Nat
      /\ policy.origins \subseteq Origins /\ Cost \in Nat
      /\ policy.client # None => policy.client \in Rates
      /\ policy.global # None => policy.global \in Rates
  <2>1. ticks \in Nat
    OBVIOUS
  <2>2. QED
    BY <2>1, PolicyFacts, CostIs
<1> HIDE DEF bucket
<1>2. CASE policy.global # None /\ globalTokens < Cost
  BY <1>2 DEF CheckRateLimit, ClientInv, Limiter, NoLimiters
<1>3. CASE ~(policy.global # None /\ globalTokens < Cost)
  <2>1. /\ globalTokens' = IF policy.global = None THEN globalTokens ELSE globalTokens - Cost
        /\ clientLimits' = IF policy.client = None THEN clientLimits
                           ELSE [clientLimits EXCEPT ![h] = taken1]
        /\ IF passes THEN Serve(h) ELSE UNCHANGED <<served, allServed, upgraded>>
    BY <1>3 DEF CheckRateLimit, Seen
  <2>2. globalTokens' \in 0..Bucket(policy.global)
    BY <1>1, <1>3, <2>1
  <2>3. /\ limiter.tokens \in 0..bucket
        /\ clientLimits[h] = None => limiter.tokens = bucket
        /\ clientLimits[h] # None => limiter.tokens = clientLimits[h].tokens
    BY <1>1 DEF Seen, Limiter, bucket
  <2> HIDE DEF limiter
  <2>4. policy.client # None => taken1.tokens \in 0..bucket
    BY <1>1, <2>3
  <2>5. policy.client # None => taken1 \in Limiter
    BY <1>1, <2>4 DEF Limiter, bucket
  <2>6. clientLimits' \in [Hosts -> Limiter \cup {None}]
    BY <2>1, <2>5
  <2>7. /\ served' \in [Hosts -> Nat] /\ allServed' \in Nat
        /\ allServed' = IF passes THEN allServed + 1 ELSE allServed
        /\ served'[h] = IF passes THEN served[h] + 1 ELSE served[h]
        /\ \A g \in Hosts : g # h => served'[g] = served[g]
    BY <2>1 DEF Serve
  <2>8. /\ upgraded' \subseteq Origins \cup {None}
        /\ policy.origins # {} => upgraded' \subseteq policy.origins \cup {None}
    <3>1. CASE passes
      <4>1. PICK o \in Origins \cup {None} :
              upgraded' = IF IsOriginAllowed(o) THEN upgraded \cup {o} ELSE upgraded
        BY <2>1, <3>1 DEF Serve
      <4>2. QED
        BY <4>1 DEF IsOriginAllowed
    <3>2. CASE ~passes
      BY <2>1, <3>2
    <3>3. QED
      BY <3>1, <3>2
  <2>9. ASSUME policy.global # None
        PROVE  Cost * allServed' + globalTokens' <= Bucket(policy.global) + ticks * Gain(policy.global)
    <3> DEFINE bound == Bucket(policy.global) + ticks * Gain(policy.global)
               spent == Cost * allServed
    <3>1. bound \in Nat
      BY <1>1, <2>9, RateFacts, OneMoreTick
    <3>2. spent \in Nat /\ Cost * allServed' \in {spent, spent + Cost}
      BY <2>7, OneMoreServed
    <3>3. spent + globalTokens <= bound
      BY <2>9
    <3> HIDE DEF bound, spent
    <3>4. globalTokens' = globalTokens - Cost /\ globalTokens \in Nat
      BY <1>1, <2>1, <2>9
    <3>5. Cost * allServed' + globalTokens' <= bound
      BY <1>1, <3>1, <3>2, <3>3, <3>4
    <3>6. QED
      BY <3>5 DEF bound
  <2>10. ASSUME policy.client # None, NEW g \in Hosts
         PROVE  ClientInv(g)'
    <3>1. CASE g # h
      <4>1. clientLimits'[g] = clientLimits[g] /\ served'[g] = served[g]
        BY <2>1, <2>7, <3>1
      <4>2. ClientInv(g)
        BY <2>10
      <4>3. QED
        BY <4>1, <4>2 DEF ClientInv
    <3>2. CASE g = h
      <4> DEFINE share == ticks * Pace(policy.client)
                 spent == Cost * served[h]
                 after == Cost * served'[h]
      <4>1. share \in Nat /\ spent \in Nat
        BY <1>1, <2>10, RateFacts, OneMoreTick, OneMoreServed
      <4>2. after = IF passes THEN spent + Cost ELSE spent
        BY <2>7, OneMoreServed
      <4>3. /\ clientLimits[h] = None => spent <= share
            /\ clientLimits[h] # None => spent + clientLimits[h].tokens <= bucket + share
        BY <2>10 DEF ClientInv, bucket
      <4> HIDE DEF share, spent, after
      <4>4. spent + limiter.tokens <= bucket + share
        BY <1>1, <2>3, <4>1, <4>3
      <4>5. clientLimits'[h] = taken1
        BY <2>1, <2>10
      <4>6. after + taken1.tokens <= bucket + share /\ after <= bucket + share
        BY <1>1, <2>3, <2>10, <4>1, <4>2, <4>4
      <4>7. taken1.lastSeen = ticks
        OBVIOUS
      <4>8. taken1 # None
        <5>1. taken1 \in [tokens : Nat, lastSeen : Nat]
          BY <1>1, <2>4, <2>10
        <5>2. QED
          BY <5>1, LimitsAssumption
      <4> HIDE DEF taken1
      <4>9. QED
        BY <1>1, <3>2, <4>5, <4>6, <4>7, <4>8 DEF ClientInv, share, after, bucket
    <3>3. QED
      BY <3>1, <3>2
  <2>11. \A g \in Hosts : g \in policy.denied => served'[g] = 0
    BY <2>7
  <2>12. QED
    BY <2>1, <2>2, <2>6, <2>7, <2>8, <2>9, <2>10, <2>11 DEF Limiter, NoLimiters
<1>4. QED
  BY <1>2, <1>3

(* Every step of the limits keeps their invariant. *)
LEMMA StepLimits == LimitsInv /\ [LimitsNext \/ LimitsQuiet]_limVars => LimitsInv'
<1> SUFFICES ASSUME LimitsInv, [LimitsNext \/ LimitsQuiet]_limVars PROVE LimitsInv'
  OBVIOUS
<1> USE DEF LimitsInv
<1>0. ticks \in Nat
  OBVIOUS
<1> DEFINE b == Bucket(policy.client)
           p == Pace(policy.client)
           g == Gain(policy.global)
<1>1. /\ b \in Nat /\ Bucket(policy.global) \in Nat
      /\ policy.client # None => /\ policy.client \in Rates /\ p \in Nat /\ b <= Hour * p
                                 /\ Gain(policy.client) \in Nat /\ Gain(policy.client) <= p
      /\ policy.global # None => policy.global \in Rates /\ g \in Nat
  BY PolicyFacts, RateFacts
<1> HIDE DEF b, p, g
<1>2. ASSUME NEW h \in Hosts, Middleware(h)
      PROVE  LimitsInv'
  <2>1. /\ requested' \in 0..MaxRequested /\ UNCHANGED <<policy, ticks>>
    <3>1. requested + 1 \in 0..MaxRequested
      BY <1>2, LimitsAssumption DEF Middleware
    <3>2. QED
      BY <1>2, <3>1 DEF Middleware
  <2>2. CASE IsIPAllowed(h)
    <3>1. CheckRateLimit(h) /\ h \notin policy.denied
      BY <1>2, <2>2 DEF Middleware, IsIPAllowed
    <3>2. QED
      BY <2>1, <3>1, CheckKeeps
  <2>3. CASE ~IsIPAllowed(h)
    <3>1. UNCHANGED <<globalTokens, clientLimits, served, allServed, upgraded>>
      BY <1>2, <2>3 DEF Middleware
    <3>2. QED
      BY <2>1, <3>1 DEF ClientInv, Limiter, NoLimiters
  <2>4. QED
    BY <2>2, <2>3
<1>3. CASE ForgetClients
  <2>1. /\ clientLimits' = [h \in Hosts |->
             IF clientLimits[h] # None /\ ticks - clientLimits[h].lastSeen > Hour THEN None
             ELSE clientLimits[h]]
        /\ UNCHANGED <<policy, ticks, globalTokens, requested, served, allServed, upgraded>>
    BY <1>3 DEF ForgetClients
  <2>2. clientLimits' \in [Hosts -> Limiter \cup {None}]
    BY <2>1
  <2>3. ASSUME policy.client # None, NEW h \in Hosts
        PROVE  ClientInv(h)'
    <3>1. ClientInv(h)
      BY <2>3
    <3>2. CASE clientLimits'[h] = clientLimits[h]
      BY <2>1, <3>1, <3>2 DEF ClientInv
    <3>3. CASE clientLimits'[h] # clientLimits[h]
      <4> DEFINE seen == clientLimits[h].lastSeen
                 spent == Cost * served[h]
      <4>1. clientLimits[h] # None /\ ticks - seen > Hour /\ clientLimits'[h] = None
        BY <2>1, <3>3
      <4>2. seen \in 0..ticks /\ Hour \in Nat
        BY <4>1, LimitsAssumption DEF Limiter
      <4>3. spent <= b + seen * p
        BY <3>1, <4>1 DEF ClientInv, b, p
      <4>4. spent \in Nat
        BY OneMoreServed
      <4> HIDE DEF seen, spent
      <4>5. PICK n \in Nat : ticks = (Hour + seen) + n
        <5>1. ticks - (Hour + seen) \in Nat /\ ticks = (Hour + seen) + (ticks - (Hour + seen))
          BY <1>0, <4>1, <4>2
        <5>2. QED
          BY <5>1
      <4>6. ticks * p = (Hour * p + seen * p) + n * p
        BY <1>0, <1>1, <2>3, <4>2, <4>5
      <4>7. seen * p \in Nat /\ n * p \in Nat /\ Hour * p \in Nat
        BY <1>1, <2>3, <4>2, <4>5
      <4>8. spent <= ticks * p
        BY <1>1, <2>3, <4>3, <4>4, <4>6, <4>7
      <4>9. QED
        BY <2>1, <4>1, <4>8 DEF ClientInv, spent, p
    <3>4. QED
      BY <3>2, <3>3
  <2>4. QED
    BY <2>1, <2>2, <2>3 DEF Limiter, NoLimiters
<1>4. CASE ClockTicks
  <2>1. /\ ticks' = ticks + 1 /\ ticks' \in 0..MaxTicks
        /\ globalTokens' = IF policy.global = None THEN 0 ELSE Refilled(globalTokens, policy.global)
        /\ clientLimits' = [h \in Hosts |->
             IF clientLimits[h] = None THEN None
             ELSE [clientLimits[h] EXCEPT !.tokens = Refilled(clientLimits[h].tokens, policy.client)]]
        /\ UNCHANGED <<policy, requested, served, allServed, upgraded>>
    <3>1. ticks + 1 \in 0..MaxTicks
      BY <1>4, LimitsAssumption DEF ClockTicks
    <3>2. QED
      BY <1>4, <3>1 DEF ClockTicks
  <2>2. /\ globalTokens' \in 0..Bucket(policy.global)
        /\ policy.global # None => globalTokens' <= globalTokens + g
    BY <1>1, <2>1, RefilledBucket DEF g
  <2>3. ASSUME NEW h \in Hosts, clientLimits[h] # None, policy.client # None
        PROVE  /\ clientLimits'[h].lastSeen = clientLimits[h].lastSeen
               /\ clientLimits[h].lastSeen \in 0..ticks
               /\ clientLimits[h].tokens \in 0..b
               /\ clientLimits'[h].tokens \in 0..b
               /\ clientLimits'[h].tokens <= clientLimits[h].tokens + p
               /\ clientLimits'[h] \in [tokens : 0..b, lastSeen : 0..ticks + 1]
    <3> DEFINE n == Refilled(clientLimits[h].tokens, policy.client)
    <3>1. clientLimits[h] \in Limiter
      BY <2>3
    <3>2. clientLimits[h].tokens \in 0..b /\ clientLimits[h].lastSeen \in 0..ticks
      BY <3>1 DEF Limiter, b
    <3>3. n \in 0..b /\ n <= clientLimits[h].tokens + Gain(policy.client)
      BY <1>1, <2>3, <3>2, RefilledBucket DEF b
    <3>4. clientLimits'[h] = [clientLimits[h] EXCEPT !.tokens = n]
      BY <2>1, <2>3
    <3> HIDE DEF n
    <3>5. clientLimits'[h] = [tokens |-> n, lastSeen |-> clientLimits[h].lastSeen]
      BY <3>1, <3>4 DEF Limiter
    <3>6. n <= clientLimits[h].tokens + p
      BY <1>1, <2>3, <3>2, <3>3
    <3>7. QED
      BY <1>0, <3>2, <3>3, <3>5, <3>6
  <2>4. policy.client = None => \A h \in Hosts : clientLimits[h] = None
    BY DEF NoLimiters
  <2>5. clientLimits' \in [Hosts -> Limiter' \cup {None}]
    <3>1. ASSUME NEW h \in Hosts
          PROVE  clientLimits'[h] \in Limiter' \cup {None}
      <4>1. CASE clientLimits[h] = None
        BY <2>1, <4>1
      <4>2. CASE clientLimits[h] # None
        BY <2>1, <2>3, <2>4, <4>2 DEF Limiter, b
      <4>3. QED
        BY <4>1, <4>2
    <3>2. QED
      BY <2>1, <3>1
  <2>6. ASSUME policy.global # None
        PROVE  Cost * allServed + globalTokens' <= Bucket(policy.global) + ticks' * g
    <3> DEFINE share == ticks * g
               spent == Cost * allServed
    <3>1. share \in Nat /\ ticks' * g = share + g /\ spent \in Nat
      BY <1>0, <1>1, <2>1, <2>6, OneMoreTick, OneMoreServed
    <3>2. spent + globalTokens <= Bucket(policy.global) + share
      BY <2>6 DEF g
    <3> HIDE DEF share, spent
    <3>3. globalTokens \in Nat /\ globalTokens' \in Nat /\ globalTokens' <= globalTokens + g
      BY <1>1, <2>2, <2>6
    <3>4. spent + globalTokens' <= Bucket(policy.global) + (share + g)
      BY <1>1, <2>6, <3>1, <3>2, <3>3
    <3>5. QED
      BY <3>1, <3>4 DEF spent
  <2>7. ASSUME policy.client # None, NEW h \in Hosts
        PROVE  ClientInv(h)'
    <3> DEFINE share == ticks * p
               spent == Cost * served[h]
    <3>1. share \in Nat /\ ticks' * p = share + p /\ spent \in Nat
      BY <1>0, <1>1, <2>1, <2>7, OneMoreTick, OneMoreServed
    <3>2. /\ clientLimits[h] = None => spent <= share
          /\ clientLimits[h] # None =>
               /\ spent + clientLimits[h].tokens <= b + share
               /\ spent <= b + clientLimits[h].lastSeen * p
      BY <2>7 DEF ClientInv, b, p
    <3>3. served'[h] = served[h] /\ policy' = policy
      BY <2>1
    <3> HIDE DEF share
    <3>4. CASE clientLimits[h] = None
      <4> HIDE DEF spent
      <4>1. clientLimits'[h] = None /\ spent <= ticks' * p
        BY <1>1, <2>1, <2>7, <3>1, <3>2, <3>4
      <4>2. QED
        BY <3>3, <4>1 DEF ClientInv, p, spent
    <3>5. CASE clientLimits[h] # None
      <4> DEFINE old == clientLimits[h].tokens
                 new == clientLimits'[h].tokens
      <4>1. old \in Nat /\ new \in Nat /\ new <= old + p
        BY <1>1, <2>3, <2>7, <3>5
      <4>2. spent + old <= b + share
        BY <3>2, <3>5
      <4>3. clientLimits'[h].lastSeen = clientLimits[h].lastSeen
        BY <2>3, <2>7, <3>5
      <4>4. spent <= b + clientLimits'[h].lastSeen * p
        BY <3>2, <3>5, <4>3
      <4> HIDE DEF old, new, spent
      <4>5. spent + new <= b + ticks' * p
        BY <1>1, <2>7, <3>1, <4>1, <4>2
      <4>6. clientLimits'[h] # None
        <5>1. clientLimits'[h] \in [tokens : Nat, lastSeen : Nat]
          BY <1>0, <1>1, <2>3, <2>7, <3>5
        <5>2. QED
          BY <5>1, LimitsAssumption
      <4>7. QED
        BY <3>3, <4>4, <4>5, <4>6 DEF ClientInv, b, p, new, spent
    <3>6. QED
      BY <3>4, <3>5
  <2>8. QED
    BY <2>1, <2>2, <2>5, <2>6, <2>7 DEF g, NoLimiters
<1>5. CASE UNCHANGED limVars
  BY <1>5 DEF limVars, ClientInv, Limiter, NoLimiters
<1>6. QED
  BY <1>2, <1>3, <1>4, <1>5 DEF LimitsNext, LimitsQuiet

(* The limits keep their inductive invariant. *)
THEOREM LimitsInductive == LimitsSpec => []LimitsInv
<1>1. LimitsInit => LimitsInv
  <2> SUFFICES ASSUME LimitsInit PROVE LimitsInv
    OBVIOUS
  <2>1. /\ Bucket(policy.client) \in Nat /\ Bucket(policy.global) \in Nat
        /\ policy.client # None => 0 * Pace(policy.client) = 0
        /\ policy.global # None => 0 * Gain(policy.global) = 0
        /\ Cost * 0 = 0
    BY PolicyFacts, RateFacts, CostIs DEF LimitsInit
  <2>2. ticks \in 0..MaxTicks /\ requested \in 0..MaxRequested
    BY LimitsAssumption DEF LimitsInit
  <2>3. QED
    BY <2>1, <2>2 DEF LimitsInit, LimitsInv, ClientInv, NoLimiters
<1>2. QED
  BY <1>1, StepLimits, PTL DEF LimitsSpec

(* Every variable stays in its domain. *)
THEOREM LimitsTypeCorrect == LimitsSpec => []LimitsTypeOK
<1>1. LimitsInv => LimitsTypeOK
  BY DEF LimitsInv, Limiter, LimitsTypeOK
<1>2. QED
  BY LimitsInductive, <1>1, PTL

(* Whatever the policy, of rates by the second, the minute or the hour, a  *)
(* fraction of a request too, and however clients are forgotten and come   *)
(* back, no client and not all of them together get more than their        *)
(* buckets and the time that has passed allow, where a client's rate       *)
(* counts as one an hour at least; and who is denied gets nothing.         *)
THEOREM LimitsAreHeld == LimitsSpec => []LimitsHold
<1>1. LimitsInv => LimitsHold
  <2> SUFFICES ASSUME LimitsInv PROVE LimitsHold
    OBVIOUS
  <2> USE DEF LimitsInv
  <2>1. /\ Bucket(policy.client) \in Nat /\ Bucket(policy.global) \in Nat /\ ticks \in Nat
        /\ policy.client # None => policy.client \in Rates
        /\ policy.global # None => policy.global \in Rates
    <3>1. ticks \in Nat
      OBVIOUS
    <3>2. QED
      BY <3>1, PolicyFacts
  <2>2. ASSUME NEW h \in Hosts, policy.client # None
        PROVE  Cost * served[h] <= Bucket(policy.client) + ticks * Pace(policy.client)
    <3> DEFINE share == ticks * Pace(policy.client)
               spent == Cost * served[h]
    <3>1. share \in Nat /\ spent \in Nat
      BY <2>1, <2>2, RateFacts, OneMoreTick, OneMoreServed
    <3>2. ClientInv(h)
      BY <2>2
    <3>3. \/ spent <= share
          \/ /\ clientLimits[h].tokens \in Nat
             /\ spent + clientLimits[h].tokens <= Bucket(policy.client) + share
      BY <2>1, <3>2 DEF ClientInv, Limiter
    <3> HIDE DEF share, spent
    <3>4. spent <= Bucket(policy.client) + share
      BY <2>1, <3>1, <3>3
    <3>5. QED
      BY <3>4 DEF share, spent
  <2>3. ASSUME policy.global # None
        PROVE  Cost * allServed <= Bucket(policy.global) + ticks * Gain(policy.global)
    <3> DEFINE share == ticks * Gain(policy.global)
               spent == Cost * allServed
    <3>1. share \in Nat /\ spent \in Nat /\ globalTokens \in Nat
      BY <2>1, <2>3, RateFacts, OneMoreTick, OneMoreServed
    <3>2. spent + globalTokens <= Bucket(policy.global) + share
      BY <2>3
    <3> HIDE DEF share, spent
    <3>3. spent <= Bucket(policy.global) + share
      BY <2>1, <3>1, <3>2
    <3>4. QED
      BY <3>3 DEF share, spent
  <2>4. QED
    BY <2>2, <2>3 DEF LimitsHold
<1>2. QED
  BY LimitsInductive, <1>1, PTL

-----------------------------------------------------------------------------
(* The interactive shell: T are the lines typed, m is what is being joined, *)
(* h the heredoc being read and B what came out.                           *)

Kinds == {"plain", "cont", "open", "close"}

(* The lines that may be missing between two lines of a heredoc, and       *)
(* between two that a backslash joins.                                     *)
Conts(T) == {n \in 1..Len(T) : T[n] = "cont"}
Opened(T, block) == T[block[1]] = "open"
InHeredocs(n, T, h, B) ==
  \/ \E i \in DOMAIN B : Opened(T, B[i]) /\ n \in LinesOf(B[i])
  \/ h # None /\ n \in LinesOf(h)
Elsewhere(T, h, B) == {n \in 1..Len(T) : T[n] = "close" \/ InHeredocs(n, T, h, B)}

(* Nothing else is missing between the lines of block, and after them.     *)
Gaps(block, ok) == \A k \in 1..Len(block) - 1 : block[k] + 1..block[k + 1] - 1 \subseteq ok
Upto(block, last, ok) == block # <<>> => block[Len(block)] + 1..last \subseteq ok

Shape(T, m, h, B) ==
  /\ T \in Seq(Kinds)
  /\ m \in Seq(1..Len(T)) /\ h \in Seq(1..Len(T)) \cup {None}
  /\ Len(B) \in Nat /\ DOMAIN B = 1..Len(B) /\ B \in Seq(Seq(Nat))
  /\ \A i \in DOMAIN B : B[i] \in Seq(1..Len(T)) /\ B[i] # <<>>

BlocksInv(T, h, B) ==
  \A i \in DOMAIN B : Gaps(B[i], IF Opened(T, B[i]) THEN Conts(T) ELSE Elsewhere(T, h, B))

JoinInv(T, m, h, B) ==
  /\ Gaps(m, Elsewhere(T, h, B)) /\ Upto(m, Len(T), Elsewhere(T, h, B))
  /\ LinesOf(m) \subseteq Conts(T)

HeredocInv(T, h) ==
  h # None => /\ h # <<>> /\ Opened(T, h)
              /\ Gaps(h, Conts(T)) /\ Upto(h, Len(T), Conts(T))

(* No line is in two places.                                               *)
OnePlace(m, h, B) ==
  /\ \A i, j \in DOMAIN B : i # j => LinesOf(B[i]) \cap LinesOf(B[j]) = {}
  /\ \A i \in DOMAIN B : /\ LinesOf(B[i]) \cap LinesOf(m) = {}
                         /\ h # None => LinesOf(B[i]) \cap LinesOf(h) = {}
  /\ h # None => LinesOf(m) \cap LinesOf(h) = {}

LinesInv(T, m, h, B) ==
  Shape(T, m, h, B) /\ BlocksInv(T, h, B) /\ JoinInv(T, m, h, B) /\ HeredocInv(T, h) /\ OnePlace(m, h, B)

ReplInv == LinesInv(typed, multiLineBuffer, heredocBuffer, blocks)

(* A block with one line more.                                             *)
LEMMA GapsAppend ==
  ASSUME NEW last \in Nat, NEW b \in Seq(1..last), NEW ok, Gaps(b, ok), Upto(b, last, ok)
  PROVE  /\ Append(b, last + 1) \in Seq(1..(last + 1)) /\ Append(b, last + 1) # <<>>
         /\ Gaps(Append(b, last + 1), ok) /\ \A any : Upto(Append(b, last + 1), last + 1, any)
         /\ LinesOf(Append(b, last + 1)) = LinesOf(b) \cup {last + 1}
         /\ b # <<>> => Append(b, last + 1)[1] = b[1]
<1> DEFINE n == last + 1
           c == Append(b, n)
<1>0. n \in Nat /\ n > last /\ 1..last \subseteq 1..n /\ n \in 1..n
  OBVIOUS
<1> HIDE DEF n
<1>1. b \in Seq(1..n)
  BY <1>0
<1>2. Len(b) \in Nat /\ DOMAIN b = 1..Len(b) /\ \A k \in 1..Len(b) : b[k] \in 1..last
  BY LenProperties, ElementOfSeq
<1>3. /\ c \in Seq(1..n) /\ Len(c) = Len(b) + 1 /\ c[Len(b) + 1] = n
      /\ \A k \in 1..Len(b) : c[k] = b[k]
  BY <1>0, <1>1, AppendProperties
<1> HIDE DEF c
<1>4. c # <<>> /\ DOMAIN c = 1..(Len(b) + 1)
  BY <1>2, <1>3, LenProperties, EmptySeq
<1>5. Gaps(c, ok)
  <2>1. ASSUME NEW k \in 1..Len(c) - 1
        PROVE  c[k] + 1..c[k + 1] - 1 \subseteq ok
    <3>0. k \in 1..Len(b) /\ (k < Len(b) \/ k = Len(b))
      <4>1. Len(c) - 1 = Len(b)
        BY <1>2, <1>3
      <4>2. k \in 1..Len(b)
        BY <2>1, <4>1
      <4>3. Len(b) \in Nat
        BY <1>2
      <4>4. QED
        BY ONLY <4>2, <4>3
    <3>1. CASE k < Len(b)
      <4>0. k \in 1..Len(b) - 1 /\ k + 1 \in 1..Len(b)
        <5>1. Len(b) \in Nat
          BY <1>2
        <5>2. QED
          BY ONLY <5>1, <3>0, <3>1
      <4>1. c[k] = b[k] /\ c[k + 1] = b[k + 1]
        BY <1>3, <3>0, <4>0
      <4>2. QED
        BY <4>0, <4>1 DEF Gaps
    <3>2. CASE k = Len(b)
      <4>1. c[k] = b[Len(b)] /\ c[k + 1] - 1 = last /\ b # <<>>
        BY <1>0, <1>2, <1>3, <3>0, <3>2 DEF n
      <4>2. QED
        BY <4>1 DEF Upto
    <3>3. QED
      BY ONLY <3>0, <3>1, <3>2
  <2>2. QED
    BY <2>1 DEF Gaps
<1>6. \A any : Upto(c, n, any)
  <2>1. c[Len(c)] + 1..n = {}
    BY <1>0, <1>3
  <2>2. QED
    BY <2>1 DEF Upto
<1>7. LinesOf(c) = LinesOf(b) \cup {n}
  <2>1. \A k \in DOMAIN c : c[k] \in LinesOf(b) \cup {n}
    BY <1>2, <1>3, <1>4 DEF LinesOf
  <2>2. \A k \in DOMAIN b : b[k] \in LinesOf(c)
    BY <1>2, <1>3, <1>4 DEF LinesOf
  <2>3. n \in LinesOf(c)
    BY <1>2, <1>3, <1>4 DEF LinesOf
  <2>4. QED
    BY <2>1, <2>2, <2>3 DEF LinesOf
<1>8. b # <<>> => c[1] = b[1]
  BY <1>2, <1>3, EmptySeq
<1>9. QED
  BY <1>3, <1>4, <1>5, <1>6, <1>7, <1>8 DEF c, n

(* What may be missing only grows.                                         *)
LEMMA GapsMore ==
  ASSUME NEW b, NEW ok, NEW more, ok \subseteq more
  PROVE  /\ Gaps(b, ok) => Gaps(b, more)
         /\ \A last \in Nat : /\ Upto(b, last, ok) => Upto(b, last, more)
<1>1. Gaps(b, ok) => Gaps(b, more)
  BY DEF Gaps
<1>2. \A last \in Nat : Upto(b, last, ok) => Upto(b, last, more)
  BY DEF Upto
<1>3. QED
  BY <1>1, <1>2

(* One line more after a block, when that line may be missing.             *)
LEMMA UptoNext ==
  ASSUME NEW last \in Nat, NEW b \in Seq(1..last), NEW ok, Upto(b, last, ok), last + 1 \in ok
  PROVE  Upto(b, last + 1, ok)
<1>1. SUFFICES ASSUME b # <<>> PROVE b[Len(b)] + 1..last + 1 \subseteq ok
  BY DEF Upto
<1>2. b[Len(b)] \in 1..last
  BY <1>1, LenProperties, ElementOfSeq, EmptySeq
<1>3. b[Len(b)] + 1..last \subseteq ok
  BY <1>1 DEF Upto
<1>4. ASSUME NEW n \in b[Len(b)] + 1..last + 1
      PROVE  n \in ok
  <2>1. n = last + 1 \/ n \in b[Len(b)] + 1..last
    BY <1>2, <1>4
  <2>2. QED
    BY <2>1, <1>3
<1>5. QED
  BY <1>4

(* The numbers of the lines of a block.                                    *)
LEMMA LinesBelow ==
  ASSUME NEW last \in Nat, NEW b \in Seq(1..last)
  PROVE  /\ LinesOf(b) \subseteq 1..last /\ b \in Seq(1..last + 1) /\ b \in Seq(Nat)
         /\ last + 1 \notin LinesOf(b)
         /\ b # <<>> => b[1] \in 1..last /\ b[1] \in LinesOf(b)
<1>1. Len(b) \in Nat /\ DOMAIN b = 1..Len(b) /\ \A k \in 1..Len(b) : b[k] \in 1..last
  BY LenProperties, ElementOfSeq
<1>2. LinesOf(b) \subseteq 1..last
  BY <1>1 DEF LinesOf
<1>3. last + 1 \notin 1..last /\ 1..last \subseteq 1..last + 1 /\ 1..last \subseteq Nat
  OBVIOUS
<1>4. b \in Seq(1..last + 1) /\ b \in Seq(Nat)
  BY <1>3
<1>5. b # <<>> => 1 \in DOMAIN b
  BY <1>1, EmptySeq
<1>6. QED
  BY <1>1, <1>2, <1>3, <1>4, <1>5 DEF LinesOf

(* What a line of a given kind leaves as it was.                           *)
Onward(T, U, n, m, h, B) ==
  /\ n \in Nat /\ n = Len(T) + 1 /\ U \in Seq(Kinds) /\ Len(U) = n
  /\ \A k \in 1..Len(T) : U[k] = T[k] /\ k \in 1..n
  /\ Conts(T) \subseteq Conts(U)
  /\ m \in Seq(1..n) /\ n \notin LinesOf(m) /\ LinesOf(m) \subseteq 1..Len(T)
  /\ h # None => h \in Seq(1..n) /\ n \notin LinesOf(h) /\ LinesOf(h) \subseteq 1..Len(T) /\ h[1] \in 1..Len(T)
  /\ \A i \in DOMAIN B : /\ B[i] \in Seq(1..n) /\ n \notin LinesOf(B[i]) /\ LinesOf(B[i]) \subseteq 1..Len(T)
                         /\ B[i][1] \in LinesOf(B[i]) /\ (Opened(U, B[i]) <=> Opened(T, B[i]))

LEMMA LineRead ==
  ASSUME NEW T, NEW m, NEW h, NEW B, LinesInv(T, m, h, B), NEW kind \in Kinds
  PROVE  /\ Onward(T, Append(T, kind), Len(T) + 1, m, h, B)
         /\ Append(T, kind)[Len(T) + 1] = kind
<1> DEFINE U == Append(T, kind)
           n == Len(T) + 1
<1>1. T \in Seq(Kinds) /\ m \in Seq(1..Len(T)) /\ Len(T) \in Nat
  BY LenProperties DEF LinesInv, Shape
<1>2. /\ n \in Nat /\ U \in Seq(Kinds) /\ Len(U) = n /\ U[n] = kind
      /\ \A k \in 1..Len(T) : U[k] = T[k] /\ k \in 1..n
  BY <1>1, AppendProperties
<1> HIDE DEF U
<1>3. Conts(T) \subseteq Conts(U)
  BY <1>2 DEF Conts
<1>4. m \in Seq(1..n) /\ n \notin LinesOf(m) /\ LinesOf(m) \subseteq 1..Len(T)
  BY <1>1, LinesBelow
<1>5. ASSUME h # None
      PROVE  h \in Seq(1..n) /\ n \notin LinesOf(h) /\ LinesOf(h) \subseteq 1..Len(T) /\ h[1] \in 1..Len(T)
  <2>1. h \in Seq(1..Len(T)) /\ h # <<>>
    BY <1>5 DEF LinesInv, Shape, HeredocInv
  <2>2. QED
    BY <1>1, <2>1, LinesBelow
<1>6. ASSUME NEW i \in DOMAIN B
      PROVE  /\ B[i] \in Seq(1..n) /\ n \notin LinesOf(B[i]) /\ LinesOf(B[i]) \subseteq 1..Len(T)
             /\ B[i][1] \in LinesOf(B[i]) /\ (Opened(U, B[i]) <=> Opened(T, B[i]))
  <2>1. B[i] \in Seq(1..Len(T)) /\ B[i] # <<>>
    BY <1>6 DEF LinesInv, Shape
  <2>2. /\ B[i] \in Seq(1..n) /\ n \notin LinesOf(B[i]) /\ LinesOf(B[i]) \subseteq 1..Len(T)
        /\ B[i][1] \in LinesOf(B[i]) /\ B[i][1] \in 1..Len(T)
    BY <1>1, <2>1, LinesBelow
  <2>3. QED
    BY <1>2, <2>2 DEF Opened
<1>7. QED
  BY <1>2, <1>3, <1>4, <1>5, <1>6 DEF U, Onward

(* Blocks that came out stay whole when no heredoc is forgotten.           *)
LEMMA BlocksStay ==
  ASSUME NEW T, NEW m, NEW h, NEW B, NEW U, NEW n, LinesInv(T, m, h, B), Onward(T, U, n, m, h, B),
         NEW g, h = None \/ (g # None /\ LinesOf(h) \subseteq LinesOf(g))
  PROVE  Elsewhere(T, h, B) \subseteq Elsewhere(U, g, B) /\ BlocksInv(U, g, B)
<1>1. ASSUME NEW k \in Elsewhere(T, h, B)
      PROVE  k \in Elsewhere(U, g, B)
  <2>1. k \in 1..Len(T) /\ k \in 1..Len(U) /\ U[k] = T[k]
    BY <1>1 DEF Elsewhere, Onward
  <2>2. InHeredocs(k, T, h, B) => InHeredocs(k, U, g, B)
    BY DEF InHeredocs, Onward
  <2>3. QED
    BY <1>1, <2>1, <2>2 DEF Elsewhere
<1>2. ASSUME NEW i \in DOMAIN B
      PROVE  Gaps(B[i], IF Opened(U, B[i]) THEN Conts(U) ELSE Elsewhere(U, g, B))
  <2>1. Opened(U, B[i]) <=> Opened(T, B[i])
    BY <1>2 DEF Onward
  <2>2. Gaps(B[i], IF Opened(T, B[i]) THEN Conts(T) ELSE Elsewhere(T, h, B))
    BY <1>2 DEF LinesInv, BlocksInv
  <2>3. Conts(T) \subseteq Conts(U)
    BY DEF Onward
  <2>4. CASE Opened(T, B[i])
    BY <2>1, <2>2, <2>3, <2>4, GapsMore
  <2>5. CASE ~Opened(T, B[i])
    BY <1>1, <2>1, <2>2, <2>5, GapsMore
  <2>6. QED
    BY <2>4, <2>5
<1>3. QED
  BY <1>1, <1>2 DEF BlocksInv

(* A line that ends in a backslash.                                        *)
LEMMA LineContinues ==
  ASSUME NEW T, NEW m, NEW h, NEW B, NEW U, NEW n, LinesInv(T, m, h, B), Onward(T, U, n, m, h, B),
         U[n] = "cont"
  PROVE  LinesInv(U, Append(m, n), h, B)
<1> DEFINE c == Append(m, n)
           ok == Elsewhere(T, h, B)
<1>1. Elsewhere(T, h, B) \subseteq Elsewhere(U, h, B) /\ BlocksInv(U, h, B)
  BY BlocksStay
<1>2. Len(T) \in Nat /\ m \in Seq(1..Len(T)) /\ Gaps(m, ok) /\ Upto(m, Len(T), ok)
  BY LenProperties DEF LinesInv, Shape, JoinInv
<1>3. n = Len(T) + 1 /\ Len(U) = n /\ n \in Conts(U)
  BY <1>2 DEF Onward, Conts
<1>4. /\ c \in Seq(1..n) /\ Gaps(c, ok) /\ \A any : Upto(c, n, any)
      /\ LinesOf(c) = LinesOf(m) \cup {n}
  BY <1>2, <1>3, GapsAppend
<1> HIDE DEF c, ok
<1>5. Shape(U, c, h, B)
  BY <1>3, <1>4 DEF Shape, LinesInv, Onward
<1>6. JoinInv(U, c, h, B)
  <2>1. LinesOf(c) \subseteq Conts(U)
    BY <1>3, <1>4 DEF LinesInv, JoinInv, Onward
  <2>2. Gaps(c, Elsewhere(U, h, B))
    BY <1>1, <1>4, GapsMore DEF ok
  <2>3. QED
    BY <1>3, <1>4, <2>1, <2>2 DEF JoinInv
<1>7. HeredocInv(U, h)
  <2>1. SUFFICES ASSUME h # None PROVE h # <<>> /\ Opened(U, h) /\ Gaps(h, Conts(U)) /\ Upto(h, n, Conts(U))
    BY <1>3 DEF HeredocInv
  <2>2. /\ h \in Seq(1..Len(T)) /\ h # <<>> /\ Opened(T, h) /\ Gaps(h, Conts(T)) /\ Upto(h, Len(T), Conts(T))
    BY <2>1 DEF LinesInv, Shape, HeredocInv
  <2>3. Opened(U, h)
    BY <2>1, <2>2 DEF Onward, Opened
  <2>4. Conts(T) \subseteq Conts(U)
    BY DEF Onward
  <2>5. Gaps(h, Conts(U)) /\ Upto(h, Len(T), Conts(U))
    BY <1>2, <2>2, <2>4, GapsMore
  <2>6. Upto(h, n, Conts(U))
    BY <1>2, <1>3, <2>2, <2>5, UptoNext
  <2>7. QED
    BY <2>2, <2>3, <2>5, <2>6
<1>8. OnePlace(c, h, B)
  BY <1>4 DEF OnePlace, LinesInv, Onward
<1>9. QED
  BY <1>1, <1>5, <1>6, <1>7, <1>8 DEF LinesInv, c

(* A line of a heredoc, its first one too.                                 *)
LEMMA HeredocGoesOn ==
  ASSUME NEW T, NEW m, NEW h, NEW B, NEW U, NEW n, LinesInv(T, m, h, B), Onward(T, U, n, m, h, B),
         NEW g, \/ h # None /\ g = Append(h, n)
                \/ h = None /\ m = <<>> /\ U[n] = "open" /\ g = <<n>>,
         g # None
  PROVE  LinesInv(U, m, g, B)
<1>1. Len(T) \in Nat /\ n = Len(T) + 1 /\ Len(U) = n /\ n \in Nat
  BY LenProperties DEF LinesInv, Shape, Onward
<1>2. /\ g \in Seq(1..n) /\ g # <<>> /\ Opened(U, g) /\ Gaps(g, Conts(U)) /\ Upto(g, n, Conts(U))
      /\ n \in LinesOf(g) /\ LinesOf(g) \subseteq (IF h = None THEN {} ELSE LinesOf(h)) \cup {n}
      /\ h # None => LinesOf(h) \subseteq LinesOf(g)
  <2>1. CASE h # None /\ g = Append(h, n)
    <3>1. /\ h \in Seq(1..Len(T)) /\ h # <<>> /\ Opened(T, h) /\ Gaps(h, Conts(T)) /\ Upto(h, Len(T), Conts(T))
      BY <2>1 DEF LinesInv, Shape, HeredocInv
    <3>2. /\ g \in Seq(1..n) /\ g # <<>> /\ Gaps(g, Conts(T)) /\ Upto(g, n, Conts(U))
          /\ LinesOf(g) = LinesOf(h) \cup {n} /\ g[1] = h[1]
      BY <1>1, <2>1, <3>1, GapsAppend
    <3>3. Gaps(g, Conts(U))
      BY <3>2, GapsMore DEF Onward
    <3>4. Opened(U, g)
      BY <2>1, <3>1, <3>2 DEF Opened, Onward
    <3>5. QED
      BY <2>1, <3>2, <3>3, <3>4
  <2>2. CASE h = None /\ U[n] = "open" /\ g = <<n>>
    <3>1. g \in Seq(1..n) /\ Len(g) = 1 /\ DOMAIN g = 1..1 /\ g[1] = n /\ g # <<>>
      BY <1>1, <2>2
    <3>2. LinesOf(g) = {n}
      BY <3>1 DEF LinesOf
    <3>3. Gaps(g, Conts(U)) /\ Upto(g, n, Conts(U)) /\ Opened(U, g)
      BY <1>1, <2>2, <3>1 DEF Gaps, Upto, Opened
    <3>4. QED
      BY <2>2, <3>1, <3>2, <3>3
  <2>3. QED
    BY <2>1, <2>2
<1>3. Elsewhere(T, h, B) \subseteq Elsewhere(U, g, B) /\ BlocksInv(U, g, B)
  BY <1>2, BlocksStay
<1>4. n \in Elsewhere(U, g, B)
  BY <1>1, <1>2 DEF Elsewhere, InHeredocs
<1>5. Shape(U, m, g, B)
  BY <1>1, <1>2 DEF Shape, LinesInv, Onward
<1>6. JoinInv(U, m, g, B)
  <2>1. /\ m \in Seq(1..Len(T)) /\ Gaps(m, Elsewhere(T, h, B)) /\ Upto(m, Len(T), Elsewhere(T, h, B))
        /\ LinesOf(m) \subseteq Conts(T) /\ Conts(T) \subseteq Conts(U)
    BY DEF LinesInv, Shape, JoinInv, Onward
  <2>2. Gaps(m, Elsewhere(U, g, B)) /\ Upto(m, Len(T), Elsewhere(U, g, B))
    BY <1>1, <1>3, <2>1, GapsMore
  <2>3. Upto(m, n, Elsewhere(U, g, B))
    BY <1>1, <1>4, <2>1, <2>2, UptoNext
  <2>4. QED
    BY <1>1, <2>1, <2>2, <2>3 DEF JoinInv
<1>7. OnePlace(m, g, B)
  <2>1. ASSUME NEW b, h = None \/ LinesOf(b) \cap LinesOf(h) = {}, n \notin LinesOf(b)
        PROVE  LinesOf(b) \cap LinesOf(g) = {}
    BY <1>2, <2>1
  <2>2. QED
    BY <2>1 DEF OnePlace, LinesInv, Onward
<1>8. QED
  BY <1>1, <1>2, <1>3, <1>5, <1>6, <1>7 DEF LinesInv, HeredocInv

(* A block that comes out: what has been joined up to this line, or the    *)
(* heredoc it closes.                                                      *)
LEMMA BlockComes ==
  ASSUME NEW T, NEW m, NEW h, NEW B, NEW U, NEW n, LinesInv(T, m, h, B), Onward(T, U, n, m, h, B),
         NEW b, NEW w,
         \/ h # None /\ U[n] = "close" /\ b = h /\ w = m
         \/ h = None /\ b = Append(m, n) /\ w = <<>> /\ (m = <<>> => U[n] # "open")
  PROVE  LinesInv(U, w, None, Append(B, b))
<1> DEFINE C == Append(B, b)
<1>1. Len(T) \in Nat /\ n = Len(T) + 1 /\ Len(U) = n /\ n \in Nat /\ Conts(T) \subseteq Conts(U)
  BY LenProperties DEF LinesInv, Shape, Onward
<1>2. m \in Seq(1..Len(T)) /\ Gaps(m, Elsewhere(T, h, B)) /\ Upto(m, Len(T), Elsewhere(T, h, B))
      /\ LinesOf(m) \subseteq Conts(T)
  BY DEF LinesInv, Shape, JoinInv
<1>3. /\ b \in Seq(1..n) /\ b # <<>>
      /\ \A i \in DOMAIN B : LinesOf(B[i]) \cap LinesOf(b) = {}
      /\ IF Opened(U, b) THEN h # None /\ b = h /\ Gaps(b, Conts(U)) ELSE h = None /\ Gaps(b, Elsewhere(T, h, B))
  <2>1. CASE h # None /\ b = h
    <3>1. h \in Seq(1..n) /\ h # <<>> /\ Opened(T, h) /\ Gaps(h, Conts(T)) /\ h[1] \in 1..Len(T)
      BY <2>1 DEF LinesInv, Shape, HeredocInv, Onward
    <3>2. Opened(U, h) /\ Gaps(h, Conts(U))
      BY <1>1, <3>1, GapsMore DEF Opened, Onward
    <3>3. \A i \in DOMAIN B : LinesOf(B[i]) \cap LinesOf(h) = {}
      BY <2>1 DEF LinesInv, OnePlace
    <3>4. QED
      BY <2>1, <3>1, <3>2, <3>3
  <2>2. CASE h = None /\ b = Append(m, n) /\ (m = <<>> => U[n] # "open")
    <3>1. /\ b \in Seq(1..n) /\ b # <<>> /\ Gaps(b, Elsewhere(T, h, B))
          /\ LinesOf(b) = LinesOf(m) \cup {n} /\ (m # <<>> => b[1] = m[1])
      BY <1>1, <1>2, <2>2, GapsAppend
    <3>2. ~Opened(U, b)
      <4>1. CASE m = <<>>
        <5>1. b = <<n>>
          BY <2>2, <4>1
        <5>2. QED
          BY <2>2, <4>1, <5>1 DEF Opened
      <4>2. CASE m # <<>>
        <5>1. b[1] \in LinesOf(m)
          BY <1>1, <1>2, <3>1, <4>2, LinesBelow
        <5>2. U[b[1]] = "cont"
          BY <1>1, <1>2, <5>1 DEF Conts
        <5>3. QED
          BY <5>2 DEF Opened
      <4>3. QED
        BY <4>1, <4>2
    <3>3. \A i \in DOMAIN B : LinesOf(B[i]) \cap LinesOf(b) = {}
      BY <3>1 DEF LinesInv, OnePlace, Onward
    <3>4. QED
      BY <2>2, <3>1, <3>2, <3>3
  <2>3. QED
    BY <2>1, <2>2
<1>4. b \in Seq(Nat)
  BY <1>1, <1>3, LinesBelow
<1>5. /\ Len(B) \in Nat /\ DOMAIN B = 1..Len(B) /\ C \in Seq(Seq(Nat)) /\ Len(C) = Len(B) + 1
      /\ DOMAIN C = 1..Len(B) + 1 /\ C[Len(B) + 1] = b /\ \A i \in DOMAIN B : C[i] = B[i] /\ i \in DOMAIN C
  <2> DEFINE S == Seq(Nat)
  <2>1. B \in Seq(S) /\ b \in S /\ Len(B) \in Nat /\ DOMAIN B = 1..Len(B)
    BY <1>4 DEF LinesInv, Shape
  <2> HIDE DEF S
  <2>2. /\ C \in Seq(S) /\ Len(C) = Len(B) + 1 /\ C[Len(B) + 1] = b /\ \A i \in 1..Len(B) : C[i] = B[i]
        /\ DOMAIN C = 1..Len(B) + 1
    BY <2>1, AppendProperties, LenProperties
  <2>3. \A i \in 1..Len(B) : i \in 1..Len(B) + 1
    BY <2>1
  <2>4. QED
    BY <2>1, <2>2, <2>3 DEF S
<1> HIDE DEF C
<1>6. \A i \in DOMAIN C : i \in DOMAIN B \/ i = Len(B) + 1
  BY <1>5
<1>7. Elsewhere(T, h, B) \subseteq Elsewhere(U, None, C)
  <2>1. ASSUME NEW k \in Elsewhere(T, h, B)
        PROVE  k \in Elsewhere(U, None, C)
    <3>1. k \in 1..Len(T) /\ k \in 1..Len(U) /\ U[k] = T[k]
      BY <2>1 DEF Elsewhere, Onward
    <3>2. ASSUME NEW i \in DOMAIN B, Opened(T, B[i]), k \in LinesOf(B[i])
          PROVE  InHeredocs(k, U, None, C)
      <4>1. i \in DOMAIN C /\ Opened(U, C[i]) /\ k \in LinesOf(C[i])
        BY <1>5, <3>2 DEF Onward
      <4>2. QED
        BY <4>1 DEF InHeredocs
    <3>3. ASSUME h # None, k \in LinesOf(h)
          PROVE  InHeredocs(k, U, None, C)
      <4>1. Len(B) + 1 \in DOMAIN C /\ C[Len(B) + 1] = h /\ Opened(U, h)
        BY <1>3, <1>5, <3>3
      <4>2. QED
        BY <3>3, <4>1 DEF InHeredocs
    <3>4. InHeredocs(k, T, h, B) => InHeredocs(k, U, None, C)
      BY <3>2, <3>3 DEF InHeredocs
    <3>5. QED
      BY <2>1, <3>1, <3>4 DEF Elsewhere
  <2>2. QED
    BY <2>1
<1>8. BlocksInv(U, None, C)
  <2>1. ASSUME NEW i \in DOMAIN B
        PROVE  Gaps(B[i], IF Opened(U, B[i]) THEN Conts(U) ELSE Elsewhere(U, None, C))
    <3>1. Opened(U, B[i]) <=> Opened(T, B[i])
      BY <2>1 DEF Onward
    <3>2. Gaps(B[i], IF Opened(T, B[i]) THEN Conts(T) ELSE Elsewhere(T, h, B))
      BY <2>1 DEF LinesInv, BlocksInv
    <3>3. CASE Opened(T, B[i])
      BY <1>1, <3>1, <3>2, <3>3, GapsMore
    <3>4. CASE ~Opened(T, B[i])
      BY <1>7, <3>1, <3>2, <3>4, GapsMore
    <3>5. QED
      BY <3>3, <3>4
  <2>2. Gaps(b, IF Opened(U, b) THEN Conts(U) ELSE Elsewhere(U, None, C))
    BY <1>3, <1>7, GapsMore
  <2>3. QED
    BY <1>5, <1>6, <2>1, <2>2 DEF BlocksInv
<1>9. Shape(U, w, None, C)
  <2>1. w = m \/ w = <<>>
    OBVIOUS
  <2>3. m \in Seq(1..n) /\ <<>> \in Seq(1..n)
    BY DEF Onward
  <2>2. \A i \in DOMAIN C : C[i] \in Seq(1..n) /\ C[i] # <<>>
    BY <1>3, <1>5, <1>6 DEF LinesInv, Shape, Onward
  <2>4. Len(C) \in Nat /\ DOMAIN C = 1..Len(C) /\ C \in Seq(Seq(Nat))
    BY <1>5
  <2>5. U \in Seq(Kinds) /\ Len(U) = n /\ w \in Seq(1..n)
    BY <2>1, <2>3 DEF Onward
  <2>6. QED
    BY <2>2, <2>4, <2>5 DEF Shape
<1>10. JoinInv(U, w, None, C)
  <2>1. CASE h # None /\ U[n] = "close" /\ w = m
    <3>1. n \in Elsewhere(U, None, C)
      BY <1>1, <2>1 DEF Elsewhere
    <3>2. Gaps(m, Elsewhere(U, None, C)) /\ Upto(m, Len(T), Elsewhere(U, None, C))
      BY <1>1, <1>2, <1>7, GapsMore
    <3>3. Upto(m, n, Elsewhere(U, None, C))
      BY <1>1, <1>2, <3>1, <3>2, UptoNext
    <3>4. QED
      BY <1>1, <1>2, <2>1, <3>2, <3>3 DEF JoinInv
  <2>2. CASE w = <<>>
    BY <2>2 DEF JoinInv, Gaps, Upto, LinesOf
  <2>3. QED
    BY <2>1, <2>2
<1>11. OnePlace(w, None, C)
  <2>1. \A i \in DOMAIN B : LinesOf(B[i]) \cap LinesOf(w) = {} /\ LinesOf(b) \cap LinesOf(w) = {}
    <3>1. CASE h # None /\ b = h /\ w = m
      BY <3>1 DEF LinesInv, OnePlace
    <3>2. CASE w = <<>>
      BY <3>2 DEF LinesOf
    <3>3. QED
      BY <3>1, <3>2
  <2>2. LinesOf(b) \cap LinesOf(w) = {}
    <3>1. CASE h # None /\ b = h /\ w = m
      BY <3>1 DEF LinesInv, OnePlace
    <3>2. CASE w = <<>>
      BY <3>2 DEF LinesOf
    <3>3. QED
      BY <3>1, <3>2
  <2>3. \A i, j \in DOMAIN B : i # j => LinesOf(B[i]) \cap LinesOf(B[j]) = {}
    BY DEF LinesInv, OnePlace
  <2>4. \A i, j \in DOMAIN C : i # j => LinesOf(C[i]) \cap LinesOf(C[j]) = {}
    BY <1>3, <1>5, <1>6, <2>3
  <2>5. \A i \in DOMAIN C : LinesOf(C[i]) \cap LinesOf(w) = {}
    BY <1>5, <1>6, <2>1, <2>2
  <2>6. QED
    BY <2>4, <2>5 DEF OnePlace
<1>12. QED
  BY <1>8, <1>9, <1>10, <1>11 DEF LinesInv, HeredocInv, C

(* At the start nothing is typed.                                          *)
LEMMA ReplInitInv == ReplInit => ReplInv
<1>1. SUFFICES LinesInv(<<>>, <<>>, None, <<>>)
  BY DEF ReplInit, ReplInv
<1>2. Len(<<>>) = 0 /\ DOMAIN <<>> = {} /\ 1..0 = {} /\ <<>> \in Seq(Seq(Nat)) /\ <<>> \in Seq(Kinds) /\ <<>> \in Seq(1..0)
  OBVIOUS
<1>3. QED
  BY <1>2 DEF LinesInv, Shape, BlocksInv, JoinInv, HeredocInv, OnePlace, Gaps, Upto, LinesOf

(* Reading a line keeps the invariant.                                     *)
LEMMA ReadLineKeeps ==
  ASSUME ReplAssumption, ReplInv, NEW kind \in Kinds, ReadLine(kind)
  PROVE  ReplInv'
<1> DEFINE n == Len(typed) + 1
           U == Append(typed, kind)
           T == typed
           m == multiLineBuffer
           h == heredocBuffer
           B == blocks
<1>1. LinesInv(T, m, h, B)
  BY DEF ReplInv
<1>2. Onward(T, U, n, m, h, B) /\ U[n] = kind
  BY <1>1, LineRead
<1>3. typed' = U
  BY DEF ReadLine
<1> HIDE DEF n, U
<1>4. SUFFICES LinesInv(U, multiLineBuffer', heredocBuffer', blocks')
  BY <1>3 DEF ReplInv
<1>5. CASE kind = "cont"
  <2>1. Continue(n)
    BY <1>5 DEF ReadLine, n
  <2>2. multiLineBuffer' = Append(m, n) /\ heredocBuffer' = h /\ blocks' = B
    BY <2>1 DEF Continue
  <2>3. LinesInv(U, Append(m, n), h, B)
    BY <1>1, <1>2, <1>5, LineContinues
  <2>4. QED
    BY <2>2, <2>3
<1>6. CASE kind # "cont" /\ heredocBuffer # None
  <2>1. InHeredoc(n, kind)
    BY <1>6 DEF ReadLine, n
  <2>2. CASE kind = "close"
    <3>1. heredocBuffer' = None /\ blocks' = Append(B, h) /\ multiLineBuffer' = m
      BY <2>1, <2>2 DEF InHeredoc, Comes
    <3>2. LinesInv(U, m, None, Append(B, h))
      BY <1>1, <1>2, <1>6, <2>2, BlockComes
    <3>3. QED
      BY <3>1, <3>2
  <2>3. CASE kind # "close"
    <3>1. heredocBuffer' = Append(h, n) /\ blocks' = B /\ multiLineBuffer' = m
      BY <2>1, <2>3 DEF InHeredoc
    <3>2. Append(h, n) # None
      <4>1. h \in Seq(1..Len(T)) /\ Len(T) \in Nat /\ n = Len(T) + 1
        BY <1>1, <1>6, LenProperties DEF LinesInv, Shape, n
      <4>2. h \in Seq(Nat) /\ n \in Nat
        BY <4>1, LinesBelow
      <4>3. Append(h, n) \in Seq(Nat)
        BY <4>2, AppendProperties
      <4>4. QED
        BY <4>3 DEF ReplAssumption
    <3>3. LinesInv(U, m, Append(h, n), B)
      BY <1>1, <1>2, <1>6, <3>2, HeredocGoesOn
    <3>4. QED
      BY <3>1, <3>3
  <2>4. QED
    BY <2>2, <2>3
<1>7. CASE kind # "cont" /\ heredocBuffer = None /\ multiLineBuffer # <<>>
  <2>1. Join(n)
    BY <1>7 DEF ReadLine, n
  <2>2. blocks' = Append(B, Append(m, n)) /\ multiLineBuffer' = <<>> /\ heredocBuffer' = None
    BY <1>7, <2>1 DEF Join, Comes
  <2>3. LinesInv(U, <<>>, None, Append(B, Append(m, n)))
    BY <1>1, <1>2, <1>7, BlockComes
  <2>4. QED
    BY <2>2, <2>3
<1>8. CASE kind # "cont" /\ heredocBuffer = None /\ multiLineBuffer = <<>>
  <2>1. Plain(n, kind)
    BY <1>8 DEF ReadLine, n
  <2>2. CASE kind = "open"
    <3>1. heredocBuffer' = <<n>> /\ blocks' = B /\ multiLineBuffer' = m
      BY <2>1, <2>2 DEF Plain
    <3>2. <<n>> # None
      <4>1. Len(T) \in Nat /\ n = Len(T) + 1
        BY <1>1, LenProperties DEF LinesInv, Shape, n
      <4>2. <<n>> \in Seq(Nat)
        BY <4>1
      <4>3. QED
        BY <4>2 DEF ReplAssumption
    <3>3. LinesInv(U, m, <<n>>, B)
      BY <1>1, <1>2, <1>8, <2>2, <3>2, HeredocGoesOn
    <3>4. QED
      BY <3>1, <3>3
  <2>3. CASE kind # "open"
    <3>1. blocks' = Append(B, <<n>>) /\ multiLineBuffer' = <<>> /\ heredocBuffer' = None
      BY <1>8, <2>1, <2>3 DEF Plain, Comes
    <3>2. <<n>> = Append(m, n)
      BY <1>8
    <3>3. LinesInv(U, <<>>, None, Append(B, Append(m, n)))
      BY <1>1, <1>2, <1>8, <2>3, BlockComes
    <3>4. QED
      BY <3>1, <3>2, <3>3
  <2>4. QED
    BY <2>2, <2>3
<1>9. QED
  BY <1>5, <1>6, <1>7, <1>8

(* An interrupt forgets what is being joined.                              *)
LEMMA InterruptKeeps ==
  ASSUME ReplInv, InterruptPrompt
  PROVE  ReplInv'
<1>1. LinesInv(typed, multiLineBuffer, heredocBuffer, blocks)
  BY DEF ReplInv
<1>2. LinesInv(typed, <<>>, heredocBuffer, blocks)
  <2>1. Shape(typed, <<>>, heredocBuffer, blocks)
    BY <1>1 DEF LinesInv, Shape
  <2>2. JoinInv(typed, <<>>, heredocBuffer, blocks)
    BY DEF JoinInv, Gaps, Upto, LinesOf
  <2>3. OnePlace(<<>>, heredocBuffer, blocks)
    BY <1>1 DEF LinesInv, OnePlace, LinesOf
  <2>4. QED
    BY <1>1, <2>1, <2>2, <2>3 DEF LinesInv
<1>3. typed' = typed /\ multiLineBuffer' = <<>> /\ heredocBuffer' = heredocBuffer /\ blocks' = blocks
  BY DEF InterruptPrompt
<1>4. QED
  BY <1>2, <1>3 DEF ReplInv

(* What runs does not touch what was read.                                 *)
LEMMA ReplStep ==
  ASSUME ReplAssumption, ReplInv, [ReplNext \/ ReplQuiet]_replVars
  PROVE  ReplInv'
<1>1. ASSUME UNCHANGED <<typed, multiLineBuffer, heredocBuffer, blocks>>
      PROVE  ReplInv'
  BY <1>1 DEF ReplInv
<1>2. ASSUME NEW kind \in {"plain", "cont", "open", "close"}, ReadLine(kind)
      PROVE  ReplInv'
  BY <1>2, ReadLineKeeps DEF Kinds
<1>3. CASE InterruptPrompt
  BY <1>3, InterruptKeeps
<1>4. CASE ScriptNext
  BY <1>1, <1>4 DEF ScriptNext, input
<1>5. CASE LeafEnds
  BY <1>1, <1>5 DEF LeafEnds
<1>6. CASE InterruptCommand
  BY <1>1, <1>6 DEF InterruptCommand
<1>7. CASE ReplQuiet \/ UNCHANGED replVars
  BY <1>1, <1>7 DEF ReplQuiet, replVars
<1>8. QED
  BY <1>2, <1>3, <1>4, <1>5, <1>6, <1>7 DEF ReplNext

(* The shell keeps every line it reads in one place, with what may be      *)
(* missing between the lines of a block.                                   *)
THEOREM ReplInductive == ReplSpec => []ReplInv
<1>1. ReplInit => ReplInv
  BY ReplInitInv
<1>2. ReplInv /\ [ReplNext \/ ReplQuiet]_replVars => ReplInv'
  BY ReplStep, ReplAssumption
<1>3. QED
  BY <1>1, <1>2, PTL DEF ReplSpec

(* Each line that was typed comes out once, in its place.                  *)
THEOREM ReplBlocksWhole == ReplSpec => []BlocksWhole
<1>1. ReplInv => BlocksWhole
  <2>1. SUFFICES ASSUME LinesInv(typed, multiLineBuffer, heredocBuffer, blocks) PROVE BlocksWhole
    BY DEF ReplInv
  <2>2. ASSUME NEW n \in Elsewhere(typed, heredocBuffer, blocks)
        PROVE  typed[n] = "close" \/ \E lines \in Heredocs : n \in lines
    <3>1. typed[n] = "close" \/ InHeredocs(n, typed, heredocBuffer, blocks)
      BY <2>2 DEF Elsewhere
    <3>2. ASSUME NEW i \in DOMAIN blocks, Opened(typed, blocks[i]), n \in LinesOf(blocks[i])
          PROVE  \E lines \in Heredocs : n \in lines
      BY <3>2 DEF Heredocs, IsHeredoc, Opened
    <3>3. ASSUME heredocBuffer # None, n \in LinesOf(heredocBuffer)
          PROVE  \E lines \in Heredocs : n \in lines
      BY <3>3 DEF Heredocs
    <3>4. QED
      BY <3>1, <3>2, <3>3 DEF InHeredocs
  <2>3. ASSUME NEW i \in DOMAIN blocks, NEW k \in 1..Len(blocks[i]) - 1,
               NEW n \in blocks[i][k] + 1..blocks[i][k + 1] - 1
        PROVE  IF IsHeredoc(blocks[i]) THEN typed[n] = "cont"
               ELSE typed[n] = "close" \/ \E lines \in Heredocs : n \in lines
    <3>1. n \in (IF Opened(typed, blocks[i]) THEN Conts(typed) ELSE Elsewhere(typed, heredocBuffer, blocks))
      BY <2>1, <2>3 DEF LinesInv, BlocksInv, Gaps
    <3>2. CASE IsHeredoc(blocks[i])
      BY <3>1, <3>2 DEF IsHeredoc, Opened, Conts
    <3>3. CASE ~IsHeredoc(blocks[i])
      <4>1. n \in Elsewhere(typed, heredocBuffer, blocks)
        BY <3>1, <3>3 DEF IsHeredoc, Opened
      <4>2. QED
        BY <2>2, <3>3, <4>1
    <3>4. QED
      BY <3>2, <3>3
  <2>4. \A i, j \in DOMAIN blocks : i # j => LinesOf(blocks[i]) \cap LinesOf(blocks[j]) = {}
    BY <2>1 DEF LinesInv, OnePlace
  <2>5. QED
    BY <2>3, <2>4 DEF BlocksWhole
<1>2. QED
  BY <1>1, ReplInductive, PTL

-----------------------------------------------------------------------------
(* The nesting of commands *)

(* Calls, of which only the innermost may be no script, and the cancel     *)
(* function an interrupt finds is that of a call that is no alias.         *)
Callings == [name : Commands, ip : Nat, off : BOOLEAN]

CountedIn(c) == {i \in DOMAIN c : c[i].name \in DOMAIN Scripts}

Nested(c) ==
  /\ c \in Seq(Callings)
  /\ \A i \in DOMAIN c : i < Len(c) => c[i].name \in DOMAIN Scripts

CallsInv(c, depth, cancel) ==
  /\ Nested(c) /\ depth = Cardinality(CountedIn(c)) /\ depth <= MaxDepth
  /\ cancel \in 0..Len(c) /\ (cancel # 0 => c[cancel].name \notin Aliases)

NestInv ==
  /\ CallsInv(calls, execDepth, cmdCancel) /\ exited \in BOOLEAN
  /\ pendingLines \in 0..2 /\ typed \in Seq({"plain", "cont", "open", "close"}) /\ Len(typed) <= MaxLines
  /\ interruptedAt \in Seq(Nat) /\ Len(interruptedAt) <= MaxSignals

(* The calls that count are as many as there are, or one less.             *)
LEMMA DepthBounds ==
  ASSUME NEW c, Nested(c)
  PROVE  /\ IsFiniteSet(CountedIn(c)) /\ Cardinality(CountedIn(c)) \in Nat
         /\ Len(c) \in Nat /\ DOMAIN c = 1..Len(c)
         /\ Len(c) <= Cardinality(CountedIn(c)) + 1
<1>1. Len(c) \in Nat /\ DOMAIN c = 1..Len(c)
  BY LenProperties DEF Nested
<1>2. IsFiniteSet(1..Len(c)) /\ CountedIn(c) \subseteq 1..Len(c)
  <2>1. IsFiniteSet(1..Len(c))
    <3>1. 1 \in Int /\ Len(c) \in Int
      BY <1>1
    <3>2. QED
      BY <3>1, FS_Interval
  <2>2. CountedIn(c) \subseteq 1..Len(c)
    BY <1>1 DEF CountedIn
  <2>3. QED
    BY <2>1, <2>2
<1>3. IsFiniteSet(CountedIn(c)) /\ Cardinality(CountedIn(c)) \in Nat
  BY <1>2, FS_Subset, FS_CardinalityType
<1>4. Len(c) <= Cardinality(CountedIn(c)) + 1
  <2>1. CASE Len(c) = 0
    BY <1>3, <2>1
  <2>2. CASE Len(c) > 0
    <3>1. 1..Len(c) - 1 \subseteq CountedIn(c)
      BY <1>1, <2>2 DEF Nested, CountedIn
    <3>2. Cardinality(1..Len(c) - 1) = Len(c) - 1
      BY <1>1, <2>2, FS_Interval
    <3>3. Cardinality(1..Len(c) - 1) <= Cardinality(CountedIn(c))
      BY <1>3, <3>1, FS_Subset
    <3>4. QED
      BY <1>1, <1>3, <3>2, <3>3
  <2>3. QED
    BY <1>1, <2>1, <2>2
<1>5. QED
  BY <1>1, <1>3, <1>4

(* One call more, when the ones before are scripts.                        *)
LEMMA DepthAppend ==
  ASSUME NEW c, Nested(c), \A i \in DOMAIN c : c[i].name \in DOMAIN Scripts,
         NEW e \in Callings
  PROVE  /\ Nested(Append(c, e)) /\ Len(Append(c, e)) = Len(c) + 1 /\ Append(c, e)[Len(c) + 1] = e
         /\ \A i \in DOMAIN c : i \in DOMAIN Append(c, e) /\ Append(c, e)[i] = c[i]
         /\ Cardinality(CountedIn(Append(c, e))) =
              IF e.name \in DOMAIN Scripts THEN Cardinality(CountedIn(c)) + 1 ELSE Cardinality(CountedIn(c))
<1> DEFINE d == Append(c, e)
<1>1. /\ Len(c) \in Nat /\ DOMAIN c = 1..Len(c)
      /\ IsFiniteSet(CountedIn(c)) /\ Cardinality(CountedIn(c)) \in Nat
  BY DepthBounds
<1>2. /\ d \in Seq(Callings)
      /\ Len(d) = Len(c) + 1 /\ d[Len(c) + 1] = e /\ DOMAIN d = 1..Len(c) + 1
      /\ \A i \in 1..Len(c) : d[i] = c[i]
  BY <1>1, AppendProperties DEF Nested
<1> HIDE DEF d
<1>3. Nested(d)
  BY <1>1, <1>2 DEF Nested
<1>4. CountedIn(d) = IF e.name \in DOMAIN Scripts THEN CountedIn(c) \cup {Len(c) + 1} ELSE CountedIn(c)
  BY <1>1, <1>2 DEF CountedIn
<1>5. Len(c) + 1 \notin CountedIn(c)
  BY <1>1 DEF CountedIn
<1>6. Cardinality(CountedIn(c) \cup {Len(c) + 1}) = Cardinality(CountedIn(c)) + 1
  BY <1>1, <1>5, FS_AddElement
<1>7. QED
  BY <1>1, <1>2, <1>3, <1>4, <1>6 DEF d

(* The calls below the first k ones.                                       *)
LEMMA UnwoundInv ==
  ASSUME CallsInv(calls, execDepth, cmdCancel), NEW k \in 0..Len(calls), UnwindTo(k)
  PROVE  CallsInv(calls, execDepth, cmdCancel)'
<1> DEFINE d == SubSeq(calls, 1, k)
<1>1. /\ Len(calls) \in Nat /\ DOMAIN calls = 1..Len(calls) /\ Nested(calls)
      /\ IsFiniteSet(CountedIn(calls)) /\ Cardinality(CountedIn(calls)) \in Nat
  BY DepthBounds DEF CallsInv
<1>2. /\ d \in Seq(Callings)
      /\ Len(d) = k /\ DOMAIN d = 1..k /\ \A i \in 1..k : d[i] = calls[i]
  <2>1. /\ k \in Int /\ 1 \in Int
        /\ \A i \in 1..k : calls[i] \in Callings
    BY <1>1, ElementOfSeq DEF Nested
  <2>2. \A i \in 1..k : i \in DOMAIN d /\ d[i] = calls[1 + i - 1]
    BY <1>1, <2>1, SubSeqProperties
  <2>3. d \in Seq(Callings) /\ Len(d) = IF 1 <= k THEN k - 1 + 1 ELSE 0
    BY <1>1, <2>1, SubSeqProperties
  <2>4. Len(d) = k
    BY <1>1, <2>3
  <2>5. DOMAIN d = 1..k
    BY <2>3, <2>4, LenProperties
  <2>6. QED
    BY <1>1, <2>2, <2>3, <2>4, <2>5
<1>3. calls' = d
  BY DEF UnwindTo
<1> HIDE DEF d
<1>4. Nested(d)
  BY <1>1, <1>2 DEF Nested
<1>5. CountedIn(d) = {i \in 1..k : Counted(calls[i].name)} /\ CountedIn(d) \subseteq CountedIn(calls)
  BY <1>1, <1>2 DEF CountedIn, Counted
<1>6. Cardinality(CountedIn(d)) <= Cardinality(CountedIn(calls)) /\ Cardinality(CountedIn(d)) \in Nat
  BY <1>1, <1>5, FS_Subset, FS_CardinalityType
<1>7. execDepth' = Cardinality(CountedIn(d))
  BY <1>5 DEF UnwindTo
<1>8. cmdCancel' \in 0..k /\ (cmdCancel' # 0 => d[cmdCancel'].name \notin Aliases)
  <2>1. CASE \E i \in k + 1..Len(calls) : calls[i].name \notin Aliases
    BY <2>1 DEF UnwindTo
  <2>2. CASE ~\E i \in k + 1..Len(calls) : calls[i].name \notin Aliases
    <3>1. cmdCancel' = cmdCancel /\ cmdCancel \in 0..Len(calls)
          /\ (cmdCancel # 0 => calls[cmdCancel].name \notin Aliases)
      BY <2>2 DEF UnwindTo, CallsInv
    <3>2. cmdCancel \in 0..k
      BY <1>1, <2>2, <3>1
    <3>3. QED
      BY <1>2, <3>1, <3>2
  <2>3. QED
    BY <2>1, <2>2
<1>9. MaxDepth \in Nat
  BY ReplAssumption DEF ReplAssumption
<1>10. execDepth' <= MaxDepth
  BY <1>1, <1>6, <1>7, <1>9 DEF CallsInv
<1>11. QED
  BY <1>2, <1>3, <1>4, <1>7, <1>8, <1>10 DEF CallsInv

(* An error returns to below the innermost call that was cancelled.        *)
LEMMA ErrorUnwinds ==
  ASSUME CallsInv(calls, execDepth, cmdCancel), ReturnsError
  PROVE  CallsInv(calls, execDepth, cmdCancel)' /\ UNCHANGED exited
<1> DEFINE Inner(i) == \A j \in CancelledAt : j <= i
           k == IF CancelledAt = {} THEN 0 ELSE (CHOOSE i \in CancelledAt : Inner(i)) - 1
<1>1. Len(calls) \in Nat /\ DOMAIN calls = 1..Len(calls)
  BY DepthBounds DEF CallsInv
<1>2. UnwindTo(k) /\ UNCHANGED exited
  BY DEF ReturnsError
<1>3. k \in 0..Len(calls)
  <2>1. CASE CancelledAt = {}
    BY <1>1, <2>1
  <2>2. CASE CancelledAt # {}
    <3> DEFINE S == {Len(calls) - j : j \in CancelledAt}
    <3>1. CancelledAt \subseteq 1..Len(calls)
      BY <1>1 DEF CancelledAt
    <3>2. S \subseteq Nat /\ S # {}
      <4>1. \A j \in CancelledAt : Len(calls) - j \in Nat
        BY ONLY <1>1, <3>1
      <4>2. QED
        BY <2>2, <4>1
    <3>3. PICK d \in S : \A x \in S : d <= x
      BY <3>2, Smallest
    <3>4. PICK i \in CancelledAt : d = Len(calls) - i
      BY <3>3
    <3>5. \A j \in CancelledAt : Len(calls) - j \in S
      OBVIOUS
    <3>6. Inner(i)
      <4>1. \A j \in CancelledAt : Len(calls) - i <= Len(calls) - j
        BY ONLY <3>3, <3>4, <3>5
      <4>2. \A j \in CancelledAt : j <= i
        BY ONLY <1>1, <3>1, <3>4, <4>1
      <4>3. QED
        BY <4>2
    <3>7. (CHOOSE n \in CancelledAt : Inner(n)) \in CancelledAt
      BY <3>6
    <3> HIDE DEF S, Inner
    <3>8. PICK m : m = CHOOSE n \in CancelledAt : Inner(n)
      OBVIOUS
    <3>9. m - 1 \in 0..Len(calls)
      <4>1. m \in CancelledAt
        BY <3>7, <3>8
      <4>2. m \in 1..Len(calls)
        BY ONLY <3>1, <4>1
      <4>3. QED
        BY ONLY <1>1, <4>2
    <3>10. k = m - 1
      BY <2>2, <3>8
    <3>11. QED
      BY ONLY <3>9, <3>10
  <2>3. QED
    BY <2>1, <2>2
<1> HIDE DEF k
<1>4. QED
  BY <1>2, <1>3, UnwoundInv

(* A call that is entered on top of scripts.                               *)
LEMMA EnteredInv ==
  ASSUME ReplAssumption, NEW c, Nested(c), \A i \in DOMAIN c : c[i].name \in DOMAIN Scripts,
         execDepth = Cardinality(CountedIn(c)), execDepth <= MaxDepth,
         cmdCancel \in 0..Len(c), cmdCancel # 0 => c[cmdCancel].name \notin Aliases,
         NEW name \in Commands, NEW off \in BOOLEAN, EnterCommand(name, c, off)
  PROVE  CallsInv(calls, execDepth, cmdCancel)'
<1> DEFINE e == Entry(name, off)
<1>1. e \in Callings /\ e.name = name
  BY DEF Entry, Callings
<1>2. calls' = Append(c, e) /\ ~(name \in DOMAIN Scripts /\ execDepth >= MaxDepth)
      /\ execDepth' = (IF name \in DOMAIN Scripts THEN execDepth + 1 ELSE execDepth)
      /\ cmdCancel' = (IF name \in Aliases THEN cmdCancel ELSE Len(c) + 1)
  BY DEF EnterCommand, Counted
<1> HIDE DEF e
<1>3. /\ Nested(Append(c, e)) /\ Len(Append(c, e)) = Len(c) + 1 /\ Append(c, e)[Len(c) + 1] = e
      /\ \A i \in DOMAIN c : Append(c, e)[i] = c[i]
      /\ Cardinality(CountedIn(Append(c, e))) = IF name \in DOMAIN Scripts THEN execDepth + 1 ELSE execDepth
  BY <1>1, DepthAppend
<1>4. Len(c) \in Nat /\ DOMAIN c = 1..Len(c) /\ execDepth \in Nat /\ MaxDepth \in Nat
  BY DepthBounds DEF ReplAssumption
<1>5. execDepth' <= MaxDepth
  BY <1>2, <1>4
<1>6. cmdCancel' \in 0..Len(c) + 1
  BY <1>2, <1>4
<1>7. cmdCancel' # 0 => Append(c, e)[cmdCancel'].name \notin Aliases
  <2>1. CASE name \in Aliases
    BY <1>2, <1>3, <1>4, <2>1
  <2>2. CASE name \notin Aliases
    BY <1>1, <1>2, <1>3, <2>2
  <2>3. QED
    BY <2>1, <2>2
<1>8. QED
  BY <1>2, <1>3, <1>5, <1>6, <1>7 DEF CallsInv

(* The running script at its next command: the same calls but for that.    *)
LEMMA AdvancedNested ==
  ASSUME CallsInv(calls, execDepth, cmdCancel), calls # <<>>, Here.name \in DOMAIN Scripts, NEW ip \in Nat
  PROVE  LET c == Append(Below, [Here EXCEPT !.ip = ip]) IN
         /\ Nested(c) /\ Len(c) = Len(calls) /\ CountedIn(c) = CountedIn(calls)
         /\ \A i \in DOMAIN c : c[i].name \in DOMAIN Scripts /\ c[i].name = calls[i].name
<1> DEFINE e == [Here EXCEPT !.ip = ip]
           c == Append(Below, e)
<1>1. /\ Len(calls) \in Nat \ {0} /\ DOMAIN calls = 1..Len(calls) /\ Nested(calls)
      /\ calls \in Seq(Callings)
  BY DepthBounds, EmptySeq DEF CallsInv, Nested
<1>2. Here \in Callings
  BY <1>1, ElementOfSeq DEF Here
<1>3. e \in Callings /\ e.name = Here.name
  BY <1>2 DEF Callings
<1> HIDE DEF e
<1>4. /\ Below \in Seq(Callings) /\ Len(Below) = Len(calls) - 1
      /\ \A i \in 1..Len(calls) - 1 : Below[i] = calls[i]
  <2>1. /\ Len(calls) - 1 \in Int /\ 1 \in Int
        /\ \A i \in 1..Len(calls) - 1 : calls[i] \in Callings
    BY <1>1, ElementOfSeq
  <2>2. \A i \in 1..Len(calls) - 1 : Below[i] = calls[1 + i - 1]
    BY <1>1, <2>1, SubSeqProperties DEF Below
  <2>3. /\ Below \in Seq(Callings)
        /\ Len(Below) = IF 1 <= Len(calls) - 1 THEN Len(calls) - 1 - 1 + 1 ELSE 0
    BY <1>1, <2>1, SubSeqProperties DEF Below
  <2>4. Len(Below) = Len(calls) - 1 /\ Len(calls) - 1 - 1 + 1 = Len(calls) - 1
    <3>1. PICK n : n = Len(calls)
      OBVIOUS
    <3>2. n \in Nat \ {0} /\ Len(Below) = IF 1 <= n - 1 THEN n - 1 - 1 + 1 ELSE 0
      BY <1>1, <2>3, <3>1
    <3>3. Len(Below) = n - 1 /\ n - 1 - 1 + 1 = n - 1
      BY ONLY <3>2
    <3>4. QED
      BY ONLY <3>1, <3>3
  <2>5. \A i \in 1..Len(calls) - 1 : 1 + i - 1 = i
    BY <1>1
  <2>6. QED
    BY ONLY <2>2, <2>3, <2>4, <2>5
<1>5. /\ c \in Seq(Callings) /\ Len(c) = Len(calls)
      /\ DOMAIN c = 1..Len(calls) /\ c[Len(calls)] = e
      /\ \A i \in 1..Len(calls) - 1 : c[i] = calls[i]
  <2>1. /\ c \in Seq(Callings) /\ Len(c) = Len(Below) + 1
        /\ c[Len(Below) + 1] = e /\ \A i \in 1..Len(Below) : c[i] = Below[i]
    BY <1>3, <1>4, AppendProperties
  <2>2. Len(Below) + 1 = Len(calls)
    BY <1>1, <1>4
  <2>3. QED
    BY <1>1, <1>4, <2>1, <2>2, LenProperties
<1> HIDE DEF c
<1>6. \A i \in 1..Len(calls) : c[i].name = calls[i].name
  BY <1>1, <1>3, <1>5 DEF Here
<1>7. \A i \in 1..Len(calls) : calls[i].name \in DOMAIN Scripts
  BY <1>1 DEF Nested, Here
<1>8. Nested(c)
  BY <1>5, <1>6, <1>7 DEF Nested
<1>9. CountedIn(c) = CountedIn(calls)
  BY <1>1, <1>5, <1>6 DEF CountedIn
<1>10. QED
  BY <1>5, <1>6, <1>7, <1>8, <1>9 DEF c, e

(* A script's next command, its end or what is too deep for it.            *)
LEMMA ScriptNextKeeps ==
  ASSUME ReplAssumption, CallsInv(calls, execDepth, cmdCancel), ScriptNext
  PROVE  CallsInv(calls, execDepth, cmdCancel)' /\ UNCHANGED exited
<1>1. /\ Len(calls) \in Nat \ {0} /\ DOMAIN calls = 1..Len(calls) /\ Nested(calls)
      /\ calls # <<>> /\ calls \in Seq(Callings) /\ Here \in Callings
  <2>1. calls # <<>> /\ calls \in Seq(Callings) /\ Nested(calls)
    BY DEF ScriptNext, CallsInv, Nested
  <2>2. Len(calls) \in Nat \ {0} /\ DOMAIN calls = 1..Len(calls)
    BY <2>1, EmptySeq, LenProperties
  <2>3. QED
    BY <2>1, <2>2, ElementOfSeq DEF Here
<1>2. Here.name \in DOMAIN Scripts /\ Here.ip \in Nat /\ Here.off \in BOOLEAN
  BY <1>1 DEF ScriptNext, Callings
<1> DEFINE i == Here.ip + 1
           script == Scripts[Here.name]
           c == Append(Below, [Here EXCEPT !.ip = i])
<1>3. i \in Nat
  BY <1>2
<1>4. /\ Nested(c) /\ Len(c) = Len(calls) /\ CountedIn(c) = CountedIn(calls)
      /\ \A j \in DOMAIN c : c[j].name \in DOMAIN Scripts /\ c[j].name = calls[j].name
  BY <1>1, <1>2, <1>3, AdvancedNested
<1>5. DOMAIN c = 1..Len(c) /\ Len(c) \in Nat
  BY <1>4, DepthBounds
<1>6. \/ Returns
      \/ script[i] \in Commands /\ EnterCommand(script[i], c, Here.off) /\ UNCHANGED exited
      \/ TooDeep(i)
      \/ ReturnsError
  <2>1. \/ i > Len(script) /\ Returns
        \/ ~(i > Len(script)) /\ EnterCommand(script[i], c, Here.off) /\ UNCHANGED exited
        \/ TooDeep(i)
        \/ ReturnsError
    BY DEF ScriptNext
  <2>2. ASSUME ~(i > Len(script))
        PROVE  script[i] \in Commands
    BY <1>2, <1>3, <2>2 DEF ReplAssumption
  <2>3. QED
    BY <2>1, <2>2
<1> HIDE DEF i, script, c
<1>7. CASE Returns
  <2>1. Len(calls) - 1 \in 0..Len(calls)
    BY <1>1
  <2>2. QED
    BY <1>7, <2>1, UnwoundInv DEF Returns
<1>8. CASE script[i] \in Commands /\ EnterCommand(script[i], c, Here.off) /\ UNCHANGED exited
  <2>1. /\ execDepth = Cardinality(CountedIn(c)) /\ execDepth <= MaxDepth
        /\ cmdCancel \in 0..Len(c) /\ (cmdCancel # 0 => c[cmdCancel].name \notin Aliases)
    BY <1>4, <1>5 DEF CallsInv
  <2>2. CallsInv(calls, execDepth, cmdCancel)'
    BY <1>2, <1>4, <1>8, <2>1, EnteredInv
  <2>3. QED
    BY <1>8, <2>2
<1>9. CASE TooDeep(i)
  <2>1. calls' = c /\ cmdCancel' = 0 /\ execDepth' = execDepth /\ exited' = exited
    BY <1>9 DEF TooDeep, c
  <2>2. QED
    BY <1>4, <1>5, <2>1 DEF CallsInv
<1>10. CASE ReturnsError
  BY <1>10, ErrorUnwinds
<1>11. QED
  BY <1>6, <1>7, <1>8, <1>9, <1>10 DEF Returns, ReturnsError

(* The innermost command ends.                                             *)
LEMMA LeafEndsKeeps ==
  ASSUME NestInv, LeafEnds
  PROVE  CallsInv(calls, execDepth, cmdCancel)' /\ exited' \in BOOLEAN /\ pendingLines' \in 0..2
<1>1. CallsInv(calls, execDepth, cmdCancel) /\ exited \in BOOLEAN /\ pendingLines \in 0..2
  BY Zenon DEF NestInv
<1>2. Len(calls) \in Nat \ {0}
  <2>1. calls # <<>> /\ calls \in Seq(Callings)
    BY <1>1 DEF LeafEnds, CallsInv, Nested
  <2>2. QED
    BY <2>1, EmptySeq, LenProperties
<1>3. /\ UnwindTo(0) \/ Returns \/ ReturnsError
      /\ exited' = exited \/ exited' = TRUE
      /\ pendingLines' = pendingLines \/ pendingLines' = 2
  <2>1. Here.name \in {"wait", "hedit", "fail", "exit"}
    BY DEF LeafEnds, Leaves
  <2>2. CASE Here.name = "exit"
    BY <2>2 DEF LeafEnds
  <2>3. CASE Here.name = "fail"
    BY <2>3 DEF LeafEnds, ReturnsError
  <2>4. CASE Here.name = "wait"
    BY <2>4 DEF LeafEnds, Returns
  <2>5. CASE Here.name = "hedit"
    BY <2>5 DEF LeafEnds, Returns
  <2>6. QED
    BY <2>1, <2>2, <2>3, <2>4, <2>5
<1>4. CallsInv(calls, execDepth, cmdCancel)'
  <2>1. CASE UnwindTo(0)
    <3>1. 0 \in 0..Len(calls)
      BY <1>2
    <3>2. QED
      BY <1>1, <2>1, <3>1, UnwoundInv
  <2>2. CASE Returns
    <3>1. Len(calls) - 1 \in 0..Len(calls)
      BY <1>2
    <3>2. QED
      BY <1>1, <2>2, <3>1, UnwoundInv DEF Returns
  <2>3. CASE ReturnsError
    BY <1>1, <2>3, ErrorUnwinds
  <2>4. QED
    BY <1>3, <2>1, <2>2, <2>3
<1>5. exited' \in BOOLEAN
  BY <1>1, <1>3, Zenon
<1>6. QED
  BY <1>1, <1>3, <1>4, <1>5

(* An interrupt marks calls, and ends none of them yet.                    *)
LEMMA InterruptNests ==
  ASSUME CallsInv(calls, execDepth, cmdCancel), InterruptCommand
  PROVE  CallsInv(calls, execDepth, cmdCancel)'
<1>1. /\ Len(calls) \in Nat /\ DOMAIN calls = 1..Len(calls) /\ Nested(calls) /\ calls \in Seq(Callings)
  BY DepthBounds DEF CallsInv, Nested
<1>2. PICK c : c = [i \in DOMAIN calls |-> IF i >= cmdCancel THEN [calls[i] EXCEPT !.off = TRUE] ELSE calls[i]]
  OBVIOUS
<1>3. calls' = c /\ UNCHANGED <<execDepth, cmdCancel>>
  BY <1>2 DEF InterruptCommand
<1>4. \A i \in 1..Len(calls) : c[i] \in Callings /\ c[i].name = calls[i].name
  <2>1. ASSUME NEW i \in 1..Len(calls)
        PROVE  c[i] \in Callings /\ c[i].name = calls[i].name
    <3>1. calls[i] \in Callings
      BY <1>1, ElementOfSeq
    <3>2. c[i] = IF i >= cmdCancel THEN [calls[i] EXCEPT !.off = TRUE] ELSE calls[i]
      BY <1>1, <1>2
    <3>3. QED
      BY <3>1, <3>2 DEF Callings
  <2>2. QED
    BY <2>1
<1>5. DOMAIN c = 1..Len(calls) /\ c = [i \in 1..Len(calls) |-> c[i]]
  BY <1>1, <1>2
<1>6. c \in Seq(Callings) /\ Len(c) = Len(calls)
  BY <1>1, <1>4, <1>5, LenProperties
<1>7. Nested(c)
  BY <1>1, <1>4, <1>6 DEF Nested
<1>8. CountedIn(c) = CountedIn(calls)
  BY <1>1, <1>4, <1>5 DEF CountedIn
<1>9. QED
  BY <1>1, <1>3, <1>4, <1>6, <1>7, <1>8 DEF CallsInv

(* A line read enters one command at most, when none is running.           *)
LEMMA ReadLineNests ==
  ASSUME ReplAssumption, NestInv, NEW kind \in {"plain", "cont", "open", "close"}, ReadLine(kind)
  PROVE  CallsInv(calls, execDepth, cmdCancel)'
<1>1. CallsInv(calls, execDepth, cmdCancel) /\ calls = <<>>
  BY DEF NestInv, ReadLine, Prompting
<1>2. Quiescent \/ \E name \in Commands : EnterCommand(name, <<>>, FALSE)
  <2> DEFINE n == Len(typed) + 1
  <2>1. Continue(n) \/ InHeredoc(n, kind) \/ Join(n) \/ Plain(n, kind)
    BY Zenon DEF ReadLine
  <2> HIDE DEF n
  <2>2. CASE Continue(n)
    BY <2>2 DEF Continue
  <2>3. CASE InHeredoc(n, kind)
    BY <2>3 DEF InHeredoc, Comes
  <2>4. CASE Join(n)
    BY <2>4 DEF Join, Comes
  <2>5. CASE Plain(n, kind)
    BY <2>5 DEF Plain, Comes
  <2>6. QED
    BY <2>1, <2>2, <2>3, <2>4, <2>5
<1>3. CASE Quiescent
  BY <1>1, <1>3 DEF Quiescent
<1>4. ASSUME NEW name \in Commands, EnterCommand(name, <<>>, FALSE)
      PROVE  CallsInv(calls, execDepth, cmdCancel)'
  <2>1. /\ Nested(<<>>) /\ execDepth = Cardinality(CountedIn(<<>>)) /\ execDepth <= MaxDepth
        /\ cmdCancel \in 0..Len(<<>>) /\ (cmdCancel # 0 => (<<>>)[cmdCancel].name \notin Aliases)
    BY <1>1 DEF CallsInv
  <2>2. \A i \in DOMAIN <<>> : (<<>>)[i].name \in DOMAIN Scripts
    OBVIOUS
  <2>3. FALSE \in BOOLEAN
    OBVIOUS
  <2>4. QED
    BY ONLY <1>4, <2>1, <2>2, <2>3, ReplAssumption, EnteredInv
<1>5. QED
  BY <1>2, <1>3, <1>4

(* Each step keeps the nesting and the bounds.                             *)
LEMMA NestStep ==
  ASSUME ReplAssumption, NestInv, [ReplNext \/ ReplQuiet]_replVars
  PROVE  NestInv'
<1>1. /\ CallsInv(calls, execDepth, cmdCancel) /\ pendingLines \in 0..2
      /\ typed \in Seq({"plain", "cont", "open", "close"}) /\ interruptedAt \in Seq(Nat)
      /\ Len(typed) \in Nat /\ Len(interruptedAt) \in Nat /\ MaxLines \in Nat /\ MaxSignals \in Nat
  BY LenProperties DEF NestInv, ReplAssumption
<1>2. Len(typed) <= MaxLines /\ Len(interruptedAt) <= MaxSignals
  BY DEF NestInv
<1>3. exited \in BOOLEAN
  BY Zenon DEF NestInv
<1>4. ASSUME NEW kind \in {"plain", "cont", "open", "close"}, ReadLine(kind)
      PROVE  NestInv'
  <2>1. CallsInv(calls, execDepth, cmdCancel)'
    BY <1>4, ReadLineNests
  <2>2. exited' = exited /\ interruptedAt' = interruptedAt /\ typed' = Append(typed, kind) /\ Len(typed) < MaxLines
    BY <1>4 DEF ReadLine
  <2>3. pendingLines' \in 0..2
    BY <1>1, <1>4 DEF ReadLine
  <2>4. typed' \in Seq({"plain", "cont", "open", "close"}) /\ Len(typed') = Len(typed) + 1
    BY <1>1, <2>2, AppendProperties
  <2>5. Len(typed') <= MaxLines
    BY <1>1, <2>2, <2>4
  <2>6. exited' \in BOOLEAN
    BY <1>3, <2>2
  <2>7. QED
    BY <1>1, <1>2, <2>1, <2>2, <2>3, <2>4, <2>5, <2>6 DEF NestInv
<1>5. ASSUME Len(interruptedAt) < MaxSignals, interruptedAt' = Append(interruptedAt, Len(typed)),
             typed' = typed, exited' = exited, pendingLines' \in 0..2, CallsInv(calls, execDepth, cmdCancel)'
      PROVE  NestInv'
  <2>1. interruptedAt' \in Seq(Nat) /\ Len(interruptedAt') = Len(interruptedAt) + 1
    BY <1>1, <1>5, AppendProperties
  <2>2. Len(interruptedAt') <= MaxSignals
    BY <1>1, <1>5, <2>1
  <2>3. exited' \in BOOLEAN
    BY <1>3, <1>5
  <2>4. QED
    BY <1>1, <1>2, <1>5, <2>1, <2>2, <2>3 DEF NestInv
<1>6. CASE InterruptPrompt
  <2>1. CallsInv(calls, execDepth, cmdCancel)'
    BY <1>1, <1>6 DEF InterruptPrompt, Quiescent
  <2>2. QED
    BY <1>5, <1>6, <2>1 DEF InterruptPrompt
<1>7. CASE InterruptCommand
  <2>1. CallsInv(calls, execDepth, cmdCancel)'
    BY <1>1, <1>7, InterruptNests
  <2>2. QED
    BY <1>1, <1>5, <1>7, <2>1 DEF InterruptCommand
<1>8. CASE ScriptNext
  <2>1. CallsInv(calls, execDepth, cmdCancel)' /\ exited' = exited
    BY <1>1, <1>8, ScriptNextKeeps
  <2>2. exited' \in BOOLEAN
    BY <1>3, <2>1
  <2>3. typed' = typed /\ interruptedAt' = interruptedAt /\ pendingLines' = pendingLines
    BY <1>8 DEF ScriptNext, input
  <2>4. QED
    BY <1>1, <1>2, <2>1, <2>2, <2>3 DEF NestInv
<1>9. CASE LeafEnds
  <2>1. CallsInv(calls, execDepth, cmdCancel)' /\ exited' \in BOOLEAN /\ pendingLines' \in 0..2
    BY <1>9, LeafEndsKeeps
  <2>2. typed' = typed /\ interruptedAt' = interruptedAt
    BY <1>9 DEF LeafEnds
  <2>3. QED
    BY <1>1, <1>2, <2>1, <2>2 DEF NestInv
<1>10. CASE UNCHANGED replVars
  <2>1. /\ calls' = calls /\ execDepth' = execDepth /\ cmdCancel' = cmdCancel /\ exited' = exited
        /\ typed' = typed /\ interruptedAt' = interruptedAt /\ pendingLines' = pendingLines
    BY <1>10 DEF replVars
  <2>2. exited' \in BOOLEAN /\ CallsInv(calls, execDepth, cmdCancel)'
    BY <1>1, <1>3, <2>1
  <2>3. QED
    BY <1>1, <1>2, <2>1, <2>2 DEF NestInv
<1>11. QED
  BY <1>4, <1>6, <1>7, <1>8, <1>9, <1>10 DEF ReplNext, ReplQuiet

(* However commands, aliases, scripts and interrupts follow each other,    *)
(* they nest within the depth, which is counted back whichever way a       *)
(* command ends, and an interrupt finds the cancel function of a running   *)
(* command or none.                                                        *)
THEOREM ReplNests == ReplSpec => []ReplTypeOK
<1>1. ReplInit => NestInv
  <2>1. ASSUME ReplInit
        PROVE  NestInv
    <3>1. /\ calls = <<>> /\ execDepth = 0 /\ cmdCancel = 0 /\ pendingLines = 0
          /\ typed = <<>> /\ interruptedAt = <<>>
      BY <2>1 DEF ReplInit
    <3>2. exited \in BOOLEAN
      BY <2>1, Zenon DEF ReplInit
    <3>3. MaxDepth \in Nat /\ MaxLines \in Nat /\ MaxSignals \in Nat
      BY ReplAssumption DEF ReplAssumption
    <3>4. CountedIn(<<>>) = {} /\ Cardinality({}) = 0
      BY FS_EmptySet DEF CountedIn
    <3>5. <<>> \in Seq(Callings) /\ Len(<<>>) = 0 /\ DOMAIN <<>> = {}
      OBVIOUS
    <3>6. Nested(<<>>)
      BY <3>5 DEF Nested
    <3>7. CallsInv(calls, execDepth, cmdCancel)
      BY <3>1, <3>3, <3>4, <3>5, <3>6 DEF CallsInv
    <3>8. QED
      BY <3>1, <3>2, <3>3, <3>5, <3>7 DEF NestInv
  <2>2. QED
    BY <2>1
<1>2. NestInv /\ [ReplNext \/ ReplQuiet]_replVars => NestInv'
  BY NestStep, ReplAssumption
<1>3. NestInv => ReplTypeOK
  <2>1. ASSUME NestInv
        PROVE  ReplTypeOK
    <3>1. exited \in BOOLEAN
      BY <2>1, Zenon DEF NestInv
    <3>2. CallsInv(calls, execDepth, cmdCancel) /\ pendingLines \in 0..2
          /\ Len(typed) <= MaxLines /\ Len(interruptedAt) <= MaxSignals
      BY <2>1 DEF NestInv
    <3>3. Len(calls) <= execDepth + 1 /\ execDepth \in Nat /\ execDepth <= MaxDepth
          /\ Len(calls) \in Nat /\ MaxDepth \in Nat
      BY <3>2, DepthBounds, ReplAssumption DEF CallsInv, ReplAssumption
    <3>4. Len(calls) <= MaxDepth + 1
      BY ONLY <3>3
    <3>5. QED
      BY <3>1, <3>2, <3>3, <3>4 DEF ReplTypeOK, CallsInv, CountedIn
  <2>2. QED
    BY <2>1
<1>4. QED
  BY <1>1, <1>2, <1>3, PTL DEF ReplSpec

-----------------------------------------------------------------------------
(* The connection *)

(* What accepting, taking and sending do to sent \o Held \o writeCh. *)

(* Taking the head of the queue moves it between two parts of the whole. *)
LEMMA TakeConcat ==
  ASSUME NEW S, NEW a \in Seq(S), NEW q \in Seq(S), q # <<>>
  PROVE  (a \o <<>>) \o q = (a \o <<Head(q)>>) \o Tail(q)
<1>1. /\ Head(q) \in S /\ Tail(q) \in Seq(S) /\ Len(q) \in Nat
      /\ Len(Tail(q)) = Len(q) - 1
      /\ \A i \in 1 .. Len(Tail(q)) : Tail(q)[i] = q[i + 1]
  BY HeadTailProperties, LenProperties
<1>2. <<Head(q)>> \in Seq(S) /\ Len(<<Head(q)>>) = 1 /\ <<Head(q)>>[1] = q[1]
  BY <1>1
<1>3. /\ <<Head(q)>> \o Tail(q) \in Seq(S)
      /\ Len(<<Head(q)>> \o Tail(q)) = Len(q)
      /\ \A i \in 1 .. Len(q) : (<<Head(q)>> \o Tail(q))[i] = q[i]
  BY <1>1, <1>2, ConcatProperties
<1>4. <<Head(q)>> \o Tail(q) = q
  BY <1>3, SeqEqual
<1>5. QED
  BY <1>1, <1>2, <1>4, ConcatAssociative, ConcatEmptySeq

(* Sending the message held moves it to the end of what was sent. *)
LEMMA SendConcat ==
  ASSUME NEW S, NEW a \in Seq(S), NEW m \in S
  PROVE  Append(a, m) \o <<>> = a \o <<m>>
BY AppendIsConcat, AppendProperties, ConcatEmptySeq

-----------------------------------------------------------------------------
(* Type correctness *)

(* NewConnection leaves every variable in its domain. *)
LEMMA InitType == Init => TypeOK
<1> SUFFICES ASSUME Init PROVE TypeOK
  OBVIOUS
<1>1. writeCh \in Seq(Msgs) /\ accepted \in Seq(Msgs) /\ sent \in Seq(Msgs) /\ Len(writeCh) <= WriteCap
  BY ConnAssumption DEF Init
<1>2. subs \in SUBSET Subs /\ chan \in [Subs -> {"nil", "open", "closed"}] /\ pending \in [Subs -> 0..SubCap]
  BY ConnAssumption DEF Init
<1>3. closeCode \in Codes /\ inCount \in 0..MaxIn
  BY ConnAssumption DEF Init, Codes
<1>4. QED
  BY <1>1, <1>2, <1>3 DEF Init, TypeOK, WritePCs, LoopPCs, ReadPCs, ClosePCs

(* Every step keeps every variable in its domain. *)
LEMMA StepType == TypeOK /\ LoopInv /\ ReadInv /\ [Next]_vars => TypeOK'
<1> SUFFICES ASSUME TypeOK, LoopInv, ReadInv, [Next]_vars PROVE TypeOK'
  OBVIOUS
<1> USE DEF TypeOK, state, writers, wloop, frame, rloop, fanout, closers
<1>1. ASSUME NEW m \in Msgs, WriteBegin(m) \/ WriteRefused(m)
      PROVE  TypeOK'
  <2>1. writer' \in [Msgs -> WritePCs]
    BY <1>1 DEF WriteBegin, WriteRefused, WritePCs
  <2>2. QED
    BY <1>1, <2>1 DEF WriteBegin, WriteRefused, Others
<1>2. ASSUME NEW m \in Msgs, WriteAccepted(m)
      PROVE  TypeOK'
  <2>1. writer' \in [Msgs -> WritePCs]
    BY <1>2 DEF WriteAccepted, WritePCs
  <2>2. writeCh' \in Seq(Msgs) /\ Len(writeCh') <= WriteCap /\ accepted' \in Seq(Msgs)
    BY <1>2, ConnAssumption, AppendProperties, LenProperties DEF WriteAccepted
  <2>3. QED
    BY <1>2, <2>1, <2>2 DEF WriteAccepted, Others
<1>3. ASSUME WriteLoop
      PROVE  TypeOK'
  <2>1. ASSUME NEW from, NEW to \in LoopPCs, TakeNext(from, to)
        PROVE  TypeOK'
    <3>1. wmsg' \in Msgs /\ writeCh' \in Seq(Msgs) /\ Len(writeCh') <= WriteCap
      BY <2>1, ConnAssumption, HeadTailProperties, LenProperties DEF TakeNext
    <3>2. QED
      BY <2>1, <3>1 DEF TakeNext
  <2>2. ASSUME NEW from \in {"send", "flushSend"}, NEW to \in LoopPCs, SendOK(from, to)
        PROVE  TypeOK'
    <3>1. wmsg \in Msgs
      BY <2>2 DEF LoopInv, SendOK
    <3>2. sent' \in Seq(Msgs)
      BY <2>2, <3>1, AppendProperties DEF SendOK
    <3>3. QED
      BY <2>2, <3>2 DEF SendOK
  <2>3. CASE LoopTick \/ LoopPingOK \/ LoopStartFlush \/ LoopSeesDone
    BY <2>3 DEF LoopTick, LoopPingOK, LoopStartFlush, LoopSeesDone, LoopMove, LoopPCs
  <2>4. CASE LoopWriteFails \/ FlushDone \/ FlushGoodbye
    BY <2>4 DEF LoopWriteFails, FlushDone, FlushGoodbye, LoopPCs
  <2>5. CASE LoopForceClose
    <3>1. done' \in BOOLEAN /\ netOpen' \in BOOLEAN /\ wpc' \in LoopPCs
      BY <2>5 DEF LoopForceClose, ForceClose, MarkDone, CloseSocket, AlreadyClosed, LoopPCs
    <3>2. QED
      BY <2>5, <3>1 DEF LoopForceClose
  <2>6. QED
    BY <1>3, <2>1, <2>2, <2>3, <2>4, <2>5
    DEF WriteLoop, LoopTake, FlushTake, LoopSendOK, FlushSendOK, LoopPCs
<1>4. ASSUME ReadLoop
      PROVE  TypeOK'
  <2>1. CASE ReadStart \/ ReadStartFails \/ AnswerPing \/ AnswerPingFails
    BY <2>1 DEF ReadStart, ReadStartFails, AnswerPing, AnswerPingFails, ReadMove, ReadPCs
  <2>2. CASE EchoClose \/ ReadFails
    BY <2>2 DEF EchoClose, ReadFails, ReadInv, Abnormal, Codes, ReadPCs
  <2>3. CASE CloseSubscribers
    BY <2>3 DEF CloseSubscribers, ReadPCs
  <2>4. CASE ReadForceClose
    <3>1. done' \in BOOLEAN /\ netOpen' \in BOOLEAN /\ rpc' \in ReadPCs
      BY <2>4 DEF ReadForceClose, ForceClose, MarkDone, CloseSocket, AlreadyClosed, ReadPCs
    <3>2. QED
      BY <2>4, <3>1 DEF ReadForceClose
  <2>5. CASE ReportDisconnect
    BY <2>5 DEF ReportDisconnect, ReadPCs
  <2>6. QED
    BY <1>4, <2>1, <2>2, <2>3, <2>4, <2>5 DEF ReadLoop
<1>5. ASSUME Peer
      PROVE  TypeOK'
  <2>1. CASE ReadMessage
    BY <2>1, ConnAssumption DEF ReadMessage, HasRoom, ReadPCs
  <2>2. CASE ReadCloseFrame \/ ReadEOF \/ ReadFault
    BY <2>2 DEF ReadCloseFrame, ReadEOF, ReadFault, ReadMove, Abnormal, Codes, ReadPCs
  <2>3. QED
    BY <1>5, <2>1, <2>2 DEF Peer
<1>6. ASSUME NEW s \in Subs, Subscribe(s) \/ Unsubscribe(s) \/ Consume(s)
      PROVE  TypeOK'
  <2>1. subs' \in SUBSET Subs /\ chan' \in [Subs -> {"nil", "open", "closed"}]
    BY <1>6 DEF Subscribe, Unsubscribe, Consume
  <2>2. pending' \in [Subs -> 0..SubCap]
    <3>1. pending[s] \in 0..SubCap /\ SubCap \in Nat
      BY ConnAssumption
    <3>2. pending[s] > 0 => pending[s] - 1 \in 0..SubCap
      BY <3>1
    <3>3. CASE Consume(s)
      BY <3>2, <3>3 DEF Consume
    <3>4. CASE Subscribe(s) \/ Unsubscribe(s)
      BY <3>4 DEF Subscribe, Unsubscribe
    <3>5. QED
      BY <1>6, <3>3, <3>4
  <2>3. QED
    BY <1>6, <2>1, <2>2 DEF Subscribe, Unsubscribe, Consume
<1>7. ASSUME NEW code \in CloseCodes, CloseWithCode(code)
      PROVE  TypeOK'
  BY <1>7, LenProperties DEF CloseWithCode, Codes, ClosePCs
<1>8. CASE FlushTimeout \/ CloseReturns
  BY <1>8 DEF FlushTimeout, CloseReturns, CloserMove, ClosePCs
<1>9. CASE CloserForceClose
  <2>1. done' \in BOOLEAN /\ netOpen' \in BOOLEAN /\ closer' \in ClosePCs
    BY <1>9 DEF CloserForceClose, ForceClose, MarkDone, CloseSocket, AlreadyClosed, ClosePCs
  <2>2. QED
    BY <1>9, <2>1 DEF CloserForceClose
<1>10. CASE Quiet \/ UNCHANGED vars
  BY <1>10 DEF Quiet, vars
<1>11. QED
  BY <1>1, <1>2, <1>3, <1>4, <1>5, <1>6, <1>7, <1>8, <1>9, <1>10 DEF Next

-----------------------------------------------------------------------------
(* The rest of the inductive invariant, one lemma per conjunct *)

(* No two goroutines are inside forceClose's critical section. *)
LEMMA StepSingleForceClose ==
  TypeOK /\ SingleForceClose /\ [Next]_vars => SingleForceClose'
<1> SUFFICES ASSUME TypeOK, SingleForceClose, [Next]_vars PROVE SingleForceClose'
  OBVIOUS
<1> USE DEF SingleForceClose, MuFree, state, writers, wloop, frame, rloop, fanout, closers
<1>1. CASE UNCHANGED <<done, netOpen, wpc, rpc, closer>>
  BY <1>1
<1>2. ASSUME state' = state, rpc' = rpc, closer' = closer, wpc \notin {"closeNet"}, wpc' # "closeNet"
      PROVE  SingleForceClose'
  BY <1>2
<1>3. ASSUME state' = state, wpc' = wpc, closer' = closer, rpc \notin {"closeNet"}, rpc' # "closeNet"
      PROVE  SingleForceClose'
  BY <1>3
<1>4. ASSUME state' = state, wpc' = wpc, rpc' = rpc, closer \notin {"closeNet"}, closer' # "closeNet"
      PROVE  SingleForceClose'
  BY <1>4
<1>5. CASE LoopForceClose
  BY <1>5 DEF LoopForceClose, ForceClose, MarkDone, CloseSocket, AlreadyClosed, TypeOK
<1>6. CASE ReadForceClose
  BY <1>6 DEF ReadForceClose, ForceClose, MarkDone, CloseSocket, AlreadyClosed, TypeOK
<1>7. CASE CloserForceClose
  BY <1>7 DEF CloserForceClose, ForceClose, MarkDone, CloseSocket, AlreadyClosed, TypeOK
<1>8. ASSUME WriteLoop, ~LoopForceClose
      PROVE  SingleForceClose'
  BY <1>2, <1>8 DEF WriteLoop, LoopTake, LoopSendOK, LoopTick, LoopPingOK, LoopStartFlush,
    LoopSeesDone, FlushTake, FlushSendOK, LoopWriteFails, FlushDone, FlushGoodbye,
    TakeNext, SendOK, LoopMove
<1>9. ASSUME ReadLoop \/ Peer, ~ReadForceClose
      PROVE  SingleForceClose'
  BY <1>3, <1>9 DEF ReadLoop, Peer, ReadStart, ReadStartFails, AnswerPing, AnswerPingFails,
    EchoClose, ReadFails, CloseSubscribers, ReportDisconnect, ReadMessage, ReadCloseFrame,
    ReadEOF, ReadFault, ReadMove
<1>10. ASSUME NEW code \in CloseCodes, CloseWithCode(code)
       PROVE  SingleForceClose'
  BY <1>4, <1>10 DEF CloseWithCode
<1>11. CASE FlushTimeout \/ CloseReturns
  BY <1>4, <1>11 DEF FlushTimeout, CloseReturns, CloserMove
<1>12. ASSUME NEW m \in Msgs, WriteBegin(m) \/ WriteRefused(m) \/ WriteAccepted(m)
       PROVE  SingleForceClose'
  BY <1>1, <1>12 DEF WriteBegin, WriteRefused, WriteAccepted, Others
<1>13. ASSUME NEW s \in Subs, Subscribe(s) \/ Unsubscribe(s) \/ Consume(s)
       PROVE  SingleForceClose'
  BY <1>1, <1>13 DEF Subscribe, Unsubscribe, Consume
<1>14. CASE Quiet \/ UNCHANGED vars
  BY <1>1, <1>14 DEF Quiet, vars
<1>15. QED
  BY <1>5, <1>6, <1>7, <1>8, <1>9, <1>10, <1>11, <1>12, <1>13, <1>14 DEF Next

(* The write loop keeps a message exactly while it is sending one. *)
LEMMA StepLoopInv == TypeOK /\ LoopInv /\ [Next]_vars => LoopInv'
<1> SUFFICES ASSUME TypeOK, LoopInv, [Next]_vars PROVE LoopInv'
  OBVIOUS
<1> USE DEF LoopInv, wloop
<1>1. CASE UNCHANGED wloop
  BY <1>1
<1>2. ASSUME NEW from, NEW to, TakeNext(from, to), to \in {"send", "flushSend"}
      PROVE  LoopInv'
  <2>1. wmsg' \in Msgs /\ None \notin Msgs
    BY <1>2, HeadTailProperties, ConnAssumption DEF TakeNext, TypeOK
  <2>2. QED
    BY <1>2, <2>1 DEF TakeNext
<1>3. ASSUME WriteLoop
      PROVE  LoopInv'
  BY <1>2, <1>3 DEF WriteLoop, LoopTake, LoopSendOK, LoopTick, LoopPingOK, LoopStartFlush,
    LoopSeesDone, FlushTake, FlushSendOK, LoopWriteFails, FlushDone, FlushGoodbye, SendOK,
    LoopMove, LoopForceClose, ForceClose, TypeOK, LoopPCs
<1>4. ASSUME ~WriteLoop
      PROVE  UNCHANGED wloop
  BY <1>4 DEF Next, ReadLoop, Peer, ReadStart, ReadStartFails, AnswerPing, AnswerPingFails,
    EchoClose, ReadFails, CloseSubscribers, ReadForceClose, ReportDisconnect, ReadMessage,
    ReadCloseFrame, ReadEOF, ReadFault, ReadMove, CloseWithCode, FlushTimeout, CloserForceClose,
    CloseReturns, CloserMove, WriteBegin, WriteRefused, WriteAccepted, Others, Subscribe,
    Unsubscribe, Consume, Quiet, vars
<1>5. QED
  BY <1>1, <1>3, <1>4

(* Who changes what: the frame conditions the next lemmas share. *)
LEMMA NextFrame ==
  ASSUME [Next]_vars
  PROVE  /\ WriteLoop \/ UNCHANGED wloop
         /\ WriteLoop \/ UNCHANGED <<writeCh, accepted>> \/ \E m \in Msgs : WriteAccepted(m)
         /\ FlushGoodbye \/ EchoClose \/ UNCHANGED frame
         /\ UNCHANGED <<closing, flushMark>> \/ \E code \in CloseCodes : CloseWithCode(code)
         /\ ReadLoop \/ Peer \/ UNCHANGED rloop
         /\ \/ UNCHANGED <<subs, chan>> \/ CloseSubscribers
            \/ \E s \in Subs : Subscribe(s) \/ Unsubscribe(s)
         /\ \/ UNCHANGED closeCode \/ ReadCloseFrame \/ ReadFails
            \/ \E code \in CloseCodes : CloseWithCode(code)
         /\ ReportDisconnect \/ UNCHANGED reported
         /\ done => done'
         /\ ~netOpen => ~netOpen'
<1> USE DEF WriteLoop, LoopTake, LoopSendOK, LoopTick, LoopPingOK, LoopStartFlush, LoopSeesDone,
    FlushTake, FlushSendOK, LoopWriteFails, FlushDone, FlushGoodbye, LoopForceClose, TakeNext,
    SendOK, LoopMove, Next, ReadLoop, Peer, ReadStart, ReadStartFails, AnswerPing,
    AnswerPingFails, EchoClose, ReadFails, CloseSubscribers, ReadForceClose, ReportDisconnect,
    ReadMessage, ReadCloseFrame, ReadEOF, ReadFault, ReadMove, CloseWithCode, FlushTimeout,
    CloserForceClose, CloseReturns, CloserMove, WriteBegin, WriteRefused, WriteAccepted, Others,
    Subscribe, Unsubscribe, Consume, Quiet, vars, state, writers, wloop, frame, rloop, closers,
    fanout, ForceClose, MarkDone, CloseSocket, AlreadyClosed
<1>1. /\ WriteLoop \/ UNCHANGED wloop
      /\ WriteLoop \/ UNCHANGED <<writeCh, accepted>> \/ \E m \in Msgs : WriteAccepted(m)
  OBVIOUS
<1>2. /\ FlushGoodbye \/ EchoClose \/ UNCHANGED frame
      /\ UNCHANGED <<closing, flushMark>> \/ \E code \in CloseCodes : CloseWithCode(code)
      /\ ReadLoop \/ Peer \/ UNCHANGED rloop
  OBVIOUS
<1>3. /\ \/ UNCHANGED <<subs, chan>> \/ CloseSubscribers
         \/ \E s \in Subs : Subscribe(s) \/ Unsubscribe(s)
      /\ \/ UNCHANGED closeCode \/ ReadCloseFrame \/ ReadFails
         \/ \E code \in CloseCodes : CloseWithCode(code)
      /\ ReportDisconnect \/ UNCHANGED reported
  OBVIOUS
<1>4. (done => done') /\ (~netOpen => ~netOpen')
  OBVIOUS
<1>5. QED
  BY <1>1, <1>2, <1>3, <1>4

(* No step loses, repeats or reorders an accepted message. *)
LEMMA StepConservation ==
  TypeOK /\ LoopInv /\ Conservation /\ [Next]_vars => Conservation'
<1> SUFFICES ASSUME TypeOK, LoopInv, Conservation, [Next]_vars PROVE Conservation'
  OBVIOUS
<1> USE DEF Conservation, Held, wloop, writers
<1>0. /\ sent \in Seq(Msgs) /\ writeCh \in Seq(Msgs) /\ Held \in Seq(Msgs)
      /\ sent \o Held \in Seq(Msgs) /\ None \notin Msgs
  BY ConnAssumption, ConcatProperties DEF TypeOK
<1>1. CASE UNCHANGED <<accepted, sent, wmsg, writeCh>>
  BY <1>1
<1>2. ASSUME NEW m \in Msgs, WriteAccepted(m)
      PROVE  Conservation'
  <2>1. \A a, b \in Seq(Msgs) : a \o Append(b, m) = Append(a \o b, m)
    BY AppendConcat
  <2>2. /\ accepted' = Append(accepted, m) /\ writeCh' = Append(writeCh, m)
        /\ sent' = sent /\ wmsg' = wmsg
    BY <1>2 DEF WriteAccepted, Others
  <2>3. (sent \o Held) \o Append(writeCh, m) = Append((sent \o Held) \o writeCh, m)
    BY <1>0, <2>1
  <2>4. QED
    BY <2>2, <2>3
<1>3. ASSUME NEW from \in {"select", "flush"}, NEW to, TakeNext(from, to)
      PROVE  Conservation'
  <2>1. wmsg = None
    BY <1>3 DEF TakeNext, LoopInv
  <2>2. Head(writeCh) \in Msgs
    BY <1>0, <1>3, HeadTailProperties DEF TakeNext
  <2>3. (sent \o <<>>) \o writeCh = (sent \o <<Head(writeCh)>>) \o Tail(writeCh)
    BY <1>0, <1>3, TakeConcat DEF TakeNext
  <2>4. accepted = (sent \o <<>>) \o writeCh
    BY <2>1
  <2>5. /\ accepted' = accepted /\ sent' = sent /\ wmsg' = Head(writeCh)
        /\ writeCh' = Tail(writeCh)
    BY <1>3 DEF TakeNext
  <2>6. QED
    BY <1>0, <2>2, <2>3, <2>4, <2>5
<1>4. ASSUME NEW from \in {"send", "flushSend"}, NEW to, SendOK(from, to)
      PROVE  Conservation'
  <2>1. wmsg \in Msgs /\ wmsg # None
    BY <1>4 DEF SendOK, LoopInv, TypeOK
  <2>2. Append(sent, wmsg) \o <<>> = sent \o <<wmsg>>
    BY <1>0, <2>1, SendConcat
  <2>3. accepted' = accepted /\ sent' = Append(sent, wmsg) /\ wmsg' = None /\ writeCh' = writeCh
    BY <1>4 DEF SendOK
  <2>4. accepted = (sent \o <<wmsg>>) \o writeCh
    BY <2>1
  <2>5. QED
    BY <2>2, <2>3, <2>4
<1>5. ASSUME WriteLoop
      PROVE  Conservation'
  BY <1>1, <1>3, <1>4, <1>5 DEF WriteLoop, LoopTake, LoopSendOK, LoopTick, LoopPingOK,
    LoopStartFlush, LoopSeesDone, FlushTake, FlushSendOK, LoopWriteFails, FlushDone,
    FlushGoodbye, LoopMove, LoopForceClose
<1>6. QED
  BY <1>1, <1>2, <1>5, NextFrame

(* While a close frame is on its way, the queue was drained before it. *)
LEMMA StepFlushInv ==
  TypeOK /\ LoopInv /\ Conservation /\ FlushInv /\ GracefulFlush /\ [Next]_vars
    => FlushInv' /\ GracefulFlush'
<1> SUFFICES ASSUME TypeOK, LoopInv, Conservation, FlushInv, GracefulFlush, [Next]_vars
             PROVE  FlushInv' /\ GracefulFlush'
  OBVIOUS
<1> USE DEF FlushInv, GracefulFlush, wloop, writers, frame, closers
<1>0. Len(sent) \in Nat /\ Len(accepted) \in Nat /\ flushMark \in Nat
  BY LenProperties DEF TypeOK
<1>1. CASE UNCHANGED <<closing, flushMark, wpc, goodbye, sent, accepted>>
  BY <1>1
<1>2. ASSUME NEW m \in Msgs, WriteAccepted(m)
      PROVE  FlushInv' /\ GracefulFlush'
  <2>1. Len(accepted') = Len(accepted) + 1
    BY <1>2, AppendProperties DEF WriteAccepted, TypeOK
  <2>2. QED
    BY <1>0, <1>2, <2>1 DEF WriteAccepted, Others
<1>3. ASSUME NEW code \in CloseCodes, CloseWithCode(code)
      PROVE  FlushInv' /\ GracefulFlush'
  BY <1>0, <1>3 DEF CloseWithCode
<1>4. ASSUME NEW from, NEW to, SendOK(from, to),
             <<from, to>> \in {<<"send", "select">>, <<"flushSend", "flush">>}
      PROVE  FlushInv' /\ GracefulFlush'
  <2>1. wmsg \in Msgs
    BY <1>4 DEF SendOK, LoopInv, TypeOK
  <2>2. Len(sent') = Len(sent) + 1
    BY <1>4, <2>1, AppendProperties DEF SendOK, TypeOK
  <2>3. QED
    BY <1>0, <1>4, <2>2 DEF SendOK
<1>5. CASE FlushDone
  <2>1. accepted = sent
    <3>1. wmsg = None /\ writeCh = <<>>
      BY <1>5 DEF FlushDone, LoopInv
    <3>2. accepted = (sent \o <<>>) \o <<>>
      BY <3>1 DEF Conservation, Held
    <3>3. QED
      BY <3>2, ConcatEmptySeq DEF TypeOK
  <2>2. QED
    BY <1>0, <1>5, <2>1 DEF FlushDone
<1>6. CASE EchoClose
  BY <1>6 DEF EchoClose
<1>7. ASSUME WriteLoop
      PROVE  FlushInv' /\ GracefulFlush'
  BY <1>4, <1>5, <1>7 DEF WriteLoop, LoopTake, LoopSendOK, LoopTick, LoopPingOK,
    LoopStartFlush, LoopSeesDone, FlushTake, FlushSendOK, LoopWriteFails, TakeNext,
    FlushGoodbye, LoopMove, LoopForceClose, ForceClose
<1>8. QED
  BY <1>1, <1>2, <1>3, <1>6, <1>7, NextFrame DEF WriteAccepted, CloseWithCode, EchoClose, WriteLoop

(* No step leaves a closed channel in the list of subscribers. *)
LEMMA StepNoChannelPanic ==
  TypeOK /\ NoChannelPanic /\ [Next]_vars => NoChannelPanic'
<1> SUFFICES ASSUME TypeOK, NoChannelPanic, [Next]_vars PROVE NoChannelPanic'
  OBVIOUS
<1> USE DEF NoChannelPanic, TypeOK
<1>1. CASE UNCHANGED <<subs, chan>>
  BY <1>1
<1>2. ASSUME NEW s \in Subs, Subscribe(s) \/ Unsubscribe(s)
      PROVE  NoChannelPanic'
  BY <1>2 DEF Subscribe, Unsubscribe
<1>3. CASE CloseSubscribers
  BY <1>3 DEF CloseSubscribers
<1>4. QED
  BY <1>1, <1>2, <1>3, NextFrame

(* The read loop keeps a close code exactly while it handles one. *)
LEMMA StepReadInv ==
  TypeOK /\ SingleForceClose /\ ReadInv /\ [Next]_vars => ReadInv'
<1> SUFFICES ASSUME TypeOK, SingleForceClose, ReadInv, [Next]_vars PROVE ReadInv'
  OBVIOUS
<1> USE ConnAssumption DEF ReadInv, rloop
<1>1. (done => done') /\ (~netOpen => ~netOpen')
  BY NextFrame
<1>2. CASE UNCHANGED <<rpc, rcode, reported, closeCode>>
  BY <1>1, <1>2
<1>3. ASSUME NEW code \in CloseCodes, CloseWithCode(code)
      PROVE  ReadInv'
  BY <1>1, <1>3 DEF CloseWithCode
<1>4. CASE ReadStart \/ ReadStartFails \/ AnswerPing \/ AnswerPingFails \/ EchoClose
           \/ CloseSubscribers \/ ReadMessage \/ ReadFault
  BY <1>1, <1>4 DEF ReadStart, ReadStartFails, AnswerPing, AnswerPingFails, EchoClose,
    CloseSubscribers, ReadMessage, ReadFault, ReadMove
<1>5. CASE ReadFails \/ ReadEOF \/ ReadCloseFrame
  BY <1>1, <1>5 DEF ReadFails, ReadEOF, ReadCloseFrame, Codes, Abnormal
<1>6. CASE ReadForceClose
  BY <1>1, <1>6 DEF ReadForceClose, ForceClose, MarkDone, CloseSocket, AlreadyClosed, MuFree, state
<1>7. CASE ReportDisconnect
  BY <1>1, <1>7 DEF ReportDisconnect
<1>8. QED
  BY <1>2, <1>3, <1>4, <1>5, <1>6, <1>7, NextFrame DEF ReadLoop, Peer, ReportDisconnect

-----------------------------------------------------------------------------
(* IInv holds initially, is kept by every step, and implies the properties *)
(* that the runs check.                                                    *)
THEOREM InductiveInvariant == SafeSpec => []IInv
<1>1. Init => IInv
  <2> SUFFICES ASSUME Init PROVE IInv
    OBVIOUS
  <2>1. TypeOK
    BY InitType
  <2>2. Conservation
    BY ConcatEmptySeq DEF Init, Conservation, Held
  <2>3. GracefulFlush /\ FlushInv
    <3>1. flushMark <= Len(accepted)
      BY EmptySeq DEF Init
    <3>2. QED
      BY <3>1 DEF Init, GracefulFlush, FlushInv
  <2>4. NoChannelPanic
    BY ConnAssumption DEF Init, NoChannelPanic
  <2>5. SingleForceClose /\ LoopInv /\ ReadInv
    BY DEF Init, SingleForceClose, MuFree, LoopInv, ReadInv
  <2>6. QED
    BY <2>1, <2>2, <2>3, <2>4, <2>5 DEF IInv
<1>2. IInv /\ [Next]_vars => IInv'
  BY StepType, StepConservation, StepFlushInv, StepNoChannelPanic, StepSingleForceClose,
     StepLoopInv, StepReadInv DEF IInv
<1>3. QED
  BY <1>1, <1>2, PTL DEF SafeSpec

(* Write calls, the write loop and its flush lose, duplicate and reorder  *)
(* nothing between acceptance and the socket.                             *)
THEOREM MessagesConserved == SafeSpec => []Conservation
BY InductiveInvariant, PTL DEF IInv

(* A close frame sent by the flush follows every message accepted before  *)
(* CloseWithCode.                                                         *)
THEOREM CloseIsGraceful == SafeSpec => []GracefulFlush
BY InductiveInvariant, PTL DEF IInv

(* The read loop never sends on, or closes, a closed subscriber channel.  *)
THEOREM ChannelsSafe == SafeSpec => []NoChannelPanic
BY InductiveInvariant, PTL DEF IInv

(* Every variable stays in its domain and the queues within their          *)
(* capacities.                                                             *)
THEOREM TypeCorrect == SafeSpec => []TypeOK
BY InductiveInvariant, PTL DEF IInv

(* The code OnDisconnect got stays the connection's close code.           *)
THEOREM ReportIsFinal == SafeSpec => []ReportedIsFinal
<1>1. IInv => ReportedIsFinal
  BY DEF IInv, ReadInv, ReportedIsFinal
<1>2. QED
  BY <1>1, InductiveInvariant, PTL

-----------------------------------------------------------------------------
(* The message the write loop holds is the next one accepted after those sent. *)
LEMMA HeldIsNext ==
  ASSUME NEW S, NEW a \in Seq(S), NEW m \in S, NEW q \in Seq(S)
  PROVE  /\ Len(a) < Len((a \o <<m>>) \o q)
         /\ ((a \o <<m>>) \o q)[Len(a) + 1] = m
<1>1. /\ <<m>> \in Seq(S) /\ Len(<<m>>) = 1 /\ <<m>>[1] = m
      /\ Len(a) \in Nat /\ Len(q) \in Nat
  BY LenProperties
<1>2. /\ a \o <<m>> \in Seq(S) /\ Len(a \o <<m>>) = Len(a) + 1
      /\ (a \o <<m>>)[Len(a) + 1] = m
  BY <1>1, ConcatProperties
<1>3. QED
  BY <1>1, <1>2, ConcatProperties

(* A step of the connection is a step of OrderedLink or a stutter. *)
LEMMA StepSimulates == IInv /\ [Next]_vars => [Link!Next]_(Link!vars)
<1> SUFFICES ASSUME IInv, [Next]_vars PROVE [Link!Next]_(Link!vars)
  OBVIOUS
<1> DEFINE phase == IF ~netOpen THEN "closed" ELSE IF closing THEN "closing" ELSE "open"
<1> USE DEF Link!Next, Link!vars
<1>1. CASE UNCHANGED <<accepted, sent, netOpen, closing>>
  BY <1>1
<1>2. ASSUME NEW m \in Msgs, WriteAccepted(m)
      PROVE  Link!Accept
  BY <1>2 DEF WriteAccepted, Others, wloop, state, closers, Link!Accept
<1>3. ASSUME NEW from \in {"send", "flushSend"}, NEW to, SendOK(from, to)
      PROVE  Link!Transmit
  <2>1. wmsg \in Msgs /\ wmsg # None /\ sent \in Seq(Msgs) /\ writeCh \in Seq(Msgs)
    BY <1>3 DEF SendOK, IInv, LoopInv, TypeOK
  <2>2. accepted = (sent \o <<wmsg>>) \o writeCh
    BY <2>1 DEF IInv, Conservation, Held
  <2>3. Len(sent) < Len(accepted) /\ accepted[Len(sent) + 1] = wmsg
    BY <2>1, <2>2, HeldIsNext
  <2>4. /\ netOpen /\ sent' = Append(sent, wmsg)
        /\ UNCHANGED <<accepted, netOpen, closing>>
    BY <1>3 DEF SendOK, SocketTakes, writers, state, closers
  <2>5. QED
    BY <2>3, <2>4 DEF Link!Transmit
<1>4. ASSUME netOpen' # netOpen, LoopForceClose \/ ReadForceClose \/ CloserForceClose
      PROVE  Link!Finish
  BY <1>4 DEF LoopForceClose, ReadForceClose, CloserForceClose, ForceClose, MarkDone,
    CloseSocket, AlreadyClosed, state, writers, wloop, closers, IInv, TypeOK, Link!Finish
<1>5. ASSUME NEW code \in CloseCodes, CloseWithCode(code)
      PROVE  Link!BeginClose \/ UNCHANGED Link!vars
  BY <1>5 DEF CloseWithCode, writers, wloop, state, Link!BeginClose
<1>6. \/ UNCHANGED <<accepted, sent, netOpen, closing>>
      \/ \E m \in Msgs : WriteAccepted(m)
      \/ \E from \in {"send", "flushSend"} : \E to \in LoopPCs : SendOK(from, to)
      \/ netOpen' # netOpen /\ (LoopForceClose \/ ReadForceClose \/ CloserForceClose)
      \/ \E code \in CloseCodes : CloseWithCode(code)
  BY DEF WriteLoop, LoopTake, LoopSendOK, LoopTick, LoopPingOK, LoopStartFlush, LoopSeesDone,
    FlushTake, FlushSendOK, LoopWriteFails, FlushDone, FlushGoodbye, LoopForceClose, TakeNext,
    LoopMove, Next, ReadLoop, Peer, ReadStart, ReadStartFails, AnswerPing,
    AnswerPingFails, EchoClose, ReadFails, CloseSubscribers, ReadForceClose, ReportDisconnect,
    ReadMessage, ReadCloseFrame, ReadEOF, ReadFault, ReadMove, FlushTimeout, CloserForceClose,
    CloseReturns, CloserMove, WriteBegin, WriteRefused, Others, Subscribe, Unsubscribe, Consume,
    Quiet, vars, state, writers, wloop, closers, LoopPCs
<1>7. QED
  BY <1>1, <1>2, <1>3, <1>4, <1>5, <1>6

(* The sending side of a connection implements OrderedLink: what Write     *)
(* accepts goes to the socket in order, once, without gaps.                *)
THEOREM ConnectionIsLink == SafeSpec => Link!SafeSpec
<1>1. Init => Link!Init
  BY DEF Init, Link!Init
<1>2. QED
  BY <1>1, StepSimulates, InductiveInvariant, PTL DEF SafeSpec, Link!SafeSpec

===============================================================================

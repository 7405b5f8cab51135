-------------------------------- MODULE KVStore --------------------------------
(***************************************************************************)
(* The key-value store (internal/kv/store.go) as the built-ins kv-set,     *)
(* kv-get, kv-del, kv-list and gate use it. Values are numbered in the     *)
(* order in which they are set; time passing is the expiry of a value.     *)
(***************************************************************************)
EXTENDS Absent, Naturals, FiniteSets

CONSTANTS Keys, Readers,
          MaxSets,   \* bound: values set
          MaxReads   \* bound: reads

ASSUME KVAssumption == MaxSets \in Nat /\ MaxReads \in Nat /\ None \notin Nat

VARIABLES
  data,     \* for each key its value, or None
  mortal,   \* the values set with a ttl
  expired,  \* those whose time has passed
  get,      \* for each reader, the read it is in or what it got
  sets,     \* how many values were set
  reads,    \* how many reads there were
  removed   \* history: values overwritten or deleted

kvVars == <<data, mortal, expired, get, sets, reads, removed>>

NoGet == [pc |-> "idle", key |-> None, got |-> {}, stale |-> {}]

KVInit ==
  /\ data = [k \in Keys |-> None]
  /\ mortal = {} /\ expired = {}
  /\ get = [r \in Readers |-> NoGet]
  /\ sets = 0 /\ reads = 0 /\ removed = {}

At(k) == {data[k]} \ {None}

Set(k, ttl) ==
  /\ sets < MaxSets
  /\ sets' = sets + 1
  /\ data' = [data EXCEPT ![k] = sets']
  /\ mortal' = IF ttl THEN mortal \cup {sets'} ELSE mortal
  /\ removed' = removed \cup At(k)
  /\ UNCHANGED <<expired, get, reads>>

Delete(k) ==
  /\ data' = [data EXCEPT ![k] = None]
  /\ removed' = removed \cup At(k)
  /\ UNCHANGED <<mortal, expired, get, sets, reads>>

Expire(v) ==
  /\ v \in mortal \ expired
  /\ expired' = expired \cup {v}
  /\ UNCHANGED <<data, mortal, get, sets, reads, removed>>

(* The ticker of cleanupLoop. *)
Cleanup ==
  /\ data' = [k \in Keys |-> IF data[k] \in expired THEN None ELSE data[k]]
  /\ UNCHANGED <<mortal, expired, get, sets, reads, removed>>

-----------------------------------------------------------------------------
(* Get: a look under the read lock, the expiry test after it and, when it  *)
(* fails, a deletion of the key under the write lock.                      *)

Reads(r, pc, k, got) ==
  /\ get[r].pc \in {"idle", "returned"} /\ reads < MaxReads
  /\ reads' = reads + 1
  /\ get' = [get EXCEPT ![r] = [pc |-> pc, key |-> k, got |-> got, stale |-> removed \cup expired]]
  /\ UNCHANGED <<data, mortal, expired, sets, removed>>

Look(r, k) == Reads(r, IF data[k] = None THEN "returned" ELSE "test", k, At(k))

(* Mutant: no test. *)
TestNothing(r) ==
  /\ get[r].pc = "test"
  /\ get' = [get EXCEPT ![r].pc = "returned"]
  /\ UNCHANGED <<data, mortal, expired, sets, reads, removed>>

Test(r) ==
  /\ get[r].pc = "test"
  /\ get' = IF get[r].got \subseteq expired THEN [get EXCEPT ![r].pc = "evict", ![r].got = {}]
            ELSE [get EXCEPT ![r].pc = "returned"]
  /\ UNCHANGED <<data, mortal, expired, sets, reads, removed>>

(* Whatever the key holds by now is deleted, a value set since included. *)
Evict(r) ==
  /\ get[r].pc = "evict"
  /\ data' = [data EXCEPT ![get[r].key] = None]
  /\ get' = [get EXCEPT ![r].pc = "returned"]
  /\ UNCHANGED <<mortal, expired, sets, reads, removed>>

(* One critical section for all keys. *)
List(r) == Reads(r, "returned", None, {data[k] : k \in Keys} \ (expired \cup {None}))

-----------------------------------------------------------------------------
KVNext ==
  \/ \E k \in Keys, ttl \in BOOLEAN : Set(k, ttl)
  \/ \E k \in Keys : Delete(k)
  \/ \E v \in 1..MaxSets : Expire(v)
  \/ \E r \in Readers : Test(r) \/ Evict(r) \/ List(r) \/ \E k \in Keys : Look(r, k)
  \/ Cleanup

KVSpec == KVInit /\ [][KVNext]_kvVars

-----------------------------------------------------------------------------
(* Properties *)

(* A key holds a value that was set, and only one that is not overwritten. *)
KVTypeOK ==
  /\ data \in [Keys -> 1..sets \cup {None}]
  /\ expired \subseteq mortal /\ mortal \subseteq 1..sets /\ removed \subseteq 1..sets
  /\ \A k \in Keys : data[k] \notin removed
  /\ \A r \in Readers : get[r].pc \in {"idle", "test", "evict", "returned"} /\ get[r].got \subseteq 1..sets
  /\ sets \in 0..MaxSets /\ reads \in 0..MaxReads

(* A read returns no value that had been overwritten, deleted or expired   *)
(* before it began, however it overlaps with writers and other evictions.  *)
NothingStale == \A r \in Readers : get[r].pc = "returned" => get[r].got \cap get[r].stale = {}

=============================================================================

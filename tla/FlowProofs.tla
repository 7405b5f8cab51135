------------------------------- MODULE FlowProofs -------------------------------
(***************************************************************************)
(* Theorems about messages that are held back or passed on: the debounced  *)
(* handlers, the event streams and the relay, for any number of messages,  *)
(* events, producers and consumers and any capacities; and about what a    *)
(* client does when its link fails: its session, and the waits in between. *)
(***************************************************************************)
EXTENDS Debounce, Streams, Relay, Reconnect, Backoff, SequenceLemmas, FiniteSetTheorems

-----------------------------------------------------------------------------
(* Debounced handlers *)

Messages == 1..MaxMessages
Debouncers == [timer : Nat \cup {None}, pending : Messages \cup {None}, given : Seq(Messages), dropped : BOOLEAN]
Timers == [of : Nat, pc : {"armed", "fired", "stopped", "ended"}]
Holding == {m \in Messages : call[m] # None}

(* Every message that arrived is on its way to a debouncer or has armed a  *)
(* timer.                                                                  *)
DebShape ==
  /\ deb \in Seq(Debouncers) /\ timer \in Seq(Timers) /\ ran \in Seq(Messages)
  /\ call \in [Messages -> DOMAIN deb \cup {None}]
  /\ \A m \in Messages : call[m] # None => m <= debounced
  /\ Len(timer) + Cardinality(Holding) = debounced

(* A message is given once, to one debouncer, after its call is over.      *)
GivenOnce ==
  /\ \A d \in DOMAIN deb : \A i \in DOMAIN deb[d].given :
       deb[d].given[i] <= debounced /\ call[deb[d].given[i]] = None
  /\ \A d, e \in DOMAIN deb : \A i \in DOMAIN deb[d].given, j \in DOMAIN deb[e].given :
       deb[d].given[i] = deb[e].given[j] => d = e /\ i = j

(* What is pending is what the debouncer was given last.                   *)
PendingIsLast ==
  \A d \in DOMAIN deb :
    deb[d].pending # None =>
      LET g == deb[d].given IN g # <<>> /\ deb[d].pending = g[Len(g)]

(* What was taken had been given to a debouncer and is pending no more.    *)
TakenOnce ==
  \A k \in DOMAIN ran :
    /\ \E d \in DOMAIN deb : Given(d, ran[k])
    /\ \A d \in DOMAIN deb : ran[k] # deb[d].pending

DebounceInv ==
  DebounceTypeOK /\ DebShape /\ GivenOnce /\ PendingIsLast /\ TakenOnce /\ DebouncedInOrder

(* A message has one place among those given to its debouncer.             *)
LEMMA PlaceIsUnique ==
  ASSUME GivenOnce, NEW d \in DOMAIN deb, NEW i \in DOMAIN deb[d].given
  PROVE  Place(d, deb[d].given[i]) = i
BY DEF GivenOnce, Place

(* Places are kept while the messages given to a debouncer stay.           *)
LEMMA PlacesStay ==
  ASSUME DOMAIN deb \subseteq DOMAIN deb',
         \A d \in DOMAIN deb : deb'[d].given = deb[d].given,
         \A d \in DOMAIN deb' \ DOMAIN deb : deb'[d].given = <<>>
  PROVE  \A m : /\ \A d \in DOMAIN deb' : Given(d, m)' => d \in DOMAIN deb /\ Given(d, m)
                /\ \A d \in DOMAIN deb : (Given(d, m)' <=> Given(d, m)) /\ Place(d, m)' = Place(d, m)
BY DEF Given, Place

(* Stopping a timer changes no other field and no other timer.             *)
LEMMA StoppedTimers ==
  ASSUME NEW t, timer \in Seq(Timers)
  PROVE  /\ Stopped(t) \in Seq(Timers) /\ Len(Stopped(t)) = Len(timer) /\ DOMAIN Stopped(t) = DOMAIN timer
         /\ \A i \in DOMAIN timer : Stopped(t)[i].of = timer[i].of
<1> DEFINE one(i) == IF i = t /\ timer[i].pc = "armed" THEN [timer[i] EXCEPT !.pc = "stopped"] ELSE timer[i]
<1>1. Len(timer) \in Nat /\ DOMAIN timer = 1..Len(timer) /\ \A i \in DOMAIN timer : timer[i] \in Timers
  BY LenProperties, ElementOfSeq
<1>2. \A i \in DOMAIN timer : one(i) \in Timers /\ one(i).of = timer[i].of
  BY <1>1 DEF Timers
<1>3. Stopped(t) = [i \in 1..Len(timer) |-> one(i)]
  BY <1>1 DEF Stopped
<1> HIDE DEF one
<1>4. QED
  BY <1>1, <1>2, <1>3, IsASeq

(* Every step of the debouncers keeps the invariant.                       *)
LEMMA StepDebounce == DebounceInv /\ [DebounceNext]_debVars => DebounceInv'
<1> SUFFICES ASSUME DebounceInv, [DebounceNext]_debVars PROVE DebounceInv'
  OBVIOUS
<1> USE DebounceAssumption
<1>0. /\ Len(deb) \in Nat /\ DOMAIN deb = 1..Len(deb) /\ \A d \in DOMAIN deb : deb[d] \in Debouncers
      /\ Len(timer) \in Nat /\ DOMAIN timer = 1..Len(timer) /\ \A t \in DOMAIN timer : timer[t] \in Timers
      /\ Len(ran) \in Nat /\ DOMAIN ran = 1..Len(ran) /\ \A k \in DOMAIN ran : ran[k] \in Messages
      /\ IsFiniteSet(Holding) /\ Cardinality(Holding) \in Nat
  <2>1. IsFiniteSet(Messages)
    BY FS_Interval DEF Messages
  <2>2. IsFiniteSet(Holding)
    BY <2>1, FS_Subset DEF Holding
  <2>3. Cardinality(Holding) \in Nat
    BY <2>2, FS_CardinalityType
  <2>4. QED
    BY <2>2, <2>3, LenProperties, ElementOfSeq DEF DebounceInv, DebShape
<1>a. \A d \in DOMAIN deb : /\ Len(deb[d].given) \in Nat /\ DOMAIN deb[d].given = 1..Len(deb[d].given)
                            /\ \A i \in DOMAIN deb[d].given : deb[d].given[i] \in Messages
  BY <1>0, LenProperties, ElementOfSeq DEF Debouncers
<1>1. CASE Find
  <2>1. /\ debounced' = debounced + 1 /\ debounced' \in Messages /\ debounced' \in 0..MaxMessages
        /\ timer' = timer /\ ran' = ran /\ drops' = drops /\ drops \in 0..MaxDrops /\ debounced \in Nat
    BY <1>1 DEF Find, DebounceInv, DebounceTypeOK, Messages
  <2>2. \/ /\ debouncer = None /\ deb' = Append(deb, NewDebouncer) /\ debouncer' = Len(deb) + 1
        \/ /\ deb' = deb /\ debouncer' = debouncer /\ debouncer \in DOMAIN deb
    BY <1>1 DEF Find, DebounceInv, DebounceTypeOK
  <2>3. NewDebouncer \in Debouncers /\ NewDebouncer.given = <<>> /\ NewDebouncer.pending = None /\ NewDebouncer.timer = None
    BY DEF NewDebouncer, Debouncers
  <2>4. /\ deb' \in Seq(Debouncers) /\ DOMAIN deb \subseteq DOMAIN deb' /\ debouncer' \in DOMAIN deb'
        /\ \A d \in DOMAIN deb : deb'[d] = deb[d]
        /\ \A d \in DOMAIN deb' \ DOMAIN deb : deb'[d] = NewDebouncer
    <3>1. CASE deb' = deb /\ debouncer' = debouncer /\ debouncer \in DOMAIN deb
      BY <3>1 DEF DebounceInv, DebShape
    <3>2. CASE deb' = Append(deb, NewDebouncer) /\ debouncer' = Len(deb) + 1
      BY <1>0, <2>3, <3>2, AppendProperties DEF DebounceInv, DebShape
    <3>3. QED
      BY <2>2, <3>1, <3>2
  <2>5. /\ call' = [call EXCEPT ![debounced + 1] = debouncer'] /\ call[debounced + 1] = None
        /\ DOMAIN deb' \subseteq Nat /\ None \notin DOMAIN deb'
    <3>1. call[debounced + 1] = None
      BY <2>1 DEF DebounceInv, DebShape
    <3>2. DOMAIN deb' \subseteq Nat
      BY <2>4, LenProperties
    <3>3. QED
      BY <1>1, <2>1, <3>1, <3>2 DEF Find
  <2>6. /\ call' \in [Messages -> DOMAIN deb' \cup {None}]
        /\ \A m \in Messages : call'[m] # None => m <= debounced'
        /\ Holding' = Holding \cup {debounced + 1} /\ debounced + 1 \notin Holding
    <3>1. call \in [Messages -> DOMAIN deb \cup {None}] /\ \A m \in Messages : call[m] # None => m <= debounced
      BY DEF DebounceInv, DebShape
    <3>2. \A m \in Messages : call'[m] = IF m = debounced + 1 THEN debouncer' ELSE call[m]
      BY <2>5, <3>1
    <3>3. call' \in [Messages -> DOMAIN deb' \cup {None}]
      BY <2>4, <2>5, <3>1
    <3>4. ASSUME NEW m \in Messages, call'[m] # None
          PROVE  m <= debounced'
      BY <2>1, <3>1, <3>2, <3>4 DEF Messages
    <3>5. debouncer' # None
      BY <2>4, <2>5
    <3>6. Holding' = {m \in Messages : call'[m] # None}
      BY DEF Holding, Messages
    <3>7. QED
      BY <2>1, <2>5, <3>2, <3>3, <3>4, <3>5, <3>6 DEF Holding
  <2>7. Len(timer) + Cardinality(Holding') = debounced'
    <3>1. Cardinality(Holding \cup {debounced + 1}) = Cardinality(Holding) + 1
      BY <1>0, <2>6, FS_AddElement
    <3>2. QED
      BY <1>0, <2>1, <2>6, <3>1 DEF DebounceInv, DebShape
  <2>8. DebShape'
    BY <2>1, <2>4, <2>6, <2>7 DEF DebounceInv, DebShape, Messages, Debouncers
  <2>9. DebounceTypeOK'
    <3>1. \A d \in DOMAIN deb' : /\ deb'[d].timer \in DOMAIN timer \cup {None}
                                 /\ deb'[d].pending # None => deb'[d].pending \in 1..debounced'
      BY <2>1, <2>3, <2>4 DEF DebounceInv, DebounceTypeOK
    <3>2. \A t \in DOMAIN timer : timer[t].of \in DOMAIN deb' /\ timer[t].pc \in {"armed", "fired", "stopped", "ended"}
      BY <2>4 DEF DebounceInv, DebounceTypeOK
    <3>3. Len(timer) <= debounced'
      BY <1>0, <2>1 DEF DebounceInv, DebounceTypeOK
    <3>4. QED
      BY <2>1, <2>4, <3>1, <3>2, <3>3 DEF DebounceTypeOK
  <2>10. /\ \A d \in DOMAIN deb : deb'[d].given = deb[d].given
         /\ \A d \in DOMAIN deb' \ DOMAIN deb : deb'[d].given = <<>> /\ deb'[d].pending = None
    BY <2>3, <2>4
  <2>11. GivenOnce'
    <3>1. \A d \in DOMAIN deb' : \A i \in DOMAIN deb'[d].given : d \in DOMAIN deb /\ deb'[d].given = deb[d].given
      BY <2>10
    <3>2. \A d \in DOMAIN deb : \A i \in DOMAIN deb[d].given :
            deb[d].given[i] \in Messages /\ deb[d].given[i] <= debounced /\ call[deb[d].given[i]] = None
      BY <1>a DEF DebounceInv, GivenOnce
    <3>3. \A m \in Messages : m <= debounced => m <= debounced' /\ call'[m] = call[m]
      BY <2>1, <2>5 DEF Messages, DebounceInv, DebShape
    <3>4. QED
      BY <3>1, <3>2, <3>3 DEF DebounceInv, GivenOnce
  <2>12. PendingIsLast'
    BY <2>4, <2>10 DEF DebounceInv, PendingIsLast
  <2>13. TakenOnce' /\ DebouncedInOrder'
    <3>1. \A m : /\ \A d \in DOMAIN deb' : Given(d, m)' => d \in DOMAIN deb /\ Given(d, m)
                 /\ \A d \in DOMAIN deb : (Given(d, m)' <=> Given(d, m)) /\ Place(d, m)' = Place(d, m)
      BY <2>4, <2>10, PlacesStay
    <3>2. \A k \in DOMAIN ran : ran[k] # None
      BY <1>0 DEF Messages
    <3>3. TakenOnce'
      BY <2>1, <2>4, <2>10, <3>1, <3>2 DEF DebounceInv, TakenOnce
    <3>4. DebouncedInOrder'
      BY <2>1, <3>1 DEF DebounceInv, DebouncedInOrder
    <3>5. QED
      BY <3>3, <3>4
  <2>14. QED
    BY <2>8, <2>9, <2>11, <2>12, <2>13 DEF DebounceInv
<1>2. ASSUME NEW m \in Messages, Arm(m)
      PROVE  DebounceInv'
  <2> DEFINE d == call[m]
             s == Stopped(deb[d].timer)
             t == [of |-> d, pc |-> "armed"]
             after == [timer |-> Len(timer) + 1, pending |-> m,
                       given |-> Append(deb[d].given, m), dropped |-> deb[d].dropped]
  <2>1. /\ d \in DOMAIN deb /\ timer' = Append(s, t) /\ debouncer' = debouncer /\ debounced' = debounced
        /\ ran' = ran /\ drops' = drops /\ call' = [call EXCEPT ![m] = None] /\ call[m] # None /\ m <= debounced
    BY <1>2 DEF Arm, DebounceInv, DebShape
  <2>2. deb' = [deb EXCEPT ![d] = after]
    BY <1>2 DEF Arm
  <2>3. after \in Debouncers /\ t \in Timers
    BY <1>0, <2>1, AppendProperties DEF Debouncers, Timers
  <2>4. /\ after.pending = m /\ after.timer = Len(timer) + 1 /\ after.given = Append(deb[d].given, m)
        /\ deb[d].given \in Seq(Messages)
    BY <1>0, <2>1 DEF Debouncers
  <2>5. s \in Seq(Timers) /\ Len(s) = Len(timer) /\ DOMAIN s = DOMAIN timer /\ \A i \in DOMAIN timer : s[i].of = timer[i].of
    BY StoppedTimers DEF DebounceInv, DebShape
  <2> HIDE DEF s, t, after
  <2>6. /\ deb' \in Seq(Debouncers) /\ DOMAIN deb' = DOMAIN deb /\ deb'[d] = after
        /\ \A e \in DOMAIN deb : e # d => deb'[e] = deb[e]
    BY <2>1, <2>2, <2>3, ExceptSeq DEF DebounceInv, DebShape
  <2>7. /\ timer' \in Seq(Timers) /\ Len(timer') = Len(timer) + 1 /\ DOMAIN timer' = 1..Len(timer) + 1
        /\ \A i \in DOMAIN timer : timer'[i] = s[i]
        /\ timer'[Len(timer) + 1] = t
    BY <1>0, <2>1, <2>3, <2>5, AppendProperties, LenProperties
  <2>8. \A x \in Messages : call'[x] = IF x = m THEN None ELSE call[x]
    BY <2>1 DEF DebounceInv, DebShape
  <2>9. Len(timer') + Cardinality(Holding') = debounced'
    <3>1. Holding' = {x \in Messages : call'[x] # None}
      BY DEF Holding, Messages
    <3>2. Holding' = Holding \ {m} /\ m \in Holding
      BY <2>1, <2>8, <3>1 DEF Holding
    <3>3. Cardinality(Holding \ {m}) = Cardinality(Holding) - 1
      BY <1>0, <3>2, FS_RemoveElement
    <3>4. QED
      BY <1>0, <2>1, <2>7, <3>2, <3>3 DEF DebounceInv, DebShape
  <2>10. DebShape'
    <3>1. call' \in [Messages -> DOMAIN deb \cup {None}]
      BY <2>1 DEF DebounceInv, DebShape
    <3>2. \A x \in Messages : call'[x] # None => x <= debounced'
      BY <2>1, <2>8 DEF DebounceInv, DebShape
    <3>3. QED
      BY <2>1, <2>6, <2>7, <2>9, <3>1, <3>2 DEF DebounceInv, DebShape, Messages, Debouncers, Timers
  <2>11. DebounceTypeOK'
    <3>1. \A e \in DOMAIN deb : /\ deb'[e].timer \in DOMAIN timer' \cup {None}
                                /\ deb'[e].pending # None => deb'[e].pending \in 1..debounced'
      <4>1. DOMAIN timer \subseteq DOMAIN timer' /\ Len(timer) + 1 \in DOMAIN timer'
        BY <1>0, <2>7
      <4>2. m \in 1..debounced'
        BY <2>1 DEF Messages, DebounceInv, DebounceTypeOK
      <4>3. QED
        BY <2>1, <2>4, <2>6, <4>1, <4>2, SMTT(40) DEF DebounceInv, DebounceTypeOK
    <3>2. ASSUME NEW i \in DOMAIN timer'
          PROVE  timer'[i].of \in DOMAIN deb' /\ timer'[i].pc \in {"armed", "fired", "stopped", "ended"}
      <4>1. timer'[i] \in Timers
        BY <2>7, ElementOfSeq, LenProperties
      <4>2. CASE i \in DOMAIN timer
        BY <2>5, <2>6, <2>7, <4>1, <4>2 DEF Timers, DebounceInv, DebounceTypeOK
      <4>3. CASE i = Len(timer) + 1
        BY <2>1, <2>6, <2>7, <4>1, <4>3 DEF Timers, t
      <4>4. QED
        BY <1>0, <2>7, <4>2, <4>3
    <3>3. Len(timer') <= debounced'
      <4>1. IsFiniteSet(Holding') /\ Cardinality(Holding') \in Nat
        <5>1. Holding' \subseteq Messages
          BY DEF Holding, Messages
        <5>2. QED
          <6>1. IsFiniteSet(Messages)
            BY FS_Interval DEF Messages
          <6>2. IsFiniteSet(Holding')
            BY <5>1, <6>1, FS_Subset
          <6>3. QED
            BY <6>2, FS_CardinalityType
      <4>2. QED
        BY <1>0, <2>7, <2>9, <4>1
    <3>4. QED
      BY <2>1, <2>6, <3>1, <3>2, <3>3 DEF DebounceInv, DebounceTypeOK
  <2>12. /\ DOMAIN after.given = 1..Len(deb[d].given) + 1
         /\ Len(after.given) = Len(deb[d].given) + 1
         /\ \A i \in DOMAIN deb[d].given : after.given[i] = deb[d].given[i]
         /\ after.given[Len(deb[d].given) + 1] = m
    <3>1. /\ Len(Append(deb[d].given, m)) = Len(deb[d].given) + 1
          /\ DOMAIN Append(deb[d].given, m) = 1..Len(deb[d].given) + 1
          /\ \A i \in 1..Len(deb[d].given) : Append(deb[d].given, m)[i] = deb[d].given[i]
          /\ Append(deb[d].given, m)[Len(deb[d].given) + 1] = m
      BY <2>4, AppendProperties, LenProperties
    <3>2. QED
      BY <1>a, <2>1, <2>4, <3>1
  <2>13. \A e \in DOMAIN deb : \A i \in DOMAIN deb[e].given : deb[e].given[i] # m
    BY <2>1 DEF DebounceInv, GivenOnce
  <2>14. \A e \in DOMAIN deb : \A i \in DOMAIN deb'[e].given :
           \/ i \in DOMAIN deb[e].given /\ deb'[e].given[i] = deb[e].given[i]
           \/ e = d /\ i = Len(deb[d].given) + 1 /\ deb'[e].given[i] = m
    BY <1>a, <2>1, <2>6, <2>12, SMTT(40)
  <2>15. \A e \in DOMAIN deb : \A i \in DOMAIN deb[e].given : i \in DOMAIN deb'[e].given /\ deb'[e].given[i] = deb[e].given[i]
    BY <1>a, <2>1, <2>6, <2>12, SMTT(40)
  <2>16. GivenOnce'
    <3>1. ASSUME NEW e \in DOMAIN deb, NEW i \in DOMAIN deb'[e].given
          PROVE  deb'[e].given[i] <= debounced' /\ call'[deb'[e].given[i]] = None
      <4>1. CASE i \in DOMAIN deb[e].given /\ deb'[e].given[i] = deb[e].given[i]
        BY <1>a, <2>1, <2>8, <4>1 DEF DebounceInv, GivenOnce
      <4>2. CASE deb'[e].given[i] = m
        BY <2>1, <2>8, <4>2
      <4>3. QED
        BY <2>14, <3>1, <4>1, <4>2
    <3>2. ASSUME NEW e \in DOMAIN deb, NEW f \in DOMAIN deb,
                 NEW i \in DOMAIN deb'[e].given, NEW j \in DOMAIN deb'[f].given, deb'[e].given[i] = deb'[f].given[j]
          PROVE  e = f /\ i = j
      BY <2>13, <2>14, <3>2 DEF DebounceInv, GivenOnce
    <3>3. QED
      BY <2>6, <3>1, <3>2 DEF GivenOnce
  <2>17. PendingIsLast'
    <3>1. after.given # <<>> /\ after.pending = after.given[Len(after.given)]
      <4>1. Len(after.given) # 0
        BY <1>a, <2>1, <2>12
      <4>2. QED
        BY <2>4, <2>12, <4>1, EmptySeq
    <3>2. QED
      BY <2>6, <3>1 DEF DebounceInv, PendingIsLast
  <2>18. \A k \in DOMAIN ran : \A e \in DOMAIN deb : (Given(e, ran[k])' <=> Given(e, ran[k])) /\ Place(e, ran[k])' = Place(e, ran[k])
    <3> SUFFICES ASSUME NEW k \in DOMAIN ran, NEW e \in DOMAIN deb
                 PROVE  (Given(e, ran[k])' <=> Given(e, ran[k])) /\ Place(e, ran[k])' = Place(e, ran[k])
      OBVIOUS
    <3>1. ran[k] # m
      BY <2>13 DEF DebounceInv, TakenOnce, Given
    <3>2. \A i : i \in DOMAIN deb'[e].given /\ deb'[e].given[i] = ran[k] <=> i \in DOMAIN deb[e].given /\ deb[e].given[i] = ran[k]
      BY <2>14, <2>15, <3>1
    <3>3. QED
      BY <2>1, <3>2 DEF Given, Place
  <2>19. TakenOnce'
    <3>1. \A k \in DOMAIN ran : ran[k] # m
      BY <2>13 DEF DebounceInv, TakenOnce, Given
    <3>2. QED
      BY <2>1, <2>4, <2>6, <2>18, <3>1 DEF DebounceInv, TakenOnce
  <2>20. DebouncedInOrder'
    BY <2>1, <2>6, <2>18 DEF DebounceInv, DebouncedInOrder
  <2>21. QED
    BY <2>10, <2>11, <2>16, <2>17, <2>19, <2>20 DEF DebounceInv
<1>3. ASSUME NEW t \in DOMAIN timer, Fire(t)
      PROVE  DebounceInv'
  <2>1. /\ UNCHANGED <<debouncer, deb, call, debounced, ran, drops>> /\ t \in DOMAIN timer
        /\ timer' = [timer EXCEPT ![t].pc = "fired"]
    BY <1>3 DEF Fire
  <2>3. /\ timer' \in Seq(Timers) /\ Len(timer') = Len(timer) /\ DOMAIN timer' = DOMAIN timer
        /\ \A i \in DOMAIN timer : timer'[i].of = timer[i].of /\ timer'[i] \in Timers
    <3> DEFINE r == [timer[t] EXCEPT !.pc = "fired"]
    <3>0. timer \in Seq(Timers) /\ t \in 1..Len(timer) /\ DOMAIN timer = 1..Len(timer)
      BY <1>0 DEF DebounceInv, DebShape
    <3>1. timer' = [timer EXCEPT ![t] = r]
      BY <2>1
    <3>2. r \in Timers /\ r.of = timer[t].of
      BY <1>0, <2>1 DEF Timers
    <3> HIDE DEF r
    <3>3. QED
      <4>1. timer \in Seq(Timers) /\ timer' \in Seq(Timers) /\ Len(timer') = Len(timer)
            /\ DOMAIN timer' = DOMAIN timer /\ timer'[t] = r
            /\ \A i \in DOMAIN timer : i # t => timer'[i] = timer[i]
        BY ONLY <3>0, <3>1, <3>2, ExceptSeq
      <4>2. QED
        BY <1>0, <3>2, <4>1
  <2>4. DebounceTypeOK'
    BY <2>1, <2>3 DEF DebounceInv, DebounceTypeOK, Timers
  <2>5. DebShape'
    BY <2>1, <2>3 DEF DebounceInv, DebShape, Messages, Debouncers, Timers, Holding
  <2>6. GivenOnce' /\ PendingIsLast'
    BY <2>1 DEF DebounceInv, GivenOnce, PendingIsLast
  <2>7. TakenOnce' /\ DebouncedInOrder'
    <3>1. \A x : \A e \in DOMAIN deb : (Given(e, x)' <=> Given(e, x)) /\ Place(e, x)' = Place(e, x)
      BY <2>1, PlacesStay
    <3>2. QED
      BY <2>1, <3>1 DEF DebounceInv, TakenOnce, DebouncedInOrder
  <2>8. QED
    BY <2>4, <2>5, <2>6, <2>7 DEF DebounceInv
<1>4. ASSUME NEW t \in DOMAIN timer, TakePending(t)
      PROVE  DebounceInv'
  <2> DEFINE d == timer[t].of
             p == deb[d].pending
             after == [[deb[d] EXCEPT !.timer = None] EXCEPT !.pending = None]
  <2>1. /\ d \in DOMAIN deb /\ UNCHANGED <<debouncer, call, debounced, drops>> /\ t \in DOMAIN timer
        /\ timer' = [timer EXCEPT ![t].pc = "ended"]
        /\ ran' = IF p = None THEN ran ELSE Append(ran, p)
    BY <1>4 DEF TakePending, DebounceInv, DebounceTypeOK
  <2>2. deb' = [deb EXCEPT ![d] = after]
    BY <1>4 DEF TakePending
  <2>3. after \in Debouncers /\ after.given = deb[d].given /\ after.pending = None /\ after.timer = None
    BY <1>0, <2>1 DEF Debouncers
  <2> HIDE DEF after
  <2>4. /\ timer' \in Seq(Timers) /\ Len(timer') = Len(timer) /\ DOMAIN timer' = DOMAIN timer
        /\ \A i \in DOMAIN timer : timer'[i].of = timer[i].of /\ timer'[i] \in Timers
    <3> DEFINE r == [timer[t] EXCEPT !.pc = "ended"]
    <3>0. timer \in Seq(Timers) /\ t \in 1..Len(timer) /\ DOMAIN timer = 1..Len(timer)
      BY <1>0 DEF DebounceInv, DebShape
    <3>1. timer' = [timer EXCEPT ![t] = r]
      BY <2>1
    <3>2. r \in Timers /\ r.of = timer[t].of
      BY <1>0, <2>1 DEF Timers
    <3> HIDE DEF r
    <3>3. QED
      <4>1. timer \in Seq(Timers) /\ timer' \in Seq(Timers) /\ Len(timer') = Len(timer)
            /\ DOMAIN timer' = DOMAIN timer /\ timer'[t] = r
            /\ \A i \in DOMAIN timer : i # t => timer'[i] = timer[i]
        BY ONLY <3>0, <3>1, <3>2, ExceptSeq
      <4>2. QED
        BY <1>0, <3>2, <4>1
  <2>5. /\ deb' \in Seq(Debouncers) /\ DOMAIN deb' = DOMAIN deb
        /\ deb'[d].pending = None /\ deb'[d].timer = None /\ deb'[d].given = deb[d].given
        /\ \A e \in DOMAIN deb : e # d => deb'[e] = deb[e]
    BY <2>1, <2>2, <2>3, ExceptSeq DEF DebounceInv, DebShape
  <2>6. \A e \in DOMAIN deb : /\ deb'[e].given = deb[e].given /\ deb'[e].pending \in {deb[e].pending, None}
                              /\ deb'[e].timer \in {deb[e].timer, None}
    BY <2>5
  <2>7. p \in Messages \cup {None} /\ ran' \in Seq(Messages)
    <3>1. p \in Messages \cup {None} /\ ran \in Seq(Messages)
      BY <1>0, <2>1 DEF Debouncers, DebounceInv, DebShape
    <3>2. QED
      BY <2>1, <3>1, AppendProperties
  <2>8. DebounceTypeOK'
    BY <2>1, <2>4, <2>5, <2>6 DEF DebounceInv, DebounceTypeOK, Timers
  <2>9. DebShape'
    BY <2>1, <2>4, <2>5, <2>7 DEF DebounceInv, DebShape, Messages, Debouncers, Timers, Holding
  <2>10. GivenOnce'
    BY <2>1, <2>5, <2>6, SMTT(40) DEF DebounceInv, GivenOnce
  <2>11. PendingIsLast'
    BY <2>5, <2>6 DEF DebounceInv, PendingIsLast
  <2>12. \A m : \A e \in DOMAIN deb : (Given(e, m)' <=> Given(e, m)) /\ Place(e, m)' = Place(e, m)
    BY <2>5, <2>6, PlacesStay
  <2>13. \A k \in DOMAIN ran, e \in DOMAIN deb : ran[k] \in Messages /\ ran[k] # deb'[e].pending
    BY <1>0, <2>6, SMTT(40) DEF DebounceInv, TakenOnce, Messages
  <2>14. CASE p = None
    <3>1. ran' = ran
      BY <2>1, <2>14
    <3>2. TakenOnce'
      BY <2>5, <2>12, <2>13, <3>1 DEF DebounceInv, TakenOnce
    <3>3. DebouncedInOrder'
      BY <2>5, <2>12, <3>1 DEF DebounceInv, DebouncedInOrder
    <3>4. QED
      BY <2>8, <2>9, <2>10, <2>11, <3>2, <3>3 DEF DebounceInv
  <2>15. CASE p # None
    <3>1. /\ Len(ran') = Len(ran) + 1 /\ DOMAIN ran' = 1..Len(ran) + 1 /\ ran'[Len(ran) + 1] = p
          /\ \A k \in DOMAIN ran : ran'[k] = ran[k]
      BY <1>0, <2>1, <2>7, <2>15, AppendProperties DEF DebounceInv, DebShape
    <3> DEFINE g == deb[d].given
               n == Len(g)
    <3>2. n \in DOMAIN g /\ p = g[n] /\ p \in Messages /\ n \in Nat
      BY <1>a, <2>1, <2>7, <2>15, LenProperties, EmptySeq DEF DebounceInv, PendingIsLast
    <3>3. Given(d, p) /\ Place(d, p) = n
      BY <2>1, <3>2, PlaceIsUnique DEF Given, DebounceInv
    <3>4. \A e \in DOMAIN deb : Given(e, p) => e = d
      BY <2>1, <3>2 DEF DebounceInv, GivenOnce, Given
    <3>5. \A e \in DOMAIN deb : e # d => p # deb[e].pending
      <4> SUFFICES ASSUME NEW e \in DOMAIN deb, p = deb[e].pending PROVE e = d
        OBVIOUS
      <4>1. Len(deb[e].given) \in DOMAIN deb[e].given /\ p = deb[e].given[Len(deb[e].given)]
        BY <1>a, <2>15, EmptySeq, LenProperties DEF DebounceInv, PendingIsLast
      <4>2. QED
        BY <3>4, <4>1 DEF Given
    <3>6. \A k \in DOMAIN ran : ran[k] # p
      BY <2>1 DEF DebounceInv, TakenOnce
    <3>7. TakenOnce'
      <4>1. \A e \in DOMAIN deb : p # deb'[e].pending
        BY <2>3, <2>5, <3>5, <3>2 DEF Messages
      <4>2. ASSUME NEW k \in DOMAIN ran'
            PROVE  /\ \E e \in DOMAIN deb : Given(e, ran'[k])
                   /\ \A e \in DOMAIN deb : ran'[k] # deb'[e].pending
        <5>1. CASE k \in DOMAIN ran
          BY <2>13, <3>1, <5>1 DEF DebounceInv, TakenOnce
        <5>2. CASE k = Len(ran) + 1
          BY <2>1, <3>1, <3>3, <4>1, <5>2
        <5>3. QED
          BY <1>0, <3>1, <5>1, <5>2
      <4>3. \A k \in DOMAIN ran' : \E e \in DOMAIN deb' : Given(e, ran[k])'
        BY <2>5, <2>12, <4>2
      <4>4. QED
        BY <2>5, <4>2, <4>3 DEF TakenOnce
    <3>8. DebouncedInOrder'
      <4>1. ASSUME NEW i \in DOMAIN ran', NEW j \in DOMAIN ran', i < j
            PROVE  /\ ran'[i] # ran'[j]
                   /\ \A e \in DOMAIN deb : Given(e, ran'[i]) /\ Given(e, ran'[j]) => Place(e, ran'[i]) < Place(e, ran'[j])
        <5>1. i \in DOMAIN ran /\ ran'[i] = ran[i]
          BY <1>0, <3>1, <4>1
        <5>2. CASE j \in DOMAIN ran
          BY <3>1, <4>1, <5>1, <5>2 DEF DebounceInv, DebouncedInOrder
        <5>3. CASE j = Len(ran) + 1
          <6>1. ran'[j] = p /\ ran'[i] # p
            BY <3>1, <3>6, <5>1, <5>3
          <6>2. ASSUME Given(d, ran'[i])
                PROVE  Place(d, ran'[i]) < n
            <7>1. PICK l \in DOMAIN g : g[l] = ran'[i]
              BY <6>2 DEF Given
            <7>2. Place(d, ran'[i]) = l /\ l # n
              BY <2>1, <3>2, <6>1, <7>1, PlaceIsUnique DEF DebounceInv
            <7>3. QED
              BY <1>a, <2>1, <7>1, <7>2
          <6>3. QED
            BY <3>3, <3>4, <6>1, <6>2
        <5>4. QED
          BY <1>0, <3>1, <5>2, <5>3
      <4>2. \A i \in DOMAIN ran', e \in DOMAIN deb :
              (Given(e, ran[i])' <=> Given(e, ran'[i])) /\ Place(e, ran[i])' = Place(e, ran'[i])
        BY <2>12 DEF Given, Place
      <4>3. QED
        BY <2>5, <4>1, <4>2 DEF DebouncedInOrder
    <3>9. QED
      BY <2>8, <2>9, <2>10, <2>11, <3>7, <3>8 DEF DebounceInv
  <2>16. QED
    BY <2>14, <2>15
<1>5. CASE DropDebouncer
  <2> DEFINE d == debouncer
             s == Stopped(deb[d].timer)
  <2>1. /\ d \in DOMAIN deb /\ UNCHANGED <<call, debounced, ran>> /\ debouncer' = None
        /\ drops' \in 0..MaxDrops /\ timer' = s /\ deb' = [deb EXCEPT ![d].dropped = TRUE]
    BY <1>5 DEF DropDebouncer, DebounceInv, DebounceTypeOK
  <2>4. s \in Seq(Timers) /\ Len(s) = Len(timer) /\ DOMAIN s = DOMAIN timer /\ \A i \in DOMAIN timer : s[i].of = timer[i].of
    BY StoppedTimers DEF DebounceInv, DebShape
  <2> HIDE DEF s
  <2>5. /\ deb' \in Seq(Debouncers) /\ DOMAIN deb' = DOMAIN deb
        /\ deb'[d].timer = deb[d].timer /\ deb'[d].pending = deb[d].pending /\ deb'[d].given = deb[d].given
        /\ \A e \in DOMAIN deb : e # d => deb'[e] = deb[e]
    <3> DEFINE r == [deb[d] EXCEPT !.dropped = TRUE]
    <3>0. deb \in Seq(Debouncers) /\ d \in 1..Len(deb) /\ DOMAIN deb = 1..Len(deb)
      BY <1>0, <2>1 DEF DebounceInv, DebShape
    <3>1. deb' = [deb EXCEPT ![d] = r]
      BY <2>1
    <3>2. r \in Debouncers /\ r.timer = deb[d].timer /\ r.pending = deb[d].pending /\ r.given = deb[d].given
      BY <1>0, <2>1 DEF Debouncers
    <3> HIDE DEF r
    <3>3. QED
      <4>1. /\ deb' \in Seq(Debouncers) /\ DOMAIN deb' = DOMAIN deb /\ deb'[d] = r
            /\ \A e \in DOMAIN deb : e # d => deb'[e] = deb[e]
        BY ONLY <3>0, <3>1, <3>2, ExceptSeq
      <4>2. QED
        BY <3>2, <4>1
  <2>6. \A e \in DOMAIN deb : deb'[e].given = deb[e].given /\ deb'[e].pending = deb[e].pending /\ deb'[e].timer = deb[e].timer
    BY <2>5
  <2>7. DebounceTypeOK'
    <3>1. \A i \in DOMAIN s : s[i] \in Timers
      BY <2>4, ElementOfSeq, LenProperties
    <3>2. QED
      BY <2>1, <2>4, <2>5, <2>6, <3>1 DEF DebounceInv, DebounceTypeOK, Timers
  <2>8. DebShape'
    BY <2>1, <2>4, <2>5 DEF DebounceInv, DebShape, Messages, Debouncers, Timers, Holding
  <2>9. GivenOnce'
    BY <2>1, <2>5, <2>6 DEF DebounceInv, GivenOnce
  <2>10. PendingIsLast'
    BY <2>5, <2>6 DEF DebounceInv, PendingIsLast
  <2>11. \A m : \A e \in DOMAIN deb : (Given(e, m)' <=> Given(e, m)) /\ Place(e, m)' = Place(e, m)
    BY <2>5, <2>6, PlacesStay
  <2>12. TakenOnce'
    BY <2>1, <2>5, <2>6, <2>11 DEF DebounceInv, TakenOnce
  <2>13. DebouncedInOrder'
    BY <2>1, <2>5, <2>11 DEF DebounceInv, DebouncedInOrder
  <2>14. QED
    BY <2>7, <2>8, <2>9, <2>10, <2>12, <2>13 DEF DebounceInv
<1>6. CASE UNCHANGED debVars
  <2>1. UNCHANGED <<debouncer, deb, timer, call, debounced, ran, drops>>
    BY <1>6 DEF debVars
  <2>2. DebounceTypeOK' /\ DebShape' /\ GivenOnce' /\ PendingIsLast'
    <3>1. DebounceTypeOK'
      BY <2>1 DEF DebounceInv, DebounceTypeOK
    <3>2. DebShape'
      BY <2>1 DEF DebounceInv, DebShape, Messages, Debouncers, Timers, Holding
    <3>3. GivenOnce'
      BY <2>1 DEF DebounceInv, GivenOnce
    <3>4. PendingIsLast'
      BY <2>1 DEF DebounceInv, PendingIsLast
    <3>5. QED
      BY <3>1, <3>2, <3>3, <3>4
  <2>3. \A x : \A e \in DOMAIN deb : (Given(e, x)' <=> Given(e, x)) /\ Place(e, x)' = Place(e, x)
    BY <2>1, PlacesStay
  <2>4. QED
    BY <2>1, <2>2, <2>3 DEF DebounceInv, TakenOnce, DebouncedInOrder
<1>7. QED
  BY <1>1, <1>2, <1>3, <1>4, <1>5, <1>6 DEF DebounceNext, TimersRun, Messages

(* The invariant holds of every behaviour of the debouncers.               *)
THEOREM DebounceInductive == DebounceSpec => []DebounceInv
<1>1. DebounceInit => DebounceInv
  <2> SUFFICES ASSUME DebounceInit PROVE DebounceInv
    OBVIOUS
  <2> USE DebounceAssumption
  <2>1. /\ deb = <<>> /\ timer = <<>> /\ ran = <<>> /\ debounced = 0 /\ drops = 0 /\ debouncer = None
        /\ call = [m \in Messages |-> None]
    BY DEF DebounceInit, Messages
  <2>2. Holding = {}
    BY <2>1 DEF Holding
  <2>3. Cardinality(Holding) = 0
    BY <2>2, FS_EmptySet
  <2>4. DebShape
    BY <2>1, <2>3 DEF DebShape
  <2>5. QED
    BY <2>1, <2>4 DEF DebounceInv, DebounceTypeOK, GivenOnce, PendingIsLast, TakenOnce, DebouncedInOrder
<1>2. DebounceQuiet => UNCHANGED debVars
  BY DEF DebounceQuiet
<1>3. DebounceInv /\ [DebounceNext \/ DebounceQuiet]_debVars => DebounceInv'
  BY <1>2, StepDebounce
<1>4. QED
  BY <1>1, <1>3, PTL DEF DebounceSpec

(* Indices stay in range, whatever timers fire late.                       *)
THEOREM DebounceTypeCorrect == DebounceSpec => []DebounceTypeOK
<1>1. DebounceInv => DebounceTypeOK
  BY DEF DebounceInv
<1>2. QED
  BY <1>1, DebounceInductive, PTL

(* No message is executed twice or after a later one of its debouncer.     *)
THEOREM DebounceOrdered == DebounceSpec => []DebouncedInOrder
<1>1. DebounceInv => DebouncedInOrder
  BY DEF DebounceInv
<1>2. QED
  BY <1>1, DebounceInductive, PTL

-----------------------------------------------------------------------------
(* Event streams *)

StreamRecords == [mode : Modes, size : Nat, buffer : Seq(Nat), attached : SUBSET Consumers,
                  mu : Consumers \cup {None}]
ProducerCalls == [pc : {"idle", "send", "create", "config", "clear"}, at : Nat \cup {None},
                  mode : Modes \cup {None}, size : Nat]
Requests == [pc : {"idle", "join", "replay", "serve", "leave", "gone"}, at : Nat \cup {None},
             ch : Seq(Nat), todo : Seq(Nat), got : Seq(Nat), from : Nat, full : SUBSET Nat]

SSEShape ==
  /\ stream \in Seq(StreamRecords)
  /\ producer \in [Producers -> ProducerCalls]
  /\ consumer \in [Consumers -> Requests]

(* What a producer has looked up is a stream, what it configures is valid. *)
ProducersKnow ==
  \A p \in Producers :
    /\ producer[p].pc \in {"send", "config", "clear"} => producer[p].at \in DOMAIN stream
    /\ producer[p].pc \in {"create", "config"} => producer[p].mode \in Modes /\ producer[p].size \in Sizes

(* A request has its stream and nothing else before it joins, and while it *)
(* has something left to replay it holds the lock of the stream.           *)
ConsumersKnow ==
  \A c \in Consumers :
    /\ consumer[c].pc # "idle" => consumer[c].at \in DOMAIN stream
    /\ consumer[c].pc \in {"idle", "join"} =>
         consumer[c].ch = <<>> /\ consumer[c].todo = <<>> /\ consumer[c].got = <<>>
    /\ IF consumer[c].pc = "replay" THEN consumer[c].todo # <<>> /\ stream[consumer[c].at].mu = c
       ELSE consumer[c].todo = <<>>

(* Events are buffered in the order in which they are sent.                *)
BuffersInOrder ==
  \A i \in DOMAIN stream : Increasing(stream[i].buffer) /\ ToSet(stream[i].buffer) \subseteq 1..events

(* What a consumer got, has in its channel and will be replayed is in      *)
(* order as a whole.                                                       *)
Way(r) == (r.got \o r.ch) \o r.todo
WaysInOrder ==
  \A c \in Consumers : Increasing(Way(consumer[c])) /\ ToSet(Way(consumer[c])) \subseteq 1..events

(* The second part of ReplayThenLive. *)
Missed(c) == (consumer[c].from + 1)..events \subseteq ToSet(consumer[c].got \o consumer[c].ch) \cup consumer[c].full
NothingMissed ==
  \A c \in Consumers :
    consumer[c].pc \in {"replay", "serve"} /\ consumer[c].at = named /\ Len(stream) = 1 => Missed(c)

SSEInv ==
  /\ SSETypeOK /\ SSEShape /\ ProducersKnow /\ ConsumersKnow
  /\ BuffersInOrder /\ WaysInOrder /\ NothingMissed

(* The invariant implies the property.                                     *)
LEMMA InvReplays == SSEInv => ReplayThenLive
<1> SUFFICES ASSUME SSEInv, NEW c \in Consumers
             PROVE  /\ \A i, j \in DOMAIN (consumer[c].got \o consumer[c].ch) :
                         i < j => (consumer[c].got \o consumer[c].ch)[i] < (consumer[c].got \o consumer[c].ch)[j]
                    /\ consumer[c].pc \in {"replay", "serve"} /\ consumer[c].at = named /\ Len(stream) = 1 =>
                         (consumer[c].from + 1)..events \subseteq ToSet(consumer[c].got \o consumer[c].ch) \cup consumer[c].full
  BY DEF ReplayThenLive
<1>1. consumer[c] \in Requests
  BY DEF SSEInv, SSEShape
<1> DEFINE a == consumer[c].got \o consumer[c].ch
           b == consumer[c].todo
<1>2. consumer[c].got \in Seq(Nat) /\ consumer[c].ch \in Seq(Nat) /\ b \in Seq(Nat)
  BY <1>1 DEF Requests
<1>3. a \in Seq(Nat)
  BY <1>2, ConcatProperties
<1>4. Increasing(a \o b)
  BY DEF SSEInv, WaysInOrder, Way
<1> HIDE DEF b
<1>5. Increasing(a)
  <2> HIDE DEF a
  <2>1. QED
    BY ONLY <1>2, <1>3, <1>4, IncreasingPrefix
<1>6. QED
  BY <1>5 DEF Increasing, SSEInv, NothingMissed, Missed

(* Who is attached to a stream, and who has its lock.                      *)
LEMMA WhoIsAttached ==
  ASSUME SSEInv, NEW i \in DOMAIN stream
  PROVE  /\ stream[i].mode \in Modes /\ stream[i].size \in Sizes /\ Len(stream[i].buffer) <= stream[i].size
         /\ stream[i].attached = {c \in Consumers : consumer[c].at = i /\ consumer[c].pc \in {"replay", "serve", "leave"}}
         /\ stream[i].mu \in {c \in stream[i].attached : consumer[c].pc = "replay"} \cup {None}
         /\ Free(i) => \A c \in Consumers : consumer[c].at = i => consumer[c].pc # "replay"
<1>1. /\ stream[i].mode \in Modes /\ stream[i].size \in Sizes /\ Len(stream[i].buffer) <= stream[i].size
      /\ stream[i].attached = {c \in Consumers : consumer[c].at = i /\ consumer[c].pc \in {"replay", "serve", "leave"}}
      /\ stream[i].mu \in {c \in stream[i].attached : consumer[c].pc = "replay"} \cup {None}
  BY DEF SSEInv, SSETypeOK
<1>2. \A c \in Consumers : c # None
  BY StreamsAssumption
<1>3. ASSUME Free(i), NEW c \in Consumers, consumer[c].at = i, consumer[c].pc = "replay"
      PROVE  FALSE
  BY <1>2, <1>3 DEF Free, SSEInv, ConsumersKnow
<1>4. QED
  BY <1>1, <1>3

(* Only the newest events of a buffer are kept, in their order.            *)
LEMMA KeepsNewest ==
  ASSUME NEW b \in Seq(Nat), NEW n \in Nat
  PROVE  /\ Keep(b, n) \in Seq(Nat) /\ Len(Keep(b, n)) <= n
         /\ ToSet(Keep(b, n)) \subseteq ToSet(b) /\ (Increasing(b) => Increasing(Keep(b, n)))
<1> DEFINE m == IF Len(b) > n THEN Len(b) - n + 1 ELSE 1
           s == SubSeq(b, m, Len(b))
<1>1. Len(b) \in Nat
  BY LenProperties
<1>2. m \in Nat \ {0}
  BY <1>1
<1>3. Keep(b, n) = s
  BY DEF Keep
<1>4. (IF m <= Len(b) THEN Len(b) - m + 1 ELSE 0) <= n
  BY <1>1
<1> HIDE DEF m
<1>5. /\ s \in Seq(Nat) /\ ToSet(s) \subseteq ToSet(b)
      /\ Len(s) = IF m <= Len(b) THEN Len(b) - m + 1 ELSE 0
      /\ Increasing(b) => Increasing(s)
  BY <1>2, IncreasingSuffix
<1> HIDE DEF s
<1>6. QED
  BY <1>3, <1>4, <1>5

(* An event that is offered is appended to the channel, or was missed.     *)
LEMMA Offered ==
  ASSUME NEW c \in Consumers, NEW e \in Nat, consumer[c] \in Requests
  PROVE  LET r == consumer[c]
             o == Offer(c, e) IN
         /\ o \in Requests /\ o.pc = r.pc /\ o.at = r.at /\ o.todo = r.todo /\ o.got = r.got /\ o.from = r.from
         /\ \/ Len(r.ch) < ChanCap /\ o.ch = Append(r.ch, e) /\ o.full = r.full
            \/ o.ch = r.ch /\ o.full = r.full \cup {e}
<1> DEFINE r == consumer[c]
           o == Offer(c, e)
           yes == [r EXCEPT !.ch = Append(@, e)]
           no == [r EXCEPT !.full = @ \cup {e}]
<1>1. r.ch \in Seq(Nat) /\ Append(r.ch, e) \in Seq(Nat) /\ r.full \cup {e} \in SUBSET Nat
  BY AppendProperties DEF Requests
<1>2. /\ yes \in Requests /\ yes.pc = r.pc /\ yes.at = r.at /\ yes.todo = r.todo /\ yes.got = r.got /\ yes.from = r.from
      /\ yes.ch = Append(r.ch, e) /\ yes.full = r.full
  BY <1>1 DEF Requests
<1>3. /\ no \in Requests /\ no.pc = r.pc /\ no.at = r.at /\ no.todo = r.todo /\ no.got = r.got /\ no.from = r.from
      /\ no.ch = r.ch /\ no.full = r.full \cup {e}
  BY <1>1 DEF Requests
<1>4. o = IF Len(r.ch) < ChanCap THEN yes ELSE no
  BY DEF Offer
<1> HIDE DEF yes, no, o
<1>5. QED
  BY <1>2, <1>3, <1>4 DEF o

(* Looking something up changes nothing but the producer's own call.       *)
LEMMA LookupStep ==
  ASSUME SSEInv, NEW p \in Producers, NEW q \in ProducerCalls,
         UNCHANGED <<named, stream, consumer, events>>, producer' = [producer EXCEPT ![p] = q],
         configs' \in 0..MaxConfigs,
         q.pc \in {"send", "config", "clear"} => q.at \in DOMAIN stream,
         q.pc \in {"create", "config"} => q.mode \in Modes /\ q.size \in Sizes
  PROVE  SSEInv'
<1>1. \A x \in Producers : producer'[x] = IF x = p THEN q ELSE producer[x]
  BY DEF SSEInv, SSEShape
<1>2. producer' \in [Producers -> ProducerCalls]
  BY DEF SSEInv, SSEShape
<1>3. SSETypeOK'
  BY <1>1 DEF SSEInv, SSETypeOK, ProducerCalls
<1>4. SSEShape'
  BY <1>2 DEF SSEInv, SSEShape, StreamRecords, ProducerCalls, Requests, Modes
<1>5. ProducersKnow'
  BY <1>1 DEF SSEInv, ProducersKnow, Modes
<1>6. ConsumersKnow' /\ BuffersInOrder' /\ WaysInOrder' /\ NothingMissed'
  <2>1. ConsumersKnow'
    BY DEF SSEInv, ConsumersKnow
  <2>2. BuffersInOrder'
    BY DEF SSEInv, BuffersInOrder
  <2>3. WaysInOrder'
    BY DEF SSEInv, WaysInOrder
  <2>4. NothingMissed'
    BY DEF SSEInv, NothingMissed, Missed
  <2>5. QED
    BY <2>1, <2>2, <2>3, <2>4
<1>7. QED
  BY <1>3, <1>4, <1>5, <1>6 DEF SSEInv

(* A consumer's step changes its own request and its place at its stream.  *)
LEMMA ConsumerStep ==
  ASSUME SSEInv, NEW c \in Consumers, NEW r \in Requests, NEW at \in DOMAIN stream,
         UNCHANGED <<named, producer, events, configs>>, consumer' = [consumer EXCEPT ![c] = r],
         stream' \in Seq(StreamRecords), Len(stream') = Len(stream), DOMAIN stream' = DOMAIN stream,
         \A i \in DOMAIN stream : i # at => stream'[i] = stream[i],
         stream'[at].mode = stream[at].mode, stream'[at].size = stream[at].size,
         stream'[at].buffer = stream[at].buffer,
         stream'[at].attached = IF r.pc \in {"replay", "serve", "leave"} THEN stream[at].attached \cup {c}
                                ELSE stream[at].attached \ {c},
         stream'[at].mu = IF r.pc = "replay" THEN c
                          ELSE IF consumer[c].pc = "replay" THEN None ELSE stream[at].mu,
         r.pc = "replay" => consumer[c].pc = "replay" \/ stream[at].mu = None,
         r.at = at, r.pc # "idle", consumer[c].at = at \/ consumer[c].pc = "idle",
         r.pc = "join" => r.ch = <<>> /\ r.got = <<>>,
         IF r.pc = "replay" THEN r.todo # <<>> ELSE r.todo = <<>>,
         Len(r.ch) <= ChanCap, Increasing(Way(r)), ToSet(Way(r)) \subseteq 1..events,
         r.pc \in {"replay", "serve"} /\ r.at = named /\ Len(stream) = 1 =>
           (r.from + 1)..events \subseteq ToSet(r.got \o r.ch) \cup r.full
  PROVE  SSEInv'
<1>1. /\ \A x \in Consumers : consumer'[x] = IF x = c THEN r ELSE consumer[x]
      /\ consumer' \in [Consumers -> Requests]
  BY DEF SSEInv, SSEShape
<1>2. None \notin Consumers
  BY StreamsAssumption
<1>3. \A i \in DOMAIN stream :
        /\ stream[i].mode \in Modes /\ stream[i].size \in Sizes /\ Len(stream[i].buffer) <= stream[i].size
        /\ stream[i].attached = {x \in Consumers : consumer[x].at = i /\ consumer[x].pc \in {"replay", "serve", "leave"}}
        /\ stream[i].mu \in {x \in stream[i].attached : consumer[x].pc = "replay"} \cup {None}
  BY DEF SSEInv, SSETypeOK
<1>4. ASSUME NEW i \in DOMAIN stream
      PROVE  /\ stream'[i].mode \in Modes /\ stream'[i].size \in Sizes /\ Len(stream'[i].buffer) <= stream'[i].size
             /\ stream'[i].attached = {x \in Consumers : consumer'[x].at = i /\ consumer'[x].pc \in {"replay", "serve", "leave"}}
             /\ stream'[i].mu \in {x \in stream'[i].attached : consumer'[x].pc = "replay"} \cup {None}
  <2>1. CASE i # at
    <3>1. stream'[i] = stream[i]
      BY <2>1
    <3>2. \A x \in Consumers : consumer'[x].at = i /\ consumer'[x].pc \in {"replay", "serve", "leave"}
            <=> consumer[x].at = i /\ consumer[x].pc \in {"replay", "serve", "leave"}
      BY <1>1, <2>1
    <3>3. stream'[i].attached = {x \in Consumers : consumer'[x].at = i /\ consumer'[x].pc \in {"replay", "serve", "leave"}}
      BY <1>3, <3>1, <3>2
    <3>4. \A x \in stream[i].attached : x \in Consumers /\ consumer'[x] = consumer[x]
      BY <1>1, <1>3, <2>1
    <3>5. QED
      BY <1>3, <3>1, <3>3, <3>4
  <2>2. CASE i = at
    <3>1. stream'[at].mode \in Modes /\ stream'[at].size \in Sizes /\ Len(stream'[at].buffer) <= stream'[at].size
      BY <1>3
    <3>2. stream'[at].attached = {x \in Consumers : consumer'[x].at = at /\ consumer'[x].pc \in {"replay", "serve", "leave"}}
      <4>1. stream[at].attached = {x \in Consumers : consumer[x].at = at /\ consumer[x].pc \in {"replay", "serve", "leave"}}
        BY <1>3
      <4>2. ASSUME NEW x \in Consumers
            PROVE  x \in stream'[at].attached <=> consumer'[x].at = at /\ consumer'[x].pc \in {"replay", "serve", "leave"}
        BY <1>1, <4>1
      <4>3. stream'[at].attached \subseteq Consumers
        BY <4>1
      <4>4. QED
        BY <4>2, <4>3
    <3>3. stream'[at].mu \in {x \in stream'[at].attached : consumer'[x].pc = "replay"} \cup {None}
      <4>1. stream'[at].mu = None \/ (stream'[at].mu \in Consumers /\ consumer'[stream'[at].mu].at = at
                                      /\ consumer'[stream'[at].mu].pc = "replay")
        <5>1. CASE r.pc = "replay"
          BY <1>1, <5>1
        <5>2. CASE r.pc # "replay" /\ consumer[c].pc = "replay"
          BY <5>2
        <5>3. CASE r.pc # "replay" /\ consumer[c].pc # "replay"
          <6>1. stream'[at].mu = stream[at].mu
            BY <5>3
          <6>2. stream[at].mu = None \/ (stream[at].mu \in Consumers /\ consumer[stream[at].mu].at = at
                                         /\ consumer[stream[at].mu].pc = "replay")
            BY <1>3
          <6>3. QED
            BY <1>1, <5>3, <6>1, <6>2
        <5>4. QED
          BY <5>1, <5>2, <5>3
      <4>2. QED
        BY <3>2, <4>1
    <3>4. QED
      BY <2>2, <3>1, <3>2, <3>3
  <2>3. QED
    BY <2>1, <2>2
<1>5. SSETypeOK'
  <2>1. named' \in DOMAIN stream' \cup {None} /\ events' \in 0..MaxEvents /\ configs' \in 0..MaxConfigs
    BY DEF SSEInv, SSETypeOK
  <2>2. \A x \in Consumers : Len(consumer'[x].ch) <= ChanCap
    BY <1>1 DEF SSEInv, SSETypeOK
  <2>3. \A p \in Producers : producer'[p].pc \in {"idle", "send", "create", "config", "clear"}
    BY DEF SSEInv, SSETypeOK
  <2>4. QED
    BY <1>4, <2>1, <2>2, <2>3 DEF SSETypeOK
<1>6. SSEShape'
  BY <1>1 DEF SSEInv, SSEShape, StreamRecords, ProducerCalls, Requests, Modes
<1>7. ProducersKnow'
  BY DEF SSEInv, ProducersKnow, Modes
<1>8. ConsumersKnow'
  <2>1. ASSUME NEW x \in Consumers, x # c
        PROVE  consumer[x].pc = "replay" => stream'[consumer[x].at].mu = x
    <3> SUFFICES ASSUME consumer[x].pc = "replay" PROVE stream'[consumer[x].at].mu = x
      OBVIOUS
    <3>1. stream[consumer[x].at].mu = x /\ consumer[x].at \in DOMAIN stream
      BY DEF SSEInv, ConsumersKnow
    <3>2. CASE consumer[x].at # at
      BY <3>1, <3>2
    <3>3. CASE consumer[x].at = at
      <4>1. consumer[c].pc # "replay"
        <5>1. consumer[c].pc = "replay" => consumer[c].at = at /\ stream[consumer[c].at].mu = c
          BY DEF SSEInv, ConsumersKnow
        <5>2. QED
          BY <2>1, <3>1, <3>3, <5>1
      <4>2. stream[at].mu # None
        BY <1>2, <3>1, <3>3
      <4>3. QED
        BY <3>1, <3>3, <4>1, <4>2
    <3>4. QED
      BY <3>2, <3>3
  <2>2. ASSUME NEW x \in Consumers, x # c
        PROVE  /\ consumer[x].pc # "idle" => consumer[x].at \in DOMAIN stream
               /\ consumer[x].pc \in {"idle", "join"} =>
                    consumer[x].ch = <<>> /\ consumer[x].todo = <<>> /\ consumer[x].got = <<>>
               /\ IF consumer[x].pc = "replay" THEN consumer[x].todo # <<>> /\ stream'[consumer[x].at].mu = x
                  ELSE consumer[x].todo = <<>>
    BY <2>1, <2>2 DEF SSEInv, ConsumersKnow
  <2>3. QED
    BY <1>1, <2>2 DEF ConsumersKnow
<1>9. BuffersInOrder'
  <2>1. \A i \in DOMAIN stream : stream'[i].buffer = stream[i].buffer
    OBVIOUS
  <2>2. QED
    BY <2>1 DEF SSEInv, BuffersInOrder
<1>10. WaysInOrder'
  BY <1>1 DEF SSEInv, WaysInOrder
<1>11. NothingMissed'
  BY <1>1 DEF SSEInv, NothingMissed, Missed
<1>12. QED
  BY <1>5, <1>6, <1>7, <1>8, <1>9, <1>10, <1>11 DEF SSEInv

(* A producer's step changes one stream's settings and buffer, and ends    *)
(* its call. An event is buffered only if nobody is attached.              *)
LEMMA ProducerStep ==
  ASSUME SSEInv, NEW p \in Producers, NEW at \in DOMAIN stream,
         UNCHANGED <<named, consumer, configs>>, producer' = [producer EXCEPT ![p] = NoCall],
         stream' \in Seq(StreamRecords), Len(stream') = Len(stream), DOMAIN stream' = DOMAIN stream,
         \A i \in DOMAIN stream : i # at => stream'[i] = stream[i],
         stream'[at].mode \in Modes, stream'[at].size \in Sizes, Len(stream'[at].buffer) <= stream'[at].size,
         stream'[at].attached = stream[at].attached, stream'[at].mu = stream[at].mu,
         events' \in 0..MaxEvents, events' = events \/ (events' = events + 1 /\ stream[at].attached = {}),
         Increasing(stream'[at].buffer), ToSet(stream'[at].buffer) \subseteq 1..events'
  PROVE  SSEInv'
<1>1. NoCall \in ProducerCalls /\ NoCall.pc = "idle"
  BY DEF NoCall, ProducerCalls
<1>2. /\ \A x \in Producers : producer'[x] = IF x = p THEN NoCall ELSE producer[x]
      /\ producer' \in [Producers -> ProducerCalls]
  BY <1>1 DEF SSEInv, SSEShape
<1>3. /\ events \in Nat /\ events' \in Nat /\ events <= events' /\ 1..events \subseteq 1..events'
  BY DEF SSEInv, SSETypeOK
<1>4. \A i \in DOMAIN stream : stream'[i].attached = stream[i].attached /\ stream'[i].mu = stream[i].mu
  OBVIOUS
<1>5. SSETypeOK'
  <2>1. ASSUME NEW i \in DOMAIN stream
        PROVE  /\ stream'[i].mode \in Modes /\ stream'[i].size \in Sizes /\ Len(stream'[i].buffer) <= stream'[i].size
               /\ stream'[i].attached = {x \in Consumers : consumer[x].at = i /\ consumer[x].pc \in {"replay", "serve", "leave"}}
               /\ stream'[i].mu \in {x \in stream'[i].attached : consumer[x].pc = "replay"} \cup {None}
    BY <1>4 DEF SSEInv, SSETypeOK
  <2>2. \A x \in Producers : producer'[x].pc \in {"idle", "send", "create", "config", "clear"}
    BY <1>1, <1>2 DEF SSEInv, SSETypeOK
  <2>3. QED
    BY <2>1, <2>2 DEF SSEInv, SSETypeOK
<1>6. SSEShape'
  BY <1>2 DEF SSEInv, SSEShape, StreamRecords, ProducerCalls, Requests, Modes
<1>7. ProducersKnow'
  BY <1>1, <1>2 DEF SSEInv, ProducersKnow, Modes
<1>8. ConsumersKnow'
  BY <1>4 DEF SSEInv, ConsumersKnow
<1>9. BuffersInOrder'
  <2>1. ASSUME NEW i \in DOMAIN stream
        PROVE  Increasing(stream'[i].buffer) /\ ToSet(stream'[i].buffer) \subseteq 1..events'
    BY <1>3 DEF SSEInv, BuffersInOrder
  <2>2. QED
    BY <2>1 DEF BuffersInOrder
<1>10. WaysInOrder'
  BY <1>3 DEF SSEInv, WaysInOrder
<1>11. NothingMissed'
  <2> SUFFICES ASSUME NEW c \in Consumers, consumer[c].pc \in {"replay", "serve"}, consumer[c].at = named,
                      Len(stream) = 1
               PROVE  (consumer[c].from + 1)..events' \subseteq ToSet(consumer[c].got \o consumer[c].ch) \cup consumer[c].full
    BY DEF NothingMissed, Missed
  <2>1. (consumer[c].from + 1)..events \subseteq ToSet(consumer[c].got \o consumer[c].ch) \cup consumer[c].full
    BY DEF SSEInv, NothingMissed, Missed
  <2>2. at = 1 /\ consumer[c].at = 1
    <3>1. DOMAIN stream = 1..1
      BY LenProperties DEF SSEInv, SSEShape
    <3>2. consumer[c].at \in DOMAIN stream
      BY DEF SSEInv, ConsumersKnow
    <3>3. QED
      BY <3>1, <3>2
  <2>3. c \in stream[at].attached
    BY <2>2 DEF SSEInv, SSETypeOK
  <2>4. QED
    BY <2>1, <2>3
<1>12. QED
  BY <1>5, <1>6, <1>7, <1>8, <1>9, <1>10, <1>11 DEF SSEInv

(* A live event is offered to whoever is attached.                         *)
LEMMA LiveStep ==
  ASSUME SSEInv, NEW p \in Producers, NEW at \in DOMAIN stream, Free(at), events < MaxEvents,
         UNCHANGED <<named, stream, configs>>, producer' = [producer EXCEPT ![p] = NoCall], events' = events + 1,
         consumer' = [c \in Consumers |-> IF c \in stream[at].attached THEN Offer(c, events + 1) ELSE consumer[c]]
  PROVE  SSEInv'
<1> DEFINE e == events + 1
<1>1. NoCall \in ProducerCalls /\ NoCall.pc = "idle"
  BY DEF NoCall, ProducerCalls
<1>2. /\ \A x \in Producers : producer'[x] = IF x = p THEN NoCall ELSE producer[x]
      /\ producer' \in [Producers -> ProducerCalls]
  BY <1>1 DEF SSEInv, SSEShape
<1>3. /\ events \in Nat /\ e \in Nat /\ e \in 0..MaxEvents /\ 1..events \subseteq 1..e /\ e \in 1..e
      /\ \A n \in 1..events : n < e
  BY StreamsAssumption DEF SSEInv, SSETypeOK
<1>4. ASSUME NEW c \in Consumers
      PROVE  LET r == consumer[c]
                 o == consumer'[c] IN
             /\ r \in Requests /\ o \in Requests /\ o.pc = r.pc /\ o.at = r.at /\ o.todo = r.todo /\ o.got = r.got
             /\ o.from = r.from
             /\ \/ Len(r.ch) < ChanCap /\ o.ch = Append(r.ch, e) /\ o.full = r.full /\ r.todo = <<>>
                \/ o.ch = r.ch /\ o.full = r.full \cup {e}
                \/ o = r
             /\ c \notin stream[at].attached => o = r
             /\ c \in stream[at].attached => e \in o.full \/ o.ch = Append(r.ch, e)
  <2>1. consumer[c] \in Requests
    BY DEF SSEInv, SSEShape
  <2>2. CASE c \notin stream[at].attached
    <3>1. consumer'[c] = consumer[c]
      BY <2>2
    <3>2. QED
      BY <2>1, <2>2, <3>1
  <2>3. CASE c \in stream[at].attached
    <3>1. consumer'[c] = Offer(c, e)
      BY <2>3
    <3>2. consumer[c].todo = <<>>
      <4>1. consumer[c].at = at
        BY <2>3, WhoIsAttached
      <4>2. consumer[c].pc # "replay"
        BY <4>1, WhoIsAttached
      <4>3. QED
        BY <4>2 DEF SSEInv, ConsumersKnow
    <3>3. LET r == consumer[c]
              o == Offer(c, e) IN
          /\ o \in Requests /\ o.pc = r.pc /\ o.at = r.at /\ o.todo = r.todo /\ o.got = r.got /\ o.from = r.from
          /\ \/ Len(r.ch) < ChanCap /\ o.ch = Append(r.ch, e) /\ o.full = r.full
             \/ o.ch = r.ch /\ o.full = r.full \cup {e}
      BY ONLY <1>3, <2>1, Offered
    <3>4. QED
      BY <2>1, <2>3, <3>1, <3>2, <3>3
  <2>4. QED
    BY <2>2, <2>3
<1> HIDE DEF e
<1>5. ASSUME NEW c \in Consumers
      PROVE  /\ Len(consumer'[c].ch) <= ChanCap
             /\ Increasing(Way(consumer'[c])) /\ ToSet(Way(consumer'[c])) \subseteq 1..e
             /\ ToSet(consumer[c].got \o consumer[c].ch) \subseteq ToSet(consumer'[c].got \o consumer'[c].ch)
             /\ consumer[c].full \subseteq consumer'[c].full
             /\ c \in stream[at].attached => e \in ToSet(consumer'[c].got \o consumer'[c].ch) \cup consumer'[c].full
             /\ consumer[c].pc \in {"idle", "join"} => consumer'[c].ch = <<>>
  <2> DEFINE r == consumer[c]
             o == consumer'[c]
             a == r.got \o r.ch
  <2>1. /\ r.got \in Seq(Nat) /\ r.ch \in Seq(Nat) /\ r.todo \in Seq(Nat) /\ a \in Seq(Nat)
    BY <1>4, ConcatProperties DEF Requests
  <2>2. Len(r.ch) <= ChanCap /\ Increasing(Way(r)) /\ ToSet(Way(r)) \subseteq 1..events
    BY DEF SSEInv, SSETypeOK, WaysInOrder
  <2>3. CASE o.ch = r.ch /\ o.todo = r.todo /\ o.got = r.got /\ (o = r \/ o.full = r.full \cup {e})
    <3>1. Way(o) = Way(r)
      BY <2>3 DEF Way
    <3>2. r.full \subseteq o.full
      BY <2>3
    <3>3. c \in stream[at].attached => e \in o.full
      <4>1. ~(o.ch = Append(r.ch, e))
        <5>1. Len(Append(r.ch, e)) = Len(r.ch) + 1 /\ Len(r.ch) \in Nat
          BY <1>3, <2>1, AppendProperties, LenProperties
        <5>2. QED
          BY <2>3, <5>1
      <4>2. QED
        BY <1>4, <4>1
    <3>4. consumer[c].pc \in {"idle", "join"} => consumer'[c].ch = <<>>
      BY <2>3 DEF SSEInv, ConsumersKnow
    <3>5. QED
      BY <1>3, <2>2, <2>3, <3>1, <3>2, <3>3, <3>4
  <2>4. CASE o.ch = Append(r.ch, e) /\ o.full = r.full /\ o.todo = <<>> /\ r.todo = <<>> /\ o.got = r.got /\ Len(r.ch) < ChanCap
             /\ c \in stream[at].attached
    <3>1. o.got \o o.ch = Append(a, e)
      <4> DEFINE g == r.got
                 h == r.ch
      <4>1. g \in Seq(Nat) /\ h \in Seq(Nat) /\ e \in Nat
        BY <1>3, <2>1
      <4>2. o.got = g /\ o.ch = Append(h, e) /\ a = g \o h
        BY <2>4
      <4> HIDE DEF a, g, h, o
      <4>3. g \o Append(h, e) = Append(g \o h, e)
        BY ONLY <4>1, AppendConcat
      <4>4. QED
        BY <4>2, <4>3
    <3>2. Way(r) = a /\ Way(o) = Append(a, e)
      <4>1. Append(a, e) \in Seq(Nat)
        BY <1>3, <2>1, AppendProperties
      <4>2. a \o <<>> = a /\ Append(a, e) \o <<>> = Append(a, e)
        BY <2>1, <4>1, ConcatEmptySeq
      <4>3. QED
        BY <2>4, <3>1, <4>2 DEF Way
    <3>3. ToSet(Append(a, e)) = ToSet(a) \cup {e}
      <4>1. a \in Seq(Nat) /\ e \in Nat
        BY <1>3, <2>1
      <4> HIDE DEF a
      <4>2. QED
        BY ONLY <4>1, ToSetAppend
    <3>4. \A n \in ToSet(a) : n < e
      BY <1>3, <2>2, <3>2
    <3>5. Increasing(Append(a, e))
      BY <1>3, <2>1, <2>2, <3>2, <3>4, IncreasingAppend
    <3>6. Len(o.ch) <= ChanCap
      <4>1. Len(Append(r.ch, e)) = Len(r.ch) + 1 /\ Len(r.ch) \in Nat
        BY <1>3, <2>1, AppendProperties, LenProperties
      <4>2. QED
        BY <2>4, <4>1, StreamsAssumption
    <3>7. r.pc \notin {"idle", "join"}
      BY <2>4, WhoIsAttached
    <3>8. QED
      BY <1>3, <2>2, <2>4, <3>1, <3>2, <3>3, <3>5, <3>6, <3>7
  <2>5. QED
    BY <1>4, <2>3, <2>4
<1>6. SSETypeOK'
  <2>1. ASSUME NEW i \in DOMAIN stream
        PROVE  /\ stream[i].mode \in Modes /\ stream[i].size \in Sizes /\ Len(stream[i].buffer) <= stream[i].size
               /\ stream[i].attached = {x \in Consumers : consumer'[x].at = i /\ consumer'[x].pc \in {"replay", "serve", "leave"}}
               /\ stream[i].mu \in {x \in stream[i].attached : consumer'[x].pc = "replay"} \cup {None}
    <3>1. \A x \in Consumers : consumer'[x].at = consumer[x].at /\ consumer'[x].pc = consumer[x].pc
      BY <1>4
    <3>2. {x \in Consumers : consumer'[x].at = i /\ consumer'[x].pc \in {"replay", "serve", "leave"}}
            = {x \in Consumers : consumer[x].at = i /\ consumer[x].pc \in {"replay", "serve", "leave"}}
      BY <3>1
    <3>3. QED
      BY <3>1, <3>2, WhoIsAttached
  <2>2. \A x \in Producers : producer'[x].pc \in {"idle", "send", "create", "config", "clear"}
    BY <1>1, <1>2 DEF SSEInv, SSETypeOK
  <2>3. QED
    BY <1>3, <1>5, <2>1, <2>2 DEF SSEInv, SSETypeOK, e
<1>7. SSEShape'
  <2>1. consumer' \in [Consumers -> Requests]
    <3>1. DOMAIN consumer' = Consumers /\ consumer' = [c \in Consumers |-> consumer'[c]]
      OBVIOUS
    <3>2. QED
      BY <1>4, <3>1
  <2>2. QED
    BY <1>2, <2>1 DEF SSEInv, SSEShape, StreamRecords, ProducerCalls, Requests, Modes
<1>8. ProducersKnow'
  BY <1>1, <1>2 DEF SSEInv, ProducersKnow, Modes
<1>9. ConsumersKnow'
  BY <1>4, <1>5 DEF SSEInv, ConsumersKnow
<1>10. BuffersInOrder'
  BY <1>3 DEF SSEInv, BuffersInOrder, e
<1>11. WaysInOrder'
  BY <1>5 DEF WaysInOrder, e
<1>12. NothingMissed'
  <2> SUFFICES ASSUME NEW c \in Consumers, consumer'[c].pc \in {"replay", "serve"}, consumer'[c].at = named,
                      Len(stream) = 1
               PROVE  (consumer'[c].from + 1)..e \subseteq ToSet(consumer'[c].got \o consumer'[c].ch) \cup consumer'[c].full
    BY DEF NothingMissed, Missed, e
  <2>1. /\ consumer[c].pc = consumer'[c].pc /\ consumer[c].at = consumer'[c].at /\ consumer[c].from = consumer'[c].from
        /\ consumer[c].from \in Nat
    BY <1>4 DEF Requests
  <2>2. (consumer[c].from + 1)..events \subseteq ToSet(consumer[c].got \o consumer[c].ch) \cup consumer[c].full
    BY <2>1 DEF SSEInv, NothingMissed, Missed
  <2>3. at = 1 /\ consumer[c].at = 1
    <3>1. DOMAIN stream = 1..1
      BY LenProperties DEF SSEInv, SSEShape
    <3>2. consumer[c].at \in DOMAIN stream
      BY <2>1 DEF SSEInv, ConsumersKnow
    <3>3. QED
      BY <3>1, <3>2
  <2>4. c \in stream[at].attached
    BY <2>1, <2>3, WhoIsAttached
  <2>5. (consumer[c].from + 1)..e \subseteq ((consumer[c].from + 1)..events) \cup {e}
    BY <1>3, <2>1 DEF e
  <2>6. QED
    BY <1>5, <2>1, <2>2, <2>4, <2>5, SMTT(40)
<1>13. QED
  BY <1>6, <1>7, <1>8, <1>9, <1>10, <1>11, <1>12 DEF SSEInv

(* A new stream comes to stand for the name.                               *)
LEMMA CreateStep ==
  ASSUME SSEInv, NEW p \in Producers, CreateStream(p)
  PROVE  SSEInv'
<1> DEFINE n == Len(stream) + 1
           s == NewStream(producer[p].mode, producer[p].size)
<1>1. NoCall \in ProducerCalls /\ NoCall.pc = "idle"
  BY DEF NoCall, ProducerCalls
<1>2. /\ \A x \in Producers : producer'[x] = IF x = p THEN NoCall ELSE producer[x]
      /\ producer' \in [Producers -> ProducerCalls]
  BY <1>1 DEF SSEInv, SSEShape, CreateStream, Returns
<1>3. UNCHANGED <<consumer, events, configs>> /\ stream' = Append(stream, s) /\ named' = n
  BY DEF CreateStream
<1>4. /\ s \in StreamRecords /\ s.mode \in Modes /\ s.size \in Sizes /\ s.buffer = <<>> /\ s.attached = {} /\ s.mu = None
      /\ s.size \in Nat
  <2>1. producer[p].mode \in Modes /\ producer[p].size \in Sizes
    BY DEF CreateStream, SSEInv, ProducersKnow
  <2>2. producer[p].size \in Nat
    BY <2>1, StreamsAssumption
  <2>3. QED
    BY <2>1, <2>2 DEF NewStream, StreamRecords
<1> HIDE DEF s
<1>5. /\ stream \in Seq(StreamRecords) /\ stream' \in Seq(StreamRecords) /\ Len(stream) \in Nat /\ DOMAIN stream = 1..Len(stream)
      /\ Len(stream') = n /\ DOMAIN stream' = 1..n /\ stream'[n] = s
      /\ \A i \in DOMAIN stream : stream'[i] = stream[i]
  <2>1. stream \in Seq(StreamRecords)
    BY DEF SSEInv, SSEShape
  <2>2. QED
    BY <1>3, <1>4, <2>1, AppendProperties, LenProperties
<1>6. \A i \in DOMAIN stream' :
        \/ i \in DOMAIN stream /\ stream'[i] = stream[i]
        \/ i = n /\ stream'[i] = s /\ i \notin DOMAIN stream
  <2>1. \A i \in 1..n : i \in 1..Len(stream) \/ (i = n /\ i \notin 1..Len(stream))
    BY <1>5
  <2>2. DOMAIN stream = 1..Len(stream) /\ DOMAIN stream' = 1..n /\ stream'[n] = s
        /\ \A i \in 1..Len(stream) : stream'[i] = stream[i]
    BY <1>5
  <2> SUFFICES ASSUME NEW i \in DOMAIN stream'
               PROVE  \/ i \in DOMAIN stream /\ stream'[i] = stream[i]
                      \/ i = n /\ stream'[i] = s /\ i \notin DOMAIN stream
    OBVIOUS
  <2>3. CASE i \in 1..Len(stream)
    BY <2>2, <2>3
  <2>4. CASE i = n /\ i \notin 1..Len(stream)
    BY <2>2, <2>4
  <2>5. QED
    BY <2>1, <2>2, <2>3, <2>4
<1>7. \A x \in Consumers : consumer[x].pc # "idle" => consumer[x].at \in DOMAIN stream
  BY DEF SSEInv, ConsumersKnow
<1>8. SSETypeOK'
  <2>1. ASSUME NEW i \in DOMAIN stream'
        PROVE  /\ stream'[i].mode \in Modes /\ stream'[i].size \in Sizes /\ Len(stream'[i].buffer) <= stream'[i].size
               /\ stream'[i].attached = {x \in Consumers : consumer[x].at = i /\ consumer[x].pc \in {"replay", "serve", "leave"}}
               /\ stream'[i].mu \in {x \in stream'[i].attached : consumer[x].pc = "replay"} \cup {None}
    <3>1. CASE i \in DOMAIN stream /\ stream'[i] = stream[i]
      BY <3>1, WhoIsAttached
    <3>2. CASE stream'[i] = s /\ i \notin DOMAIN stream
      <4>1. {x \in Consumers : consumer[x].at = i /\ consumer[x].pc \in {"replay", "serve", "leave"}} = {}
        BY <1>7, <3>2
      <4>2. Len(s.buffer) = 0
        BY <1>4, EmptySeq
      <4>3. QED
        BY <1>4, <3>2, <4>1, <4>2
    <3>3. QED
      BY <1>6, <3>1, <3>2
  <2>2. \A x \in Producers : producer'[x].pc \in {"idle", "send", "create", "config", "clear"}
    BY <1>1, <1>2 DEF SSEInv, SSETypeOK
  <2>3. named' \in DOMAIN stream'
    BY <1>3, <1>5
  <2>4. QED
    BY <1>3, <2>1, <2>2, <2>3 DEF SSEInv, SSETypeOK
<1>9. SSEShape'
  BY <1>2, <1>3, <1>5 DEF SSEInv, SSEShape, StreamRecords, ProducerCalls, Requests, Modes
<1>10. ProducersKnow'
  <2>1. DOMAIN stream \subseteq DOMAIN stream'
    BY <1>5
  <2>2. QED
    BY <1>1, <1>2, <2>1 DEF SSEInv, ProducersKnow, Modes
<1>11. ConsumersKnow'
  BY <1>3, <1>5, <1>7 DEF SSEInv, ConsumersKnow
<1>12. BuffersInOrder'
  <2>1. Increasing(s.buffer) /\ ToSet(s.buffer) \subseteq 1..events
    <3>1. DOMAIN s.buffer = {}
      BY <1>4
    <3>2. QED
      BY <3>1 DEF Increasing, ToSet
  <2>2. QED
    BY <1>3, <1>6, <2>1 DEF SSEInv, BuffersInOrder
<1>13. WaysInOrder'
  BY <1>3 DEF SSEInv, WaysInOrder
<1>14. NothingMissed'
  BY <1>3, <1>5, <1>7 DEF NothingMissed
<1>15. QED
  BY <1>8, <1>9, <1>10, <1>11, <1>12, <1>13, <1>14 DEF SSEInv

(* Every step of the streams keeps the invariant.                          *)
LEMMA StepStreams == SSEInv /\ [SSENext]_sseVars => SSEInv'
<1> SUFFICES ASSUME SSEInv, [SSENext]_sseVars PROVE SSEInv'
  OBVIOUS
<1>0. /\ stream \in Seq(StreamRecords) /\ Len(stream) \in Nat /\ DOMAIN stream = 1..Len(stream)
      /\ \A i \in DOMAIN stream : i \in Nat /\ stream[i] \in StreamRecords
      /\ \A c \in Consumers : consumer[c] \in Requests
      /\ \A p \in Producers : producer[p] \in ProducerCalls
      /\ named \in DOMAIN stream \cup {None} /\ configs \in 0..MaxConfigs /\ events \in 0..MaxEvents /\ events \in Nat
      /\ None \notin DOMAIN stream
  <2>1. stream \in Seq(StreamRecords)
    BY DEF SSEInv, SSEShape
  <2>2. Len(stream) \in Nat /\ DOMAIN stream = 1..Len(stream)
        /\ \A i \in DOMAIN stream : i \in Nat /\ stream[i] \in StreamRecords
    BY <2>1, LenProperties, ElementOfSeq
  <2>3. QED
    BY <2>1, <2>2, StreamsAssumption DEF SSEInv, SSEShape, SSETypeOK
<1>a. \A c \in Consumers : consumer[c].got \in Seq(Nat) /\ consumer[c].ch \in Seq(Nat) /\ consumer[c].todo \in Seq(Nat)
  BY <1>0 DEF Requests
<1>1. ASSUME NEW p \in Producers, SendLookup(p)
      PROVE  SSEInv'
  <2> DEFINE q == [NoCall EXCEPT !.pc = "send", !.at = named]
  <2>1. /\ UNCHANGED <<named, stream, consumer, events>> /\ configs' \in 0..MaxConfigs
        /\ producer' = [producer EXCEPT ![p] = q] /\ named \in DOMAIN stream
    BY <1>0, <1>1 DEF SendLookup, Call
  <2>2. q \in ProducerCalls /\ q.pc = "send" /\ q.at = named
    BY <1>0, <2>1 DEF NoCall, ProducerCalls
  <2> HIDE DEF q
  <2>3. QED
    BY <2>1, <2>2, LookupStep
<1>2. ASSUME NEW p \in Producers, ClearLookup(p)
      PROVE  SSEInv'
  <2> DEFINE q == [NoCall EXCEPT !.pc = "clear", !.at = named]
  <2>1. /\ UNCHANGED <<named, stream, consumer, events>> /\ configs' \in 0..MaxConfigs
        /\ producer' = [producer EXCEPT ![p] = q] /\ named \in DOMAIN stream
    BY <1>0, <1>2, StreamsAssumption DEF ClearLookup, Call
  <2>2. q \in ProducerCalls /\ q.pc = "clear" /\ q.at = named
    BY <1>0, <2>1 DEF NoCall, ProducerCalls
  <2> HIDE DEF q
  <2>3. QED
    BY <2>1, <2>2, LookupStep
<1>3. ASSUME NEW p \in Producers, NEW mode \in Modes, NEW size \in Sizes, ConfigLookup(p, mode, size)
      PROVE  SSEInv'
  <2> DEFINE q == [pc |-> IF named = None THEN "create" ELSE "config", at |-> named, mode |-> mode, size |-> size]
  <2>1. /\ UNCHANGED <<named, stream, consumer, events>> /\ configs' \in 0..MaxConfigs
        /\ producer' = [producer EXCEPT ![p] = q]
    BY <1>0, <1>3, StreamsAssumption DEF ConfigLookup
  <2>2. size \in Nat /\ mode \in Modes
    BY StreamsAssumption
  <2>3. /\ q \in ProducerCalls /\ q.pc \in {"create", "config"} /\ q.at = named /\ q.mode = mode /\ q.size = size
        /\ q.pc = "config" => named # None
    BY <1>0, <2>2 DEF ProducerCalls
  <2> HIDE DEF q
  <2>4. q.pc \in {"send", "config", "clear"} => q.at \in DOMAIN stream
    BY <1>0, <2>3
  <2>5. q.mode \in Modes /\ q.size \in Sizes
    BY <2>2, <2>3
  <2>6. QED
    BY <2>1, <2>3, <2>4, <2>5, LookupStep
<1>4. ASSUME NEW p \in Producers, SendToSSE(p)
      PROVE  SSEInv'
  <2> DEFINE at == producer[p].at
             e == events + 1
             b == Keep(Append(stream[at].buffer, e), stream[at].size)
             s == [stream[at] EXCEPT !.buffer = b]
  <2>1. /\ at \in DOMAIN stream /\ Free(at) /\ events < MaxEvents /\ events' = e /\ UNCHANGED <<named, configs>>
        /\ producer' = [producer EXCEPT ![p] = NoCall]
    BY <1>4 DEF SendToSSE, Returns, SSEInv, ProducersKnow
  <2>2. CASE stream[at].attached # {}
    <3>1. UNCHANGED stream
          /\ consumer' = [c \in Consumers |-> IF c \in stream[at].attached THEN Offer(c, events + 1) ELSE consumer[c]]
      BY <1>4, <2>2 DEF SendToSSE
    <3> HIDE DEF at
    <3>2. QED
      BY <2>1, <3>1, LiveStep
  <2>3. CASE stream[at].attached = {}
    <3>1. UNCHANGED consumer /\ (stream' = stream \/ stream' = [stream EXCEPT ![at].buffer = b])
      BY <1>4, <2>3 DEF SendToSSE
    <3>2. /\ stream[at] \in StreamRecords /\ stream[at].buffer \in Seq(Nat) /\ stream[at].size \in Nat /\ e \in Nat
          /\ e \in 0..MaxEvents /\ 1..events \subseteq 1..e /\ e \in 1..e /\ \A n \in 1..events : n < e
      BY <1>0, <2>1, StreamsAssumption DEF StreamRecords
    <3>3. /\ Increasing(stream[at].buffer) /\ ToSet(stream[at].buffer) \subseteq 1..events
          /\ stream[at].mode \in Modes /\ stream[at].size \in Sizes /\ Len(stream[at].buffer) <= stream[at].size
      BY <2>1, WhoIsAttached DEF SSEInv, BuffersInOrder
    <3>4. CASE stream' = stream
      <4> HIDE DEF at
      <4>1. ToSet(stream[at].buffer) \subseteq 1..e
        BY <3>2, <3>3
      <4> HIDE DEF e
      <4>2. events' = events \/ (events' = events + 1 /\ stream[at].attached = {})
        BY <2>1, <2>3 DEF e
      <4>3. QED
        BY <1>0, <2>1, <3>1, <3>2, <3>3, <3>4, <4>1, <4>2, ProducerStep
    <3>5. CASE stream' = [stream EXCEPT ![at].buffer = b]
      <4> DEFINE a == Append(stream[at].buffer, e)
      <4>1. a \in Seq(Nat) /\ ToSet(a) = ToSet(stream[at].buffer) \cup {e}
        BY <3>2, AppendProperties, ToSetAppend
      <4>2. Increasing(a)
        BY <3>2, <3>3, IncreasingAppend
      <4>3. b = Keep(a, stream[at].size)
        OBVIOUS
      <4> HIDE DEF a, b
      <4>4. b \in Seq(Nat) /\ Len(b) <= stream[at].size /\ ToSet(b) \subseteq 1..e /\ Increasing(b)
        <5>1. /\ Keep(a, stream[at].size) \in Seq(Nat) /\ Len(Keep(a, stream[at].size)) <= stream[at].size
              /\ ToSet(Keep(a, stream[at].size)) \subseteq ToSet(a) /\ Increasing(Keep(a, stream[at].size))
          BY <3>2, <4>1, <4>2, KeepsNewest
        <5>2. QED
          BY <3>2, <3>3, <4>1, <4>3, <5>1
      <4>5. s \in StreamRecords /\ s.mode = stream[at].mode /\ s.size = stream[at].size /\ s.buffer = b
            /\ s.attached = stream[at].attached /\ s.mu = stream[at].mu
        BY <3>2, <4>4 DEF StreamRecords
      <4>6. stream' = [stream EXCEPT ![at] = s]
        BY <3>5
      <4> HIDE DEF at, s
      <4>7. /\ stream' \in Seq(StreamRecords) /\ Len(stream') = Len(stream) /\ DOMAIN stream' = DOMAIN stream
            /\ stream'[at] = s /\ \A i \in DOMAIN stream : i # at => stream'[i] = stream[i]
        BY <1>0, <2>1, <4>5, <4>6, ExceptSeq
      <4> HIDE DEF e
      <4>8. events' = events \/ (events' = events + 1 /\ stream[at].attached = {})
        BY <2>1, <2>3 DEF e
      <4>9. QED
        BY <2>1, <3>1, <3>2, <3>3, <4>4, <4>5, <4>7, <4>8, ProducerStep
    <3>6. QED
      BY <3>1, <3>4, <3>5
  <2>4. QED
    BY <2>2, <2>3
<1>5. ASSUME NEW p \in Producers, UpdateStreamConfig(p)
      PROVE  SSEInv'
  <2> DEFINE q == producer[p]
             at == q.at
             b == Keep(stream[at].buffer, q.size)
             s == [stream[at] EXCEPT !.buffer = b, !.mode = q.mode, !.size = q.size]
  <2>1. /\ at \in DOMAIN stream /\ q.mode \in Modes /\ q.size \in Sizes /\ q.size \in Nat
        /\ UNCHANGED <<named, consumer, events, configs>> /\ producer' = [producer EXCEPT ![p] = NoCall]
    <3>1. at \in DOMAIN stream /\ q.mode \in Modes /\ q.size \in Sizes
      BY <1>5 DEF UpdateStreamConfig, SSEInv, ProducersKnow
    <3>2. QED
      BY <1>5, <3>1, StreamsAssumption DEF UpdateStreamConfig, Returns
  <2>2. stream[at] \in StreamRecords /\ stream[at].buffer \in Seq(Nat)
        /\ Increasing(stream[at].buffer) /\ ToSet(stream[at].buffer) \subseteq 1..events
    BY <1>0, <2>1 DEF StreamRecords, SSEInv, BuffersInOrder
  <2>3. stream' = [stream EXCEPT ![at] = s]
    BY <1>5 DEF UpdateStreamConfig
  <2>4. b \in Seq(Nat) /\ Len(b) <= q.size /\ ToSet(b) \subseteq 1..events /\ Increasing(b)
    BY <2>1, <2>2, KeepsNewest
  <2> HIDE DEF b
  <2>5. s \in StreamRecords /\ s.mode = q.mode /\ s.size = q.size /\ s.buffer = b
        /\ s.attached = stream[at].attached /\ s.mu = stream[at].mu
    BY <2>1, <2>2, <2>4 DEF StreamRecords
  <2> HIDE DEF q, at, s
  <2>6. /\ stream' \in Seq(StreamRecords) /\ Len(stream') = Len(stream) /\ DOMAIN stream' = DOMAIN stream
        /\ stream'[at] = s /\ \A i \in DOMAIN stream : i # at => stream'[i] = stream[i]
    BY <1>0, <2>1, <2>3, <2>5, ExceptSeq
  <2>7. QED
    BY <1>0, <2>1, <2>4, <2>5, <2>6, ProducerStep
<1>6. ASSUME NEW p \in Producers, ClearBuffer(p)
      PROVE  SSEInv'
  <2> DEFINE at == producer[p].at
             s == [stream[at] EXCEPT !.buffer = <<>>]
  <2>1. /\ at \in DOMAIN stream /\ UNCHANGED <<named, consumer, events, configs>>
        /\ producer' = [producer EXCEPT ![p] = NoCall] /\ stream' = [stream EXCEPT ![at] = s]
    BY <1>6 DEF ClearBuffer, Returns, SSEInv, ProducersKnow
  <2>2. stream[at] \in StreamRecords /\ stream[at].mode \in Modes /\ stream[at].size \in Sizes /\ stream[at].size \in Nat
    BY <1>0, <2>1, WhoIsAttached DEF StreamRecords
  <2>3. s \in StreamRecords /\ s.mode = stream[at].mode /\ s.size = stream[at].size /\ s.buffer = <<>>
        /\ s.attached = stream[at].attached /\ s.mu = stream[at].mu
    <3>1. <<>> \in Seq(Nat)
      OBVIOUS
    <3>2. QED
      BY <2>2, <3>1 DEF StreamRecords
  <2> HIDE DEF at, s
  <2>4. /\ stream' \in Seq(StreamRecords) /\ Len(stream') = Len(stream) /\ DOMAIN stream' = DOMAIN stream
        /\ stream'[at] = s /\ \A i \in DOMAIN stream : i # at => stream'[i] = stream[i]
    BY <1>0, <2>1, <2>3, ExceptSeq
  <2>5. Increasing(s.buffer) /\ ToSet(s.buffer) \subseteq 1..events /\ Len(s.buffer) <= s.size
    <3>1. DOMAIN s.buffer = {} /\ Len(s.buffer) = 0
      BY <2>3, EmptySeq
    <3>2. QED
      BY <2>2, <2>3, <3>1 DEF Increasing, ToSet
  <2>6. QED
    BY <1>0, <2>1, <2>2, <2>3, <2>4, <2>5, ProducerStep
<1>7. ASSUME NEW p \in Producers, CreateStream(p)
      PROVE  SSEInv'
  BY <1>7, CreateStep
<1>b. ASSUME NEW at \in DOMAIN stream, NEW s \in StreamRecords, stream' = [stream EXCEPT ![at] = s]
      PROVE  /\ stream' \in Seq(StreamRecords) /\ Len(stream') = Len(stream) /\ DOMAIN stream' = DOMAIN stream
             /\ stream'[at] = s /\ \A i \in DOMAIN stream : i # at => stream'[i] = stream[i]
  BY <1>0, <1>b, ExceptSeq
<1>c. \A c \in Consumers : /\ Increasing(Way(consumer[c])) /\ ToSet(Way(consumer[c])) \subseteq 1..events
                          /\ Len(consumer[c].ch) <= ChanCap /\ consumer[c].at \in Nat \cup {None}
  BY <1>0 DEF SSEInv, WaysInOrder, SSETypeOK, Requests
<1>8. ASSUME NEW c \in Consumers, Request(c)
      PROVE  SSEInv'
  <2> DEFINE r == [NoRequest EXCEPT !.pc = "join", !.at = named]
  <2>1. /\ consumer[c] = NoRequest /\ named \in DOMAIN stream /\ UNCHANGED <<named, stream, producer, events, configs>>
        /\ consumer' = [consumer EXCEPT ![c] = r]
    BY <1>0, <1>8 DEF Request, Becomes
  <2>2. /\ consumer[c].pc = "idle"
        /\ r.pc = "join" /\ r.at = named /\ r.ch = consumer[c].ch /\ r.got = consumer[c].got /\ r.todo = consumer[c].todo
        /\ r.ch = <<>> /\ r.todo = <<>> /\ r.got = <<>>
        /\ r \in Requests
    <3>1. consumer[c] \in Requests
      BY <1>0
    <3>2. /\ consumer[c].pc = "idle" /\ consumer[c].ch = <<>> /\ consumer[c].todo = <<>> /\ consumer[c].got = <<>>
          /\ consumer[c].full = {} /\ consumer[c].from = 0 /\ r = [consumer[c] EXCEPT !.pc = "join", !.at = named]
      BY <2>1 DEF NoRequest
    <3>3. named \in Nat
      BY <1>0, <2>1
    <3>4. QED
      BY <3>1, <3>2, <3>3 DEF Requests
  <2> HIDE DEF r
  <2>3. Increasing(Way(r)) /\ ToSet(Way(r)) \subseteq 1..events /\ Len(r.ch) <= ChanCap
    BY <1>c, <2>2 DEF Way
  <2>4. /\ stream[named].attached = stream[named].attached \ {c}
    BY <2>1, <2>2, WhoIsAttached
  <2>5. QED
    BY <1>0, <2>1, <2>2, <2>3, <2>4, ConsumerStep
<1>9. ASSUME NEW c \in Consumers, Disconnect(c)
      PROVE  SSEInv'
  <2> DEFINE r == [consumer[c] EXCEPT !.pc = "leave"]
             at == consumer[c].at
  <2>1. /\ consumer[c].pc = "serve" /\ UNCHANGED <<named, stream, producer, events, configs>>
        /\ consumer' = [consumer EXCEPT ![c] = r] /\ at \in DOMAIN stream /\ consumer[c].todo = <<>>
    BY <1>9 DEF Disconnect, Becomes, SSEInv, ConsumersKnow
  <2>2. /\ r \in Requests /\ r.pc = "leave" /\ r.at = at /\ r.ch = consumer[c].ch /\ r.got = consumer[c].got
        /\ r.todo = consumer[c].todo
    BY <1>0 DEF Requests
  <2> HIDE DEF r
  <2>3. Increasing(Way(r)) /\ ToSet(Way(r)) \subseteq 1..events /\ Len(r.ch) <= ChanCap
    BY <1>c, <2>2 DEF Way
  <2>4. stream[at].attached = stream[at].attached \cup {c}
    BY <2>1, WhoIsAttached
  <2> HIDE DEF at
  <2>5. consumer[c].at = at
    BY DEF at
  <2>6. QED
    BY <1>0, <2>1, <2>2, <2>3, <2>4, <2>5, ConsumerStep
<1>10. ASSUME NEW c \in Consumers, Join(c)
      PROVE  SSEInv'
  <2> DEFINE q == consumer[c]
             at == q.at
             replay == stream[at].mode = "buffer" /\ stream[at].buffer # <<>>
             t == IF replay THEN stream[at].buffer ELSE <<>>
             r == [q EXCEPT !.pc = IF replay THEN "replay" ELSE "serve", !.from = events, !.todo = t]
             s == [stream[at] EXCEPT !.attached = stream[at].attached \cup {c}, !.mu = IF replay THEN c ELSE None]
  <2>1. /\ q.pc = "join" /\ stream[at].mu = None /\ UNCHANGED <<named, producer, events, configs>>
        /\ consumer' = [consumer EXCEPT ![c] = r] /\ stream' = [stream EXCEPT ![at] = s]
    BY <1>10 DEF Join, Becomes, Free
  <2>2. at \in DOMAIN stream /\ q.ch = <<>> /\ q.got = <<>> /\ q \in Requests
    BY <1>0, <2>1 DEF SSEInv, ConsumersKnow
  <2>3. /\ stream[at] \in StreamRecords /\ stream[at].attached \subseteq Consumers /\ stream[at].buffer \in Seq(Nat)
        /\ Increasing(stream[at].buffer) /\ ToSet(stream[at].buffer) \subseteq 1..events
    BY <1>0, <2>2 DEF StreamRecords, SSEInv, BuffersInOrder
  <2>4. /\ t \in Seq(Nat) /\ Increasing(t) /\ ToSet(t) \subseteq 1..events /\ (replay => t # <<>>) /\ (~replay => t = <<>>)
    <3>1. <<>> \in Seq(Nat) /\ Increasing(<<>>) /\ ToSet(<<>>) = {}
      BY DEF Increasing, ToSet
    <3>2. QED
      BY <2>3, <3>1
  <2> HIDE DEF replay, t
  <2>5. /\ s \in StreamRecords /\ s.mode = stream[at].mode /\ s.size = stream[at].size /\ s.buffer = stream[at].buffer
        /\ s.attached = stream[at].attached \cup {c} /\ s.mu = IF replay THEN c ELSE None
    BY <2>3 DEF StreamRecords
  <2>6. /\ r \in Requests /\ r.pc = (IF replay THEN "replay" ELSE "serve") /\ r.at = at /\ r.ch = <<>> /\ r.got = <<>>
        /\ r.todo = t /\ r.from = events
    BY <1>0, <2>2, <2>4 DEF Requests
  <2> HIDE DEF r, s
  <2>7. Way(r) = t /\ Len(r.ch) <= ChanCap
    <3>1. <<>> \o t = t /\ <<>> \o <<>> = <<>>
      BY <2>4, ConcatEmptySeq
    <3>2. QED
      BY <1>c, <2>2, <2>6, <3>1 DEF Way
  <2>8. (r.from + 1)..events = {}
    BY <1>0, <2>6
  <2> HIDE DEF q, at
  <2>9. /\ stream' \in Seq(StreamRecords) /\ Len(stream') = Len(stream) /\ DOMAIN stream' = DOMAIN stream
        /\ stream'[at] = s /\ \A i \in DOMAIN stream : i # at => stream'[i] = stream[i]
    BY <1>b, <2>1, <2>2, <2>5
  <2>10. consumer[c].pc = "join" /\ consumer[c].at = at
    BY <2>1 DEF q, at
  <2>11. /\ r.pc # "idle" /\ r.pc # "join" /\ r.pc \in {"replay", "serve", "leave"}
         /\ stream'[at].mu = IF r.pc = "replay" THEN c ELSE None
         /\ IF r.pc = "replay" THEN r.todo # <<>> ELSE r.todo = <<>>
    BY <2>4, <2>5, <2>6, <2>9
  <2>12. Increasing(Way(r)) /\ ToSet(Way(r)) \subseteq 1..events
    BY <2>4, <2>7
  <2>13. /\ stream'[at].mode = stream[at].mode /\ stream'[at].size = stream[at].size
         /\ stream'[at].buffer = stream[at].buffer
         /\ stream'[at].attached = stream[at].attached \cup {c}
    BY <2>5, <2>9
  <2>14. /\ at \in DOMAIN stream /\ r \in Requests /\ r.at = at /\ stream[at].mu = None /\ Len(r.ch) <= ChanCap
         /\ UNCHANGED <<named, producer, events, configs>> /\ consumer' = [consumer EXCEPT ![c] = r]
    BY <2>1, <2>2, <2>6, <2>7
  <2>15. (r.from + 1)..events \subseteq ToSet(r.got \o r.ch) \cup r.full
    BY <2>8
  <2>16. QED
    BY <2>9, <2>10, <2>11, <2>12, <2>13, <2>14, <2>15, ConsumerStep
<1>11. ASSUME NEW c \in Consumers, Replay(c)
      PROVE  SSEInv'
  <2> DEFINE q == consumer[c]
             at == q.at
             last == Len(q.todo) = 1
             r == [q EXCEPT !.ch = Append(q.ch, Head(q.todo)), !.todo = Tail(q.todo), !.pc = IF last THEN "serve" ELSE "replay"]
             s == [stream[at] EXCEPT !.mu = IF last THEN None ELSE stream[at].mu]
  <2>1. /\ q.pc = "replay" /\ Len(q.ch) < ChanCap /\ UNCHANGED <<named, producer, events, configs>>
        /\ consumer' = [consumer EXCEPT ![c] = r]
        /\ stream' = IF last THEN [stream EXCEPT ![at].mu = None] ELSE stream
    BY <1>11 DEF Replay, Becomes
  <2>2. at \in DOMAIN stream /\ q.todo # <<>> /\ stream[at].mu = c /\ q \in Requests /\ stream[at] \in StreamRecords
    BY <1>0, <2>1 DEF SSEInv, ConsumersKnow
  <2>3. q.todo \in Seq(Nat) /\ q.ch \in Seq(Nat) /\ q.got \in Seq(Nat)
    BY <1>a
  <2>4. /\ Head(q.todo) \in Nat /\ Tail(q.todo) \in Seq(Nat) /\ Len(q.todo) = Len(Tail(q.todo)) + 1
        /\ Append(q.ch, Head(q.todo)) \in Seq(Nat) /\ Len(Append(q.ch, Head(q.todo))) = Len(q.ch) + 1
        /\ Append(q.got \o q.ch, Head(q.todo)) \o Tail(q.todo) = (q.got \o q.ch) \o q.todo
        /\ q.got \o Append(q.ch, Head(q.todo)) = Append(q.got \o q.ch, Head(q.todo))
        /\ ToSet(Append(q.got \o q.ch, Head(q.todo))) = ToSet(q.got \o q.ch) \cup {Head(q.todo)}
    <3>1. Head(q.todo) \in Nat /\ Tail(q.todo) \in Seq(Nat) /\ Len(q.todo) = Len(Tail(q.todo)) + 1
      BY <2>2, <2>3, HeadConcatTail
    <3>2. q.got \o q.ch \in Seq(Nat)
      BY <2>3, ConcatProperties
    <3>3. Append(q.ch, Head(q.todo)) \in Seq(Nat) /\ Len(Append(q.ch, Head(q.todo))) = Len(q.ch) + 1
      BY <2>3, <3>1, AppendProperties
    <3>4. Append(q.got \o q.ch, Head(q.todo)) \o Tail(q.todo) = (q.got \o q.ch) \o q.todo
      BY <2>2, <2>3, <3>2, AppendHead
    <3> DEFINE e == Head(q.todo)
               g == q.got
               h == q.ch
    <3>a. e \in Nat /\ g \in Seq(Nat) /\ h \in Seq(Nat) /\ g \o h \in Seq(Nat)
      BY <2>3, <3>1, <3>2
    <3> HIDE DEF e, g, h
    <3>b. g \o Append(h, e) = Append(g \o h, e)
      BY ONLY <3>a, AppendConcat
    <3>c. ToSet(Append(g \o h, e)) = ToSet(g \o h) \cup {e}
      <4> DEFINE w == g \o h
      <4>1. w \in Seq(Nat)
        BY <3>a
      <4> HIDE DEF w
      <4>2. ToSet(Append(w, e)) = ToSet(w) \cup {e}
        BY ONLY <3>a, <4>1, ToSetAppend
      <4>3. QED
        BY <4>2 DEF w
    <3>5. q.got \o Append(q.ch, Head(q.todo)) = Append(q.got \o q.ch, Head(q.todo))
      BY <3>b DEF e, g, h
    <3>6. ToSet(Append(q.got \o q.ch, Head(q.todo))) = ToSet(q.got \o q.ch) \cup {Head(q.todo)}
      BY <3>c DEF e, g, h
    <3>7. QED
      BY <3>1, <3>3, <3>4, <3>5, <3>6
  <2>5. IF last THEN Tail(q.todo) = <<>> ELSE Tail(q.todo) # <<>>
    <3>1. Len(Tail(q.todo)) \in Nat /\ (Len(Tail(q.todo)) = 0 <=> Tail(q.todo) = <<>>)
      BY <2>4, EmptySeq, LenProperties
    <3>2. Len(q.todo) = 1 <=> Len(Tail(q.todo)) = 0
      <4> DEFINE n == Len(Tail(q.todo))
      <4>1. n \in Nat /\ Len(q.todo) = n + 1
        BY <2>4, <3>1
      <4> HIDE DEF n
      <4>2. Len(q.todo) = 1 <=> n = 0
        BY ONLY <4>1
      <4>3. QED
        BY <4>2 DEF n
    <3>3. QED
      BY <3>1, <3>2
  <2> HIDE DEF last
  <2>6. /\ r \in Requests /\ r.pc = (IF last THEN "serve" ELSE "replay") /\ r.at = at /\ r.ch = Append(q.ch, Head(q.todo))
        /\ r.got = q.got /\ r.todo = Tail(q.todo) /\ r.from = q.from /\ r.full = q.full
    BY <2>2, <2>4 DEF Requests
  <2>7. /\ s \in StreamRecords /\ s.mode = stream[at].mode /\ s.size = stream[at].size /\ s.buffer = stream[at].buffer
        /\ s.attached = stream[at].attached /\ s.mu = IF last THEN None ELSE stream[at].mu
    BY <2>2 DEF StreamRecords
  <2>8. stream' = [stream EXCEPT ![at] = s]
    <3>1. CASE last
      BY <2>1, <3>1
    <3>2. CASE ~last
      <4>1. s = stream[at]
        BY <2>2, <3>2 DEF StreamRecords
      <4>2. QED
        BY <1>0, <2>1, <2>2, <3>2, <4>1
    <3>3. QED
      BY <3>1, <3>2
  <2>9. (r.got \o r.ch) \o r.todo = (q.got \o q.ch) \o q.todo /\ ToSet(q.got \o q.ch) \subseteq ToSet(r.got \o r.ch)
    BY <2>4, <2>6
  <2> HIDE DEF r, s
  <2>10. Increasing(Way(r)) /\ ToSet(Way(r)) \subseteq 1..events
    BY <1>c, <2>9 DEF Way
  <2>11. /\ r.pc \in {"replay", "serve", "leave"} /\ r.pc # "idle" /\ r.pc # "join"
         /\ IF r.pc = "replay" THEN r.todo # <<>> ELSE r.todo = <<>>
         /\ Len(r.ch) <= ChanCap
    <3>1. Len(q.ch) \in Nat /\ ChanCap \in Nat
      BY <2>3, LenProperties, StreamsAssumption
    <3>2. QED
      <4>1. Len(r.ch) = Len(q.ch) + 1
        BY <2>4, <2>6
      <4>2. Len(r.ch) <= ChanCap
        BY <2>1, <3>1, <4>1
      <4>3. QED
        BY <2>5, <2>6, <4>2
  <2>12. r.at = named /\ Len(stream) = 1 => (r.from + 1)..events \subseteq ToSet(r.got \o r.ch) \cup r.full
    <3>1. q.at = named /\ Len(stream) = 1 => (q.from + 1)..events \subseteq ToSet(q.got \o q.ch) \cup q.full
      BY <2>1 DEF SSEInv, NothingMissed, Missed
    <3>2. QED
      BY <2>6, <2>9, <3>1
  <2>13. c \in stream[at].attached
    BY <2>1, <2>2, WhoIsAttached
  <2> HIDE DEF q, at
  <2>14. consumer[c].pc = "replay" /\ consumer[c].at = at
    BY <2>1 DEF q, at
  <2>15. /\ stream' \in Seq(StreamRecords) /\ Len(stream') = Len(stream) /\ DOMAIN stream' = DOMAIN stream
         /\ stream'[at] = s /\ \A i \in DOMAIN stream : i # at => stream'[i] = stream[i]
    BY <1>b, <2>2, <2>7, <2>8
  <2>16. stream'[at].mu = IF r.pc = "replay" THEN c ELSE None
    BY <2>2, <2>6, <2>7, <2>15
  <2>17. stream'[at].attached = stream[at].attached \cup {c}
    BY <2>7, <2>13, <2>15
  <2>18. /\ stream'[at].mode = stream[at].mode /\ stream'[at].size = stream[at].size
         /\ stream'[at].buffer = stream[at].buffer
    BY <2>7, <2>15
  <2>19. /\ at \in DOMAIN stream /\ r \in Requests /\ r.at = at
         /\ UNCHANGED <<named, producer, events, configs>> /\ consumer' = [consumer EXCEPT ![c] = r]
    BY <2>1, <2>2, <2>6
  <2>20. QED
    BY <2>10, <2>11, <2>12, <2>14, <2>15, <2>16, <2>17, <2>18, <2>19, ConsumerStep
<1>12. ASSUME NEW c \in Consumers, WriteEvent(c)
      PROVE  SSEInv'
  <2> DEFINE q == consumer[c]
             at == q.at
             r == [q EXCEPT !.got = Append(q.got, Head(q.ch)), !.ch = Tail(q.ch)]
  <2>1. /\ q.pc = "serve" /\ q.ch # <<>> /\ UNCHANGED <<named, stream, producer, events, configs>>
        /\ consumer' = [consumer EXCEPT ![c] = r] /\ at \in DOMAIN stream /\ q.todo = <<>>
    BY <1>12 DEF WriteEvent, Becomes, SSEInv, ConsumersKnow
  <2>2. /\ Head(q.ch) \in Nat /\ Tail(q.ch) \in Seq(Nat) /\ Len(q.ch) = Len(Tail(q.ch)) + 1
        /\ Append(q.got, Head(q.ch)) \in Seq(Nat) /\ Append(q.got, Head(q.ch)) \o Tail(q.ch) = q.got \o q.ch
    <3>1. q.ch \in Seq(Nat) /\ q.got \in Seq(Nat)
      BY <1>a
    <3>2. Head(q.ch) \in Nat /\ Tail(q.ch) \in Seq(Nat) /\ Len(q.ch) = Len(Tail(q.ch)) + 1
      BY <2>1, <3>1, HeadConcatTail
    <3>3. Append(q.got, Head(q.ch)) \o Tail(q.ch) = q.got \o q.ch
      BY <2>1, <3>1, AppendHead
    <3>4. QED
      BY <3>1, <3>2, <3>3, AppendProperties
  <2>3. /\ r \in Requests /\ r.pc = "serve" /\ r.at = at /\ r.ch = Tail(q.ch) /\ r.got = Append(q.got, Head(q.ch))
        /\ r.todo = q.todo /\ r.from = q.from /\ r.full = q.full
    <3>1. q \in Requests
      BY <1>0
    <3>2. QED
      BY <2>1, <2>2, <3>1 DEF Requests
  <2>4. Increasing(Way(r)) /\ ToSet(Way(r)) \subseteq 1..events
    <3>1. Way(r) = Way(q)
      BY <2>2, <2>3 DEF Way
    <3>2. QED
      BY <1>c, <3>1
  <2>5. Len(r.ch) <= ChanCap
    <3>1. Len(Tail(q.ch)) \in Nat /\ Len(q.ch) <= ChanCap /\ ChanCap \in Nat
      BY <1>c, <2>2, LenProperties, StreamsAssumption
    <3>2. QED
      BY <2>2, <2>3, <3>1
  <2>6. r.at = named /\ Len(stream) = 1 => (r.from + 1)..events \subseteq ToSet(r.got \o r.ch) \cup r.full
    <3>1. q.at = named /\ Len(stream) = 1 => (q.from + 1)..events \subseteq ToSet(q.got \o q.ch) \cup q.full
      BY <2>1 DEF SSEInv, NothingMissed, Missed
    <3>2. QED
      BY <2>2, <2>3, <3>1
  <2>7. stream[at].attached = stream[at].attached \cup {c}
    BY <2>1, WhoIsAttached
  <2> HIDE DEF r, q, at
  <2>8. consumer[c].pc = "serve" /\ consumer[c].at = at
    BY <2>1 DEF q, at
  <2>9. QED
    BY <1>0, <2>1, <2>3, <2>4, <2>5, <2>6, <2>7, <2>8, ConsumerStep
<1>13. ASSUME NEW c \in Consumers, Detach(c)
      PROVE  SSEInv'
  <2> DEFINE q == consumer[c]
             at == q.at
             r == [q EXCEPT !.pc = "gone", !.ch = <<>>]
             s == [stream[at] EXCEPT !.attached = stream[at].attached \ {c}]
  <2>1. /\ q.pc = "leave" /\ UNCHANGED <<named, producer, events, configs>>
        /\ consumer' = [consumer EXCEPT ![c] = r] /\ stream' = [stream EXCEPT ![at] = s]
        /\ at \in DOMAIN stream /\ q.todo = <<>>
    BY <1>13 DEF Detach, Becomes, SSEInv, ConsumersKnow
  <2>2. /\ q \in Requests /\ stream[at] \in StreamRecords /\ <<>> \in Seq(Nat)
    BY <1>0, <2>1
  <2>3. /\ r \in Requests /\ r.pc = "gone" /\ r.at = at /\ r.ch = <<>> /\ r.got = q.got /\ r.todo = <<>>
    BY <2>1, <2>2 DEF Requests
  <2>4. /\ s \in StreamRecords /\ s.mode = stream[at].mode /\ s.size = stream[at].size /\ s.buffer = stream[at].buffer
        /\ s.attached = stream[at].attached \ {c} /\ s.mu = stream[at].mu
    BY <2>2 DEF StreamRecords
  <2> HIDE DEF r, s
  <2>5. Way(r) = q.got /\ Increasing(q.got) /\ ToSet(q.got) \subseteq ToSet(Way(q)) /\ Len(r.ch) <= ChanCap
    <3>1. q.got \in Seq(Nat) /\ q.ch \in Seq(Nat) /\ q.got \o q.ch \in Seq(Nat)
      BY <1>a, ConcatProperties
    <3>2. q.got \o <<>> = q.got /\ (q.got \o q.ch) \o <<>> = q.got \o q.ch
      BY <3>1, ConcatEmptySeq
    <3>3. Way(r) = q.got /\ Way(q) = q.got \o q.ch
      BY <2>1, <2>3, <3>2 DEF Way
    <3>4. Increasing(q.got)
      BY <1>c, <3>1, <3>3, IncreasingPrefix
    <3>5. ToSet(q.got) \subseteq ToSet(q.got \o q.ch)
      BY <3>1, ToSetConcat
    <3>6. Len(r.ch) = 0 /\ ChanCap \in Nat
      BY <2>3, EmptySeq, StreamsAssumption
    <3>7. QED
      BY <3>3, <3>4, <3>5, <3>6
  <2>6. Increasing(Way(r)) /\ ToSet(Way(r)) \subseteq 1..events
    BY <1>c, <2>5
  <2> HIDE DEF q, at
  <2>7. consumer[c].pc = "leave" /\ consumer[c].at = at
    BY <2>1 DEF q, at
  <2>8. /\ stream' \in Seq(StreamRecords) /\ Len(stream') = Len(stream) /\ DOMAIN stream' = DOMAIN stream
        /\ stream'[at] = s /\ \A i \in DOMAIN stream : i # at => stream'[i] = stream[i]
    BY <1>b, <2>1, <2>4
  <2>9. QED
    BY <2>1, <2>3, <2>4, <2>5, <2>6, <2>7, <2>8, ConsumerStep
<1>14. CASE UNCHANGED sseVars
  BY <1>14 DEF sseVars, SSEInv, SSETypeOK, SSEShape, ProducersKnow, ConsumersKnow, BuffersInOrder, WaysInOrder,
               NothingMissed, Missed
<1>15. QED
  BY <1>1, <1>2, <1>3, <1>4, <1>5, <1>6, <1>7, <1>8, <1>9, <1>10, <1>11, <1>12, <1>13, <1>14
     DEF SSENext, Produce, ConsumerRuns

(* The streams' invariant holds throughout.                                *)
THEOREM StreamsInductive == SSESpec => []SSEInv
<1>1. SSEInit => SSEInv
  <2> SUFFICES ASSUME SSEInit PROVE SSEInv
    OBVIOUS
  <2>1. /\ producer \in [Producers -> ProducerCalls] /\ consumer \in [Consumers -> Requests]
        /\ events = 0 /\ configs = 0 /\ \A p \in Producers : producer[p].pc = "idle"
        /\ \A c \in Consumers : /\ consumer[c].pc = "idle" /\ consumer[c].ch = <<>> /\ consumer[c].todo = <<>>
                                /\ consumer[c].got = <<>>
    BY DEF SSEInit, NoCall, NoRequest, ProducerCalls, Requests
  <2>2. /\ <<>> \in Seq(Nat) /\ Len(<<>>) = 0 /\ Increasing(<<>>) /\ ToSet(<<>>) = {}
        /\ (<<>> \o <<>>) \o <<>> = <<>>
    BY ConcatEmptySeq DEF Increasing, ToSet
  <2>3. /\ stream \in Seq(StreamRecords) /\ named \in DOMAIN stream \cup {None}
        /\ \A i \in DOMAIN stream : /\ stream[i].mode \in Modes /\ stream[i].size \in Sizes /\ stream[i].size \in Nat
                                   /\ stream[i].buffer = <<>> /\ stream[i].attached = {} /\ stream[i].mu = None
    <3>1. CASE named = None /\ stream = <<>>
      BY <3>1
    <3>2. ASSUME NEW z \in Sizes, named = 1, stream = <<NewStream("drop", z)>>
          PROVE  /\ stream \in Seq(StreamRecords) /\ named \in DOMAIN stream \cup {None}
                 /\ \A i \in DOMAIN stream :
                      /\ stream[i].mode \in Modes /\ stream[i].size \in Sizes /\ stream[i].size \in Nat
                      /\ stream[i].buffer = <<>> /\ stream[i].attached = {} /\ stream[i].mu = None
      <4> DEFINE s == NewStream("drop", z)
      <4>1. /\ s \in StreamRecords /\ s.mode \in Modes /\ s.size = z /\ s.buffer = <<>> /\ s.attached = {} /\ s.mu = None
            /\ z \in Nat
        BY StreamsAssumption DEF NewStream, StreamRecords, Modes
      <4> HIDE DEF s
      <4>2. stream = <<s>> /\ DOMAIN stream = {1} /\ stream[1] = s
        BY <3>2 DEF s
      <4>3. stream \in Seq(StreamRecords)
        BY <4>1, <4>2
      <4>4. QED
        BY <3>2, <4>1, <4>2, <4>3
    <3>3. QED
      BY <3>1, <3>2 DEF SSEInit
  <2>4. SSETypeOK
    <3>1. \A i \in DOMAIN stream : {c \in Consumers : consumer[c].at = i /\ consumer[c].pc \in {"replay", "serve", "leave"}} = {}
      BY <2>1
    <3>2. \A z \in Nat : 0 <= z
      OBVIOUS
    <3>3. 0 \in 0..MaxEvents /\ 0 \in 0..MaxConfigs /\ 0 <= ChanCap
      BY StreamsAssumption
    <3>4. QED
      BY <2>1, <2>2, <2>3, <3>1, <3>2, <3>3 DEF SSETypeOK
  <2>5. SSEShape
    BY <2>1, <2>3 DEF SSEShape
  <2>6. ProducersKnow /\ ConsumersKnow /\ NothingMissed
    BY <2>1 DEF ProducersKnow, ConsumersKnow, NothingMissed
  <2>7. BuffersInOrder /\ WaysInOrder
    BY <2>1, <2>2, <2>3 DEF BuffersInOrder, WaysInOrder, Way
  <2>8. QED
    BY <2>4, <2>5, <2>6, <2>7 DEF SSEInv
<1>2. SSEInv /\ [SSENext \/ SSEQuiet]_sseVars => SSEInv'
  BY StepStreams DEF SSEQuiet
<1>3. QED
  BY <1>1, <1>2, PTL DEF SSESpec

(* The buffer of a stream stays within its size, and its lock is held by   *)
(* the request it replays to and by nobody else.                           *)
THEOREM StreamsTypeCorrect == SSESpec => []SSETypeOK
<1>1. SSEInv => SSETypeOK
  BY DEF SSEInv
<1>2. QED
  BY <1>1, StreamsInductive, PTL

(* A consumer gets the replayed events first and then the live ones, each  *)
(* once and in order, and misses none but those that met a full channel.   *)
THEOREM StreamsReplayThenLive == SSESpec => []ReplayThenLive
BY InvReplays, StreamsInductive, PTL

-----------------------------------------------------------------------------
(* The relay *)

RelayShape ==
  /\ link \in [Sides -> {None, "up", "down"}] /\ sentBy \in [Sides -> Nat] /\ lost \in [Sides -> SUBSET Nat]
  /\ pump \in [Sides -> {None, "start", "wait", "write", "report", "gone"}]
  /\ sub \in [Sides -> Seq(Nat) \cup {None}] /\ held \in [Sides -> Nat \cup {None}]
  /\ writeQ \in [Sides -> Seq(Nat)] /\ passed \in [Sides -> Seq(Nat)]

(* A pump has a subscription once it started, and holds a message when it  *)
(* writes one.                                                             *)
PumpStages ==
  /\ stage \in {"dial", "upgrade"} => link["client"] = None /\ \A s \in Sides : pump[s] = None
  /\ stage = "dial" => link["upstream"] = None
  /\ \A s \in Sides :
       /\ pump[s] \in {None, "start"} <=> sub[s] = None
       /\ pump[s] \in {None, "start", "wait"} => held[s] = None
       /\ pump[s] = "write" => held[s] # None

LostWereSent == \A s \in Sides : lost[s] \subseteq 1..sentBy[s]

Whole(s) == Increasing(OnItsWay(s)) /\ ToSet(OnItsWay(s)) = (1..sentBy[s]) \ lost[s]

(* What RelayedInOrder says holds from the start until a side is down.     *)
NothingAstray ==
  \A s \in Sides : link[s] # "down" /\ link[Other(s)] # "down" => Whole(s)

RelayInv == RelayTypeOK /\ RelayShape /\ PumpStages /\ LostWereSent /\ NothingAstray

(* The types of the parts of a way.                                        *)
LEMMA PartsOfWay ==
  ASSUME RelayInv, NEW s \in Sides
  PROVE  /\ Other(s) \in Sides /\ Other(s) # s /\ Other(Other(s)) = s
         /\ passed[Other(s)] \in Seq(Nat) /\ writeQ[Other(s)] \in Seq(Nat)
         /\ held[s] \in Nat \cup {None} /\ sub[s] \in Seq(Nat) \cup {None}
         /\ sentBy[s] \in Nat /\ lost[s] \in SUBSET Nat
BY DEF RelayInv, RelayShape, Other, Sides

(* A step that moves no message.                                           *)
LEMMA WayStays ==
  ASSUME RelayInv, UNCHANGED <<sentBy, lost, sub, held, writeQ, passed>>,
         \A s \in Sides : link'[s] # "down" => link[s] # "down"
  PROVE  LostWereSent' /\ NothingAstray'
<1>1. LostWereSent'
  BY DEF RelayInv, LostWereSent
<1>2. ASSUME NEW s \in Sides, link'[s] # "down", link'[Other(s)] # "down"
      PROVE  Whole(s)'
  <2>1. Whole(s)
    BY <1>2, PartsOfWay DEF RelayInv, NothingAstray
  <2>2. QED
    BY <2>1 DEF Whole, OnItsWay, Other
<1>3. QED
  BY <1>1, <1>2 DEF NothingAstray, Other

(* A step that moves messages about, and loses and adds none.              *)
LEMMA WayKept ==
  ASSUME RelayInv, UNCHANGED <<link, sentBy, lost>>,
         \A s \in Sides : link[s] # "down" /\ link[Other(s)] # "down" => OnItsWay(s)' = OnItsWay(s)
  PROVE  LostWereSent' /\ NothingAstray'
<1>1. LostWereSent'
  BY DEF RelayInv, LostWereSent
<1>2. ASSUME NEW s \in Sides, link'[s] # "down", link'[Other(s)] # "down"
      PROVE  Whole(s)'
  <2>1. Whole(s) /\ OnItsWay(s)' = OnItsWay(s) /\ sentBy' = sentBy /\ lost' = lost
    BY <1>2 DEF RelayInv, NothingAstray
  <2> HIDE DEF OnItsWay
  <2>2. QED
    BY <2>1 DEF Whole
<1>3. QED
  BY <1>1, <1>2 DEF NothingAstray, Other

LEMMA StepRelay == RelayInv /\ [RelayNext]_relVars => RelayInv'
<1> SUFFICES ASSUME RelayInv, [RelayNext]_relVars PROVE RelayInv'
  OBVIOUS
<1>0. /\ RelayShape /\ RelayTypeOK /\ PumpStages /\ LostWereSent
      /\ \A s \in Sides : Other(s) \in Sides /\ Other(s) # s /\ Other(Other(s)) = s
      /\ "client" \in Sides /\ "upstream" \in Sides /\ Other("client") = "upstream" /\ Other("upstream") = "client"
  BY DEF RelayInv, Other, Sides
<1>n. None \notin {"up", "down", "start", "wait", "write", "report", "gone"} /\ None \notin Nat /\ None \notin Seq(Nat)
  BY RelayAssumption
<1> HIDE DEF Other, Sides
<1>1. CASE DialUpstream
  <2>1. /\ UNCHANGED <<sentBy, lost, sub, pump, held, writeQ, passed, reports>> /\ stage = "dial"
        /\ \/ stage' = "upgrade" /\ link' = [link EXCEPT !["upstream"] = "up"] /\ link["upstream"] # "down"
           \/ stage' = "over" /\ link' = link
    BY <1>0, <1>n, <1>1 DEF DialUpstream, PumpStages
  <2>2. \A s \in Sides : link'[s] # "down" => link[s] # "down"
    BY <1>0, <2>1 DEF RelayShape
  <2>3. RelayShape'
    BY <1>0, <2>1 DEF RelayShape
  <2>4. RelayTypeOK'
    BY <1>0, <2>1, <2>2, <2>3 DEF RelayTypeOK, RelayShape
  <2>5. PumpStages'
    <3>1. link'["client"] = link["client"]
      BY <1>0, <2>1 DEF RelayShape
    <3>2. QED
      BY <1>0, <2>1, <3>1 DEF PumpStages
  <2>6. QED
    BY <2>1, <2>2, <2>3, <2>4, <2>5, WayStays DEF RelayInv
<1>2. CASE UpgradeClient
  <2>1. /\ UNCHANGED <<sentBy, lost, sub, held, writeQ, passed, reports>> /\ stage = "upgrade" /\ link["client"] = None
        /\ \/ /\ stage' = "wait" /\ link' = [link EXCEPT !["client"] = "up"]
              /\ pump' = [s \in Sides |-> "start"]
           \/ stage' = "closing" /\ link' = link /\ pump' = pump
    BY <1>0, <1>2 DEF UpgradeClient, All, PumpStages
  <2>2. \A s \in Sides : link'[s] # "down" => link[s] # "down"
    BY <1>0, <1>n, <2>1 DEF RelayShape
  <2>3. RelayShape'
    <3>1. link' \in [Sides -> {None, "up", "down"}]
      <4>1. link' = link \/ link' = [link EXCEPT !["client"] = "up"]
        BY <2>1
      <4>2. QED
        BY <1>0, <4>1 DEF RelayShape
    <3>2. pump' \in [Sides -> {None, "start", "wait", "write", "report", "gone"}]
      BY <1>0, <2>1 DEF RelayShape
    <3>3. QED
      BY <1>0, <2>1, <3>1, <3>2 DEF RelayShape
  <2>4. PumpStages'
    BY <1>0, <2>1 DEF PumpStages
  <2>5. RelayTypeOK'
    BY <1>0, <2>1, <2>3, <2>4 DEF RelayTypeOK, RelayShape, PumpStages
  <2>6. QED
    BY <2>1, <2>2, <2>3, <2>4, <2>5, WayStays DEF RelayInv
<1>3. CASE FirstReport
  <2>1. /\ UNCHANGED <<link, sentBy, lost, sub, pump, held, writeQ, passed>> /\ stage' = "closing"
        /\ reports > 0 /\ reports' = reports - 1 /\ reports \in 0..2
    BY <1>0, <1>3 DEF FirstReport, RelayTypeOK
  <2>2. reports' \in 0..2
    BY <2>1
  <2>3. RelayShape' /\ PumpStages'
    BY <1>0, <2>1 DEF RelayShape, PumpStages
  <2>4. RelayTypeOK'
    BY <1>0, <2>1, <2>2 DEF RelayTypeOK
  <2>5. QED
    BY <2>1, <2>3, <2>4, WayStays DEF RelayInv
<1>4. CASE CloseBoth
  <2>1. /\ UNCHANGED <<sentBy, lost, sub, pump, held, writeQ, passed, reports>> /\ stage' = "over"
        /\ link' = [s \in Sides |-> IF link[s] = None THEN None ELSE "down"]
    BY <1>4 DEF CloseBoth
  <2>2. \A s \in Sides : link'[s] # "down" => link[s] # "down"
    BY <1>n, <2>1
  <2>3. RelayShape' /\ PumpStages'
    BY <1>0, <2>1 DEF RelayShape, PumpStages
  <2>4. RelayTypeOK'
    <3>1. \A s \in Sides : link'[s] \in {None, "up", "down"} /\ (link[s] = "down" => link'[s] = "down")
      BY <1>n, <2>1
    <3>2. QED
      BY <1>0, <2>1, <3>1 DEF RelayTypeOK
  <2>5. QED
    BY <2>1, <2>2, <2>3, <2>4, WayStays DEF RelayInv
<1>5. ASSUME NEW s \in Sides, SubscribeTo(s)
      PROVE  RelayInv'
  <2>1. /\ UNCHANGED <<stage, link, sentBy, lost, held, writeQ, passed, reports>> /\ pump[s] = "start"
        /\ pump' = [pump EXCEPT ![s] = "wait"] /\ sub' = [sub EXCEPT ![s] = <<>>] /\ sub[s] = None /\ held[s] = None
    BY <1>0, <1>5 DEF SubscribeTo, PumpStages
  <2>2. RelayShape'
    <3>1. <<>> \in Seq(Nat)
      OBVIOUS
    <3>2. QED
      BY <1>0, <2>1, <3>1 DEF RelayShape
  <2>3. <<>> # None /\ Len(<<>>) = 0
    <3>1. <<>> \in Seq(Nat) /\ Len(<<>>) = 0
      OBVIOUS
    <3>2. QED
      BY <1>n, <3>1
  <2>4. /\ \A x \in Sides : pump'[x] = IF x = s THEN "wait" ELSE pump[x]
        /\ \A x \in Sides : sub'[x] = IF x = s THEN <<>> ELSE sub[x]
    BY <1>0, <2>1 DEF RelayShape
  <2>5. PumpStages'
    BY <1>0, <1>n, <2>1, <2>3, <2>4 DEF PumpStages
  <2>6. RelayTypeOK'
    <3>1. 0 <= PumpCap
      BY RelayAssumption
    <3>2. QED
      BY <1>0, <2>1, <2>3, <2>4, <2>5, <3>1 DEF RelayTypeOK, PumpStages
  <2>7. \A x \in Sides : OnItsWay(x)' = OnItsWay(x)
    BY <2>1, <2>3, <2>4 DEF OnItsWay, Other
  <2>8. QED
    BY <2>1, <2>2, <2>5, <2>6, <2>7, WayKept DEF RelayInv
<1>6. ASSUME NEW s \in Sides, PumpTakes(s)
      PROVE  RelayInv'
  <2> DEFINE q == sub[s]
  <2>1. /\ UNCHANGED <<stage, link, sentBy, lost, writeQ, passed, reports>> /\ pump[s] = "wait" /\ q # <<>>
        /\ pump' = [pump EXCEPT ![s] = "write"] /\ held' = [held EXCEPT ![s] = Head(q)]
        /\ sub' = [sub EXCEPT ![s] = Tail(q)]
    BY <1>6 DEF PumpTakes
  <2>2. /\ q \in Seq(Nat) /\ held[s] = None /\ q # None
    BY <1>0, <1>n, <2>1 DEF PumpStages, RelayShape
  <2>3. Head(q) \in Nat /\ Tail(q) \in Seq(Nat) /\ Len(q) = Len(Tail(q)) + 1 /\ Len(Tail(q)) \in Nat
    BY <2>1, <2>2, HeadConcatTail, LenProperties
  <2>4. Head(q) # None /\ Tail(q) # None
    BY <1>n, <2>3
  <2>5. RelayShape'
    BY <1>0, <2>1, <2>3 DEF RelayShape
  <2>6. /\ \A x \in Sides : pump'[x] = IF x = s THEN "write" ELSE pump[x]
        /\ \A x \in Sides : sub'[x] = IF x = s THEN Tail(q) ELSE sub[x]
        /\ \A x \in Sides : held'[x] = IF x = s THEN Head(q) ELSE held[x]
    BY <1>0, <2>1 DEF RelayShape
  <2>7. PumpStages'
    BY <1>0, <1>n, <2>1, <2>2, <2>4, <2>6 DEF PumpStages
  <2>8. RelayTypeOK'
    <3>1. Len(q) <= PumpCap
      BY <1>0, <2>2 DEF RelayTypeOK
    <3>2. Len(Tail(q)) <= PumpCap
      BY <2>3, <3>1, RelayAssumption
    <3> HIDE DEF q
    <3>3. \A x \in Sides : pump'[x] \in {None, "start", "wait", "write", "report", "gone"} /\ (sub'[x] = None \/ Len(sub'[x]) <= PumpCap)
      BY <1>0, <2>6, <3>2 DEF RelayTypeOK
    <3>4. \A x \in Sides : (held'[x] # None) = (pump'[x] = "write") \/ link'[Other(x)] = "down"
      BY <1>0, <2>1, <2>4, <2>6 DEF RelayTypeOK
    <3>5. QED
      BY <1>0, <2>1, <3>3, <3>4 DEF RelayTypeOK
  <2>9. ASSUME NEW x \in Sides
        PROVE  OnItsWay(x)' = OnItsWay(x)
    <3>1. CASE x = s
      <4> DEFINE w == passed[Other(s)] \o writeQ[Other(s)]
      <4>1. passed[Other(s)] \in Seq(Nat) /\ writeQ[Other(s)] \in Seq(Nat)
        BY PartsOfWay
      <4>2. w \in Seq(Nat)
        BY <4>1, ConcatProperties
      <4>3. OnItsWay(s) = (w \o <<>>) \o q /\ OnItsWay(s)' = (w \o <<Head(q)>>) \o Tail(q)
        BY <2>1, <2>2, <2>4, <2>6 DEF OnItsWay
      <4> HIDE DEF w, q
      <4>4. w \o <<>> = w /\ w \o <<Head(q)>> = Append(w, Head(q))
        BY <2>3, <4>2, ConcatEmptySeq, AppendIsConcat
      <4>5. Append(w, Head(q)) \o Tail(q) = w \o q
        BY ONLY <2>1, <2>2, <4>2, AppendHead
      <4>6. QED
        BY <3>1, <4>3, <4>4, <4>5
    <3>2. CASE x # s
      <4>1. held'[x] = held[x] /\ sub'[x] = sub[x]
        BY <2>6, <3>2
      <4>2. /\ (IF held'[x] = None THEN <<>> ELSE <<held'[x]>>) = (IF held[x] = None THEN <<>> ELSE <<held[x]>>)
            /\ (IF sub'[x] = None THEN <<>> ELSE sub'[x]) = (IF sub[x] = None THEN <<>> ELSE sub[x])
        BY <4>1
      <4>3. QED
        BY <2>1, <4>2 DEF OnItsWay
    <3>3. QED
      BY <3>1, <3>2
  <2>10. QED
    BY <2>1, <2>5, <2>7, <2>8, <2>9, WayKept DEF RelayInv
<1>7. ASSUME NEW s \in Sides, PumpWrites(s)
      PROVE  RelayInv'
  <2> DEFINE o == Other(s)
             h == held[s]
  <2>1. /\ UNCHANGED <<stage, link, sentBy, lost, sub, passed, reports>> /\ pump[s] = "write" /\ Len(writeQ[o]) < OutCap
        /\ pump' = [pump EXCEPT ![s] = "wait"] /\ held' = [held EXCEPT ![s] = None]
        /\ writeQ' = [writeQ EXCEPT ![o] = Append(writeQ[o], h)]
    BY <1>7 DEF PumpWrites
  <2>2. h \in Nat /\ writeQ[o] \in Seq(Nat) /\ o \in Sides /\ o # s /\ Other(o) = s
    BY <1>0, <2>1 DEF PumpStages, RelayShape
  <2>3. Append(writeQ[o], h) \in Seq(Nat) /\ Len(Append(writeQ[o], h)) = Len(writeQ[o]) + 1 /\ Len(writeQ[o]) \in Nat
    BY <2>2, AppendProperties, LenProperties
  <2>4. RelayShape'
    BY <1>0, <2>1, <2>3 DEF RelayShape
  <2>5. /\ \A x \in Sides : pump'[x] = IF x = s THEN "wait" ELSE pump[x]
        /\ \A x \in Sides : held'[x] = IF x = s THEN None ELSE held[x]
        /\ \A x \in Sides : writeQ'[x] = IF x = o THEN Append(writeQ[o], h) ELSE writeQ[x]
    BY <1>0, <2>1, <2>2 DEF RelayShape
  <2>6. PumpStages'
    BY <1>0, <1>n, <2>1, <2>5 DEF PumpStages
  <2>7. RelayTypeOK'
    <3>1. Len(Append(writeQ[o], h)) <= OutCap
      BY <2>1, <2>3, RelayAssumption
    <3> HIDE DEF o, h
    <3>2. \A x \in Sides : Len(writeQ'[x]) <= OutCap
      BY <1>0, <2>5, <3>1 DEF RelayTypeOK
    <3>3. \A x \in Sides : /\ pump'[x] \in {None, "start", "wait", "write", "report", "gone"}
                           /\ (held'[x] # None) = (pump'[x] = "write") \/ link'[Other(x)] = "down"
      BY <1>0, <2>1, <2>5 DEF RelayTypeOK
    <3>4. QED
      BY <1>0, <2>1, <3>2, <3>3 DEF RelayTypeOK
  <2>8. ASSUME NEW x \in Sides
        PROVE  OnItsWay(x)' = OnItsWay(x)
    <3>1. CASE x = s
      <4> DEFINE p == passed[o]
                 w == writeQ[o]
                 q == IF sub[s] = None THEN <<>> ELSE sub[s]
      <4>1. p \in Seq(Nat) /\ w \in Seq(Nat)
        BY PartsOfWay
      <4>2. OnItsWay(s) = ((p \o w) \o <<h>>) \o q
        BY <1>n, <2>2 DEF OnItsWay
      <4>3. OnItsWay(s)' = ((p \o Append(w, h)) \o <<>>) \o q
        BY <1>0, <2>1, <2>2, <2>5 DEF OnItsWay
      <4> HIDE DEF p, w, q, h, o
      <4>4. p \o w \in Seq(Nat) /\ p \o Append(w, h) = Append(p \o w, h)
        BY <2>2, <4>1, ConcatProperties, AppendConcat
      <4>5. (p \o w) \o <<h>> = Append(p \o w, h) /\ Append(p \o w, h) \in Seq(Nat)
        BY <2>2, <4>4, AppendIsConcat, AppendProperties
      <4>6. Append(p \o w, h) \o <<>> = Append(p \o w, h)
        BY <4>5, ConcatEmptySeq
      <4>7. QED
        BY <3>1, <4>2, <4>3, <4>4, <4>5, <4>6
    <3>2. CASE x # s
      <4>1. Other(x) # o
        BY <1>0, <2>2, <3>2
      <4>2. writeQ'[Other(x)] = writeQ[Other(x)]
        BY <1>0, <2>5, <4>1
      <4>3. held'[x] = held[x]
        BY <2>5, <3>2
      <4>4. (IF held'[x] = None THEN <<>> ELSE <<held'[x]>>) = (IF held[x] = None THEN <<>> ELSE <<held[x]>>)
        BY <4>3
      <4>5. QED
        BY <2>1, <4>2, <4>4 DEF OnItsWay
    <3>3. QED
      BY <3>1, <3>2
  <2>9. QED
    BY <2>1, <2>4, <2>6, <2>7, <2>8, WayKept DEF RelayInv
<1>8. ASSUME NEW s \in Sides, PumpEnds(s)
      PROVE  RelayInv'
  <2>1. /\ UNCHANGED <<stage, link, sentBy, lost, sub, held, writeQ, passed, reports>>
        /\ pump' = [pump EXCEPT ![s] = "report"]
        /\ \/ pump[s] = "write" /\ link[Other(s)] = "down"
           \/ pump[s] = "wait"
    BY <1>8 DEF PumpEnds
  <2>2. RelayShape'
    BY <1>0, <2>1 DEF RelayShape
  <2>3. \A x \in Sides : pump'[x] = IF x = s THEN "report" ELSE pump[x]
    BY <1>0, <2>1 DEF RelayShape
  <2>4. PumpStages'
    BY <1>0, <1>n, <2>1, <2>3 DEF PumpStages
  <2>5. RelayTypeOK'
    <3>1. \A x \in Sides : (held'[x] # None) = (pump'[x] = "write") \/ link'[Other(x)] = "down"
      BY <1>0, <2>1, <2>3 DEF RelayTypeOK, PumpStages
    <3>2. QED
      BY <1>0, <2>1, <2>3, <3>1 DEF RelayTypeOK
  <2>6. QED
    BY <2>1, <2>2, <2>4, <2>5, WayStays DEF RelayInv
<1>9. ASSUME NEW s \in Sides, Reports(s)
      PROVE  RelayInv'
  <2>1. /\ UNCHANGED <<stage, link, sentBy, lost, sub, held, writeQ, passed>> /\ pump[s] = "report"
        /\ pump' = [pump EXCEPT ![s] = "gone"] /\ reports < 2 /\ reports' = reports + 1 /\ reports \in 0..2
    BY <1>0, <1>9 DEF Reports, RelayTypeOK
  <2>2. reports' \in 0..2
    BY <2>1
  <2>3. RelayShape'
    BY <1>0, <2>1 DEF RelayShape
  <2>4. \A x \in Sides : pump'[x] = IF x = s THEN "gone" ELSE pump[x]
    BY <1>0, <2>1 DEF RelayShape
  <2>5. PumpStages'
    BY <1>0, <1>n, <2>1, <2>4 DEF PumpStages
  <2>6. RelayTypeOK'
    BY <1>0, <2>1, <2>2, <2>4 DEF RelayTypeOK
  <2>7. QED
    BY <2>1, <2>3, <2>5, <2>6, WayStays DEF RelayInv
<1>10. ASSUME NEW s \in Sides, PeerSends(s)
       PROVE  RelayInv'
  <2> DEFINE n == sentBy[s] + 1
             q == sub[s]
  <2>1. /\ UNCHANGED <<stage, link, pump, held, writeQ, passed, reports>> /\ sentBy[s] < MaxSent[s]
        /\ sentBy' = [sentBy EXCEPT ![s] = n]
        /\ \/ q # None /\ Len(q) < PumpCap /\ sub' = [sub EXCEPT ![s] = Append(q, n)] /\ lost' = lost
           \/ lost' = [lost EXCEPT ![s] = lost[s] \cup {n}] /\ sub' = sub
    BY <1>10 DEF PeerSends
  <2>2. /\ q \in Seq(Nat) \cup {None} /\ lost[s] \in SUBSET Nat /\ sentBy[s] \in Nat /\ n \in Nat /\ lost[s] \subseteq 1..sentBy[s]
        /\ sentBy[s] \in 0..MaxSent[s] /\ MaxSent[s] \in Nat /\ lost[s] \subseteq 1..MaxSent[s]
    BY <1>0, RelayAssumption, SMTT(40) DEF RelayShape, LostWereSent, RelayTypeOK
  <2>3. n \in 0..MaxSent[s] /\ 1..n = (1..sentBy[s]) \cup {n} /\ n \notin 1..sentBy[s] /\ n \in 1..MaxSent[s]
    BY <2>1, <2>2
  <2>4. q # None => /\ Append(q, n) \in Seq(Nat) /\ Len(Append(q, n)) = Len(q) + 1 /\ Len(q) \in Nat
                    /\ Append(q, n) # None
    <3> SUFFICES ASSUME q # None
                 PROVE  /\ Append(q, n) \in Seq(Nat) /\ Len(Append(q, n)) = Len(q) + 1 /\ Len(q) \in Nat
                        /\ Append(q, n) # None
      OBVIOUS
    <3>1. q \in Seq(Nat) /\ n \in Nat
      BY <2>2
    <3> HIDE DEF q, n
    <3>2. Append(q, n) \in Seq(Nat) /\ Len(Append(q, n)) = Len(q) + 1
      BY ONLY <3>1, AppendProperties
    <3>3. QED
      BY <1>n, <3>1, <3>2, LenProperties
  <2>5. RelayShape'
    <3>1. sentBy' \in [Sides -> Nat]
      BY <1>0, <2>1, <2>2 DEF RelayShape
    <3>2. lost' \in [Sides -> SUBSET Nat]
      <4>1. lost' = lost \/ lost' = [lost EXCEPT ![s] = lost[s] \cup {n}]
        BY <2>1
      <4>2. lost[s] \cup {n} \in SUBSET Nat
        BY <2>2
      <4>3. QED
        BY <1>0, <4>1, <4>2 DEF RelayShape
    <3>3. sub' \in [Sides -> Seq(Nat) \cup {None}]
      BY <1>0, <2>1, <2>4, ZenonT(40) DEF RelayShape
    <3>4. QED
      BY <1>0, <2>1, <3>1, <3>2, <3>3 DEF RelayShape
  <2>6. /\ \A x \in Sides : sentBy'[x] = IF x = s THEN n ELSE sentBy[x]
        /\ \A x \in Sides : x # s => sub'[x] = sub[x] /\ lost'[x] = lost[x]
        /\ \/ q # None /\ Len(q) < PumpCap /\ sub'[s] = Append(q, n) /\ lost'[s] = lost[s]
           \/ lost'[s] = lost[s] \cup {n} /\ sub'[s] = q
    BY <1>0, <2>1 DEF RelayShape
  <2> HIDE DEF n
  <2>7. PumpStages'
    <3>1. sub'[s] = None <=> sub[s] = None
      BY <2>4, <2>6
    <3>2. QED
      BY <1>0, <2>1, <2>6, <3>1 DEF PumpStages
  <2>8. RelayTypeOK'
    <3>1. sub'[s] = None \/ Len(sub'[s]) <= PumpCap
      <4>1. CASE q # None /\ Len(q) < PumpCap /\ sub'[s] = Append(q, n)
        BY <2>4, <4>1, RelayAssumption
      <4>2. CASE sub'[s] = q
        BY <1>0, <4>2 DEF RelayTypeOK
      <4>3. QED
        BY <2>6, <4>1, <4>2
    <3>2. sentBy'[s] \in 0..MaxSent[s] /\ lost'[s] \subseteq 1..MaxSent[s]
      BY <2>2, <2>3, <2>6
    <3>3. \A x \in Sides : sentBy'[x] \in 0..MaxSent[x] /\ lost'[x] \subseteq 1..MaxSent[x]
                           /\ (sub'[x] = None \/ Len(sub'[x]) <= PumpCap)
      BY <1>0, <2>6, <3>1, <3>2 DEF RelayTypeOK
    <3>4. QED
      BY <1>0, <2>1, <3>3 DEF RelayTypeOK
  <2>9. LostWereSent'
    <3>1. lost'[s] \subseteq 1..sentBy'[s]
      BY <2>2, <2>3, <2>6
    <3>2. QED
      BY <1>0, <2>6, <3>1 DEF LostWereSent
  <2>10. ASSUME NEW x \in Sides, x # s
         PROVE  OnItsWay(x)' = OnItsWay(x) /\ sentBy'[x] = sentBy[x] /\ lost'[x] = lost[x]
    BY <2>1, <2>6, <2>10 DEF OnItsWay
  <2>11. ASSUME Whole(s)
         PROVE  Whole(s)'
    <3> DEFINE w == (passed[Other(s)] \o writeQ[Other(s)]) \o (IF held[s] = None THEN <<>> ELSE <<held[s]>>)
    <3>1. w \in Seq(Nat)
      <4>1. passed[Other(s)] \in Seq(Nat) /\ writeQ[Other(s)] \in Seq(Nat) /\ held[s] \in Nat \cup {None}
        BY PartsOfWay
      <4>2. (IF held[s] = None THEN <<>> ELSE <<held[s]>>) \in Seq(Nat)
        BY <4>1
      <4>3. passed[Other(s)] \o writeQ[Other(s)] \in Seq(Nat)
        BY <4>1, ConcatProperties
      <4>4. QED
        BY <4>2, <4>3, ConcatProperties
    <3>2. OnItsWay(s) = w \o (IF sub[s] = None THEN <<>> ELSE sub[s])
          /\ OnItsWay(s)' = w \o (IF sub'[s] = None THEN <<>> ELSE sub'[s])
      BY <2>1 DEF OnItsWay
    <3> HIDE DEF w, OnItsWay
    <3>3. CASE q # None /\ sub'[s] = Append(q, n) /\ lost'[s] = lost[s]
      <4>1. OnItsWay(s) = w \o q /\ OnItsWay(s)' = w \o Append(q, n) /\ q \in Seq(Nat) /\ n \in Nat
        BY <2>2, <2>4, <3>2, <3>3
      <4> DEFINE v == w \o q
      <4>2. v \in Seq(Nat) /\ w \o Append(q, n) = Append(v, n)
        <5> HIDE DEF q, n
        <5>1. w \o q \in Seq(Nat)
          BY ONLY <3>1, <4>1, ConcatProperties
        <5>2. w \o Append(q, n) = Append(w \o q, n)
          BY ONLY <3>1, <4>1, AppendConcat
        <5>3. QED
          BY <5>1, <5>2
      <4>3. Increasing(v) /\ ToSet(v) = (1..sentBy[s]) \ lost[s]
        BY <2>11, <4>1 DEF Whole
      <4> HIDE DEF v
      <4>4. \A k \in ToSet(v) : k < n
        BY <2>2, <4>3 DEF n
      <4>5. Increasing(Append(v, n))
        BY ONLY <4>1, <4>2, <4>3, <4>4, IncreasingAppend
      <4>6. ToSet(Append(v, n)) = ToSet(v) \cup {n}
        BY ONLY <4>1, <4>2, ToSetAppend
      <4>7. ToSet(Append(v, n)) = (1..sentBy'[s]) \ lost'[s]
        BY <2>2, <2>3, <2>6, <3>3, <4>3, <4>6
      <4>8. OnItsWay(s)' = Append(v, n)
        BY <4>1, <4>2
      <4>9. QED
        BY <4>5, <4>7, <4>8 DEF Whole
    <3>4. CASE lost'[s] = lost[s] \cup {n} /\ sub'[s] = q
      <4>1. OnItsWay(s)' = OnItsWay(s)
        BY <3>2, <3>4
      <4>2. (1..sentBy'[s]) \ lost'[s] = (1..sentBy[s]) \ lost[s]
        BY <2>2, <2>3, <2>6, <3>4
      <4>3. QED
        BY <2>11, <4>1, <4>2 DEF Whole
    <3>5. QED
      BY <2>6, <3>3, <3>4
  <2>12. NothingAstray'
    <3> SUFFICES ASSUME NEW x \in Sides, link'[x] # "down", link'[Other(x)] # "down"
                 PROVE  Whole(x)'
      BY DEF NothingAstray, Other
    <3>1. Whole(x)
      BY <2>1 DEF RelayInv, NothingAstray
    <3>2. CASE x = s
      BY <2>11, <3>1, <3>2
    <3>3. CASE x # s
      <4>1. OnItsWay(x)' = OnItsWay(x) /\ sentBy'[x] = sentBy[x] /\ lost'[x] = lost[x]
        BY <2>10, <3>3
      <4> HIDE DEF OnItsWay
      <4>2. QED
        BY <3>1, <4>1 DEF Whole
    <3>4. QED
      BY <3>2, <3>3
  <2>13. QED
    BY <2>5, <2>7, <2>8, <2>9, <2>12 DEF RelayInv
<1>11. ASSUME NEW s \in Sides, PeerReads(s)
       PROVE  RelayInv'
  <2> DEFINE w == writeQ[s]
             p == passed[s]
  <2>1. /\ UNCHANGED <<stage, link, sentBy, lost, sub, pump, held, reports>> /\ w # <<>>
        /\ writeQ' = [writeQ EXCEPT ![s] = Tail(w)] /\ passed' = [passed EXCEPT ![s] = Append(p, Head(w))]
    BY <1>11 DEF PeerReads
  <2>2. w \in Seq(Nat) /\ p \in Seq(Nat)
    BY <1>0 DEF RelayShape
  <2>3. Head(w) \in Nat /\ Tail(w) \in Seq(Nat) /\ Len(w) = Len(Tail(w)) + 1 /\ Len(Tail(w)) \in Nat /\ Append(p, Head(w)) \in Seq(Nat)
    BY <2>1, <2>2, HeadConcatTail, LenProperties, AppendProperties
  <2>4. RelayShape'
    BY <1>0, <2>1, <2>3 DEF RelayShape
  <2>5. /\ \A x \in Sides : writeQ'[x] = IF x = s THEN Tail(w) ELSE writeQ[x]
        /\ \A x \in Sides : passed'[x] = IF x = s THEN Append(p, Head(w)) ELSE passed[x]
    BY <1>0, <2>1 DEF RelayShape
  <2>6. PumpStages'
    BY <1>0, <2>1 DEF PumpStages
  <2>7. RelayTypeOK'
    <3>1. Len(w) <= OutCap
      BY <1>0 DEF RelayTypeOK
    <3>2. Len(Tail(w)) <= OutCap
      BY <2>3, <3>1, RelayAssumption
    <3> HIDE DEF w
    <3>3. \A x \in Sides : Len(writeQ'[x]) <= OutCap
      BY <1>0, <2>5, <3>2 DEF RelayTypeOK
    <3>4. QED
      BY <1>0, <2>1, <3>3 DEF RelayTypeOK
  <2>8. Append(p, Head(w)) \o Tail(w) = p \o w
    BY <2>1, <2>2, AppendHead
  <2>9. ASSUME NEW x \in Sides
        PROVE  OnItsWay(x)' = OnItsWay(x)
    <3>1. passed'[Other(x)] \o writeQ'[Other(x)] = passed[Other(x)] \o writeQ[Other(x)]
      BY <1>0, <2>5, <2>8
    <3>2. QED
      BY <2>1, <3>1 DEF OnItsWay
  <2>10. QED
    BY <2>1, <2>4, <2>6, <2>7, <2>9, WayKept DEF RelayInv
<1>12. ASSUME NEW s \in Sides, PeerLeaves(s)
       PROVE  RelayInv'
  <2>1. /\ UNCHANGED <<stage, sentBy, lost, sub, pump, held, writeQ, passed, reports>>
        /\ link[s] = "up" /\ link' = [link EXCEPT ![s] = "down"]
    BY <1>12 DEF PeerLeaves
  <2>2. \A x \in Sides : link'[x] = IF x = s THEN "down" ELSE link[x]
    BY <1>0, <2>1 DEF RelayShape
  <2>3. RelayShape' /\ PumpStages'
    <3>1. RelayShape'
      BY <1>0, <2>1 DEF RelayShape
    <3>2. PumpStages'
      BY <1>0, <1>n, <2>1, <2>2 DEF PumpStages
    <3>3. QED
      BY <3>1, <3>2
  <2>4. RelayTypeOK'
    BY <1>0, <2>1, <2>2 DEF RelayTypeOK
  <2>5. \A x \in Sides : link'[x] # "down" => link[x] # "down"
    BY <2>2
  <2>6. QED
    BY <2>1, <2>3, <2>4, <2>5, WayStays DEF RelayInv
<1>13. CASE UNCHANGED relVars
  BY <1>13 DEF relVars, RelayInv, RelayTypeOK, RelayShape, PumpStages, LostWereSent, NothingAstray, Whole, OnItsWay, Other
<1>14. QED
  BY <1>1, <1>2, <1>3, <1>4, <1>5, <1>6, <1>7, <1>8, <1>9, <1>10, <1>11, <1>12, <1>13
     DEF RelayNext, Handler, Pump

(* The relay's invariant holds throughout.                                 *)
THEOREM RelayInductive == RelaySpec => []RelayInv
<1>1. RelayInit => RelayInv
  <2> SUFFICES ASSUME RelayInit PROVE RelayInv
    OBVIOUS
  <2>1. /\ stage = "dial" /\ reports = 0
        /\ \A s \in Sides : /\ link[s] = None /\ sentBy[s] = 0 /\ lost[s] = {} /\ sub[s] = None /\ pump[s] = None
                            /\ held[s] = None /\ writeQ[s] = <<>> /\ passed[s] = <<>> /\ Other(s) \in Sides
    BY DEF RelayInit, All, Other, Sides
  <2>2. /\ <<>> \in Seq(Nat) /\ Len(<<>>) = 0 /\ Increasing(<<>>) /\ ToSet(<<>>) = {}
        /\ ((<<>> \o <<>>) \o <<>>) \o <<>> = <<>>
    BY ConcatEmptySeq DEF Increasing, ToSet
  <2>3. RelayShape
    <3>1. 0 \in Nat /\ {} \in SUBSET Nat
      OBVIOUS
    <3>2. QED
      BY <2>2, <3>1 DEF RelayInit, All, RelayShape
  <2>4. PumpStages
    <3>1. "client" \in Sides /\ "upstream" \in Sides
      BY DEF Sides
    <3>2. QED
      BY <2>1, <3>1, RelayAssumption DEF PumpStages
  <2>5. RelayTypeOK
    <3>1. 0 <= OutCap /\ \A s \in Sides : 0 \in 0..MaxSent[s]
      BY RelayAssumption
    <3>2. None # "write"
      BY RelayAssumption
    <3>3. QED
      BY <2>1, <2>2, <3>1, <3>2 DEF RelayTypeOK
  <2>6. LostWereSent
    BY <2>1 DEF LostWereSent
  <2>7. NothingAstray
    <3>1. \A s \in Sides : OnItsWay(s) = <<>>
      BY <2>1, <2>2 DEF OnItsWay
    <3>2. 1..0 = {}
      OBVIOUS
    <3>3. QED
      BY <2>1, <2>2, <3>1, <3>2 DEF NothingAstray, Whole
  <2>8. QED
    BY <2>3, <2>4, <2>5, <2>6, <2>7 DEF RelayInv
<1>2. RelayInv /\ [RelayNext \/ RelayQuiet]_relVars => RelayInv'
  BY StepRelay DEF RelayQuiet
<1>3. QED
  BY <1>1, <1>2, PTL DEF RelaySpec

(* Channels stay within their capacities, and while the other side is      *)
(* there a pump holds a message exactly when it writes one.                *)
THEOREM RelayTypeCorrect == RelaySpec => []RelayTypeOK
<1>1. RelayInv => RelayTypeOK
  BY DEF RelayInv
<1>2. QED
  BY <1>1, RelayInductive, PTL

(* While both sides are there, each message that found the pump subscribed *)
(* and its channel not full is in one place on its way, in order, however  *)
(* the two pumps, the handler and the peers take turns.                    *)
THEOREM RelayKeepsOrder == RelaySpec => []RelayedInOrder
<1>1. RelayInv => RelayedInOrder
  <2> SUFFICES ASSUME RelayInv, NEW s \in Sides, link[s] = "up", link[Other(s)] = "up"
               PROVE  /\ \A i, j \in DOMAIN OnItsWay(s) : i < j => OnItsWay(s)[i] < OnItsWay(s)[j]
                      /\ ToSet(OnItsWay(s)) = (1..sentBy[s]) \ lost[s]
    BY DEF RelayedInOrder
  <2>1. Whole(s)
    BY DEF RelayInv, NothingAstray
  <2> HIDE DEF OnItsWay
  <2>2. QED
    BY <2>1 DEF Whole, Increasing
<1>2. QED
  BY <1>1, RelayInductive, PTL

-----------------------------------------------------------------------------
(* The client's session *)

(* Closing leaves no connection open, however the last one ended.          *)
LEMMA CloseConnCloses ==
  ASSUME ReconnectAssumption, ReconnectTypeOK, NEW how \in {"own", "normal", "abnormal", "fault"},
         CloseConn(how), phase \in {"busy", "select"}
  PROVE  open' = 0 /\ ended' \in {"own", "normal", "abnormal", "fault"} /\ ended' # None
BY DEF ReconnectAssumption, ReconnectTypeOK, CloseConn

(* Each step of the session's loop keeps the types of Reconnect.           *)
LEMMA LoopTyped ==
  ASSUME ReconnectAssumption, ReconnectTypeOK, Loop
  PROVE  ReconnectTypeOK'
<1>1. CASE DialSucceeds
  <2>1. {dialChan, sendDone, timedOut}' \subseteq BOOLEAN
    BY <1>1, Zenon DEF ReconnectTypeOK, DialSucceeds, world
  <2>2. 0 \in 0..MaxCount
    BY DEF ReconnectAssumption
  <2>3. open = 0
    BY <1>1 DEF ReconnectTypeOK, DialSucceeds
  <2>4. QED
    BY <1>1, <2>1, <2>2, <2>3 DEF ReconnectTypeOK, DialSucceeds, world
<1>2. CASE DialFails
  BY <1>2 DEF ReconnectAssumption, ReconnectTypeOK, DialFails, NoConn, world
<1>3. CASE BackoffPasses
  BY <1>3 DEF ReconnectAssumption, ReconnectTypeOK, BackoffPasses, NoConn, world
<1>4. CASE TakeRequest
  <2>1. {dialChan, sendDone, timedOut}' \subseteq BOOLEAN
    BY <1>4, Zenon DEF ReconnectTypeOK, TakeRequest
  <2>2. 0 \in 0..MaxCount
    BY DEF ReconnectAssumption
  <2>3. CASE phase = "select"
    BY <1>4, <2>1, <2>2, <2>3, CloseConnCloses DEF ReconnectTypeOK, TakeRequest
  <2>4. CASE phase # "select"
    BY <1>4, <2>1, <2>2, <2>4 DEF ReconnectTypeOK, TakeRequest
  <2>5. QED
    BY <2>3, <2>4
<1>5. CASE SessionExpires
  <2>1. CASE phase = "select"
    BY <1>5, <2>1, CloseConnCloses DEF ReconnectTypeOK, SessionExpires, world
  <2>2. CASE phase # "select"
    BY <1>5, <2>2 DEF ReconnectTypeOK, SessionExpires, world
  <2>3. QED
    BY <2>1, <2>2
<1>6. CASE AutomationEnds
  <2>1. CASE phase' = "select" /\ UNCHANGED <<open, ended>>
    BY <1>6, <2>1 DEF ReconnectTypeOK, AutomationEnds, world
  <2>2. CASE phase' \in {"select", "over"} /\ CloseConn("own")
    BY <1>6, <2>2, CloseConnCloses DEF ReconnectTypeOK, AutomationEnds, world
  <2>3. QED
    BY <1>6, <2>1, <2>2 DEF AutomationEnds
<1>7. CASE InputEnded
  BY <1>7, CloseConnCloses DEF ReconnectTypeOK, InputEnded, world
<1>8. CASE SeesEnd
  BY <1>8 DEF ReconnectTypeOK, SeesEnd, NoConn, world
<1>9. CASE AfterEnd
  BY <1>9 DEF ReconnectTypeOK, AfterEnd, NoConn, world
<1>10. CASE IdleInput
  BY <1>10 DEF ReconnectTypeOK, IdleInput, NoConn
<1>11. CASE AutomationFails
  BY <1>11 DEF ReconnectTypeOK, AutomationFails, NoConn, world
<1>12. QED
  BY <1>1, <1>2, <1>3, <1>4, <1>5, <1>6, <1>7, <1>8, <1>9, <1>10, <1>11 DEF Loop

(* So does every other one.                                                *)
LEMMA ReconnectStep ==
  ASSUME ReconnectAssumption, ReconnectTypeOK, [ReconnectNext \/ ReconnectQuiet]_rcVars
  PROVE  ReconnectTypeOK'
<1>1. CASE Loop
  BY <1>1, LoopTyped
<1>2. CASE SendLine \/ SenderReturns
  BY <1>2 DEF ReconnectTypeOK, SendLine, SenderReturns, world
<1>3. CASE RequestDial \/ TypeLine \/ CloseInput \/ TimeOut
  BY <1>3 DEF ReconnectTypeOK, RequestDial, TypeLine, CloseInput, TimeOut
<1>4. ASSUME NEW how \in {"own", "normal", "abnormal", "fault"}, Ends(how)
      PROVE  ReconnectTypeOK'
  <2>1. phase \in {"busy", "select"} /\ CloseConn(how)
    BY <1>4 DEF Ends
  <2>2. open' = 0 /\ ended' \in {"own", "normal", "abnormal", "fault"} /\ ended' # None
    BY <2>1, CloseConnCloses
  <2>3. QED
    BY <1>4, <2>1, <2>2 DEF ReconnectTypeOK, Ends
<1>5. CASE CloseConnection \/ Drop
  BY <1>4, <1>5 DEF CloseConnection, Drop
<1>6. CASE UNCHANGED rcVars
  BY <1>6 DEF ReconnectTypeOK, rcVars
<1>7. QED
  BY <1>1, <1>2, <1>3, <1>5, <1>6 DEF ReconnectNext, ReconnectQuiet, Sender

(* The client holds one connection while the loop sends and waits for its  *)
(* end, and none while it dials, backs off, is idle or has ended by        *)
(* itself, for any flags and any interleaving of drops, requests, input    *)
(* and timeouts: only an automation that failed leaves one open.           *)
THEOREM ReconnectOneConnection == ReconnectSpec => []ReconnectTypeOK
<1>1. ReconnectInit => ReconnectTypeOK
  <2>1. ReconnectInit => {dialChan, sendDone, timedOut} \subseteq BOOLEAN
    BY Zenon DEF ReconnectInit
  <2>2. 0 \in 0..MaxCount
    BY ReconnectAssumption DEF ReconnectAssumption
  <2>3. QED
    BY <2>1, <2>2 DEF ReconnectInit, ReconnectTypeOK
<1>2. ReconnectTypeOK /\ [ReconnectNext \/ ReconnectQuiet]_rcVars => ReconnectTypeOK'
  BY ReconnectStep, ReconnectAssumption
<1>3. QED
  BY <1>1, <1>2, PTL DEF ReconnectSpec

-----------------------------------------------------------------------------
(* Powers of two *)

(* The first n + 1 powers, as a function.                                  *)
FirstPowers(g, n) ==
  g \in [0..n -> Nat] /\ g[0] = 1 /\ \A k \in 1..n : g[k] = 2 * g[k - 1]

(* There is such a function for every n.                                   *)
LEMMA FirstPowersExist == \A n \in Nat : \E g : FirstPowers(g, n)
<1> DEFINE S == {n \in Nat : ~\E g : FirstPowers(g, n)}
<1>1. ASSUME S # {}
      PROVE  FALSE
  <2>1. PICK n \in S : \A j \in S : n <= j
    BY <1>1, Smallest
  <2>2. n \in Nat /\ ~\E g : FirstPowers(g, n)
    OBVIOUS
  <2>3. CASE n = 0
    <3>1. FirstPowers([x \in 0..0 |-> 1], 0)
      BY DEF FirstPowers
    <3>2. QED
      BY <2>2, <2>3, <3>1
  <2>4. CASE n > 0
    <3>1. n - 1 \in Nat /\ n - 1 \notin S
      BY <2>1, <2>2, <2>4
    <3>2. PICK g : FirstPowers(g, n - 1)
      BY <3>1
    <3>3. PICK h : h = [x \in 0..n |-> IF x = n THEN 2 * g[n - 1] ELSE g[x]]
      OBVIOUS
    <3>4. /\ g \in [0..n - 1 -> Nat] /\ g[0] = 1 /\ \A k \in 1..n - 1 : g[k] = 2 * g[k - 1]
      BY <3>2 DEF FirstPowers
    <3>5. g[n - 1] \in Nat
      BY <2>2, <2>4, <3>4
    <3>6. h \in [0..n -> Nat]
      BY <2>2, <2>4, <3>3, <3>4, <3>5
    <3>7. h[0] = 1
      BY <2>2, <2>4, <3>3, <3>4
    <3>8. ASSUME NEW k \in 1..n
          PROVE  h[k] = 2 * h[k - 1]
      <4>1. k - 1 \in 0..n - 1 /\ h[k - 1] = g[k - 1]
        BY <2>2, <2>4, <3>3
      <4>2. CASE k = n
        BY <2>2, <3>3, <4>1, <4>2
      <4>3. CASE k # n
        BY <2>2, <3>3, <3>4, <4>1, <4>3
      <4>4. QED
        BY <4>2, <4>3
    <3>9. FirstPowers(h, n)
      BY <3>6, <3>7, <3>8 DEF FirstPowers
    <3>10. QED
      BY <2>2, <3>9
  <2>5. QED
    BY <2>2, <2>3, <2>4
<1>2. QED
  BY <1>1

(* Two of them agree where both are defined.                               *)
LEMMA FirstPowersAgree ==
  ASSUME NEW n \in Nat, NEW m \in Nat, NEW g, NEW h, FirstPowers(g, n), FirstPowers(h, m)
  PROVE  \A k \in Nat : k <= n /\ k <= m => g[k] = h[k]
<1> DEFINE S == {k \in Nat : k <= n /\ k <= m /\ g[k] # h[k]}
<1>1. ASSUME S # {}
      PROVE  FALSE
  <2>1. PICK k \in S : \A j \in S : k <= j
    BY <1>1, Smallest
  <2>2. k \in Nat /\ k <= n /\ k <= m /\ g[k] # h[k]
    OBVIOUS
  <2>3. k # 0
    BY <2>2 DEF FirstPowers
  <2>4. k - 1 \in Nat /\ k - 1 <= n /\ k - 1 <= m /\ k - 1 \notin S
    BY <2>1, <2>2, <2>3
  <2>5. g[k - 1] = h[k - 1]
    BY <2>4
  <2>6. k \in 1..n /\ k \in 1..m
    BY <2>2, <2>3
  <2>7. g[k] = 2 * g[k - 1] /\ h[k] = 2 * h[k - 1]
    BY <2>6 DEF FirstPowers
  <2>8. QED
    BY <2>2, <2>5, <2>7
<1>2. QED
  BY <1>1

(* So the powers are what their definition says.                           *)
LEMMA PowerIs ==
  /\ Power \in [Nat -> Nat] /\ Power[0] = 1
  /\ \A k \in Nat : Power[k + 1] = 2 * Power[k]
<1> DEFINE upto(n) == CHOOSE g : FirstPowers(g, n)
           F == [n \in Nat |-> upto(n)[n]]
<1>1. ASSUME NEW n \in Nat
      PROVE  FirstPowers(upto(n), n)
  BY FirstPowersExist
<1> HIDE DEF upto
<1>2. F \in [Nat -> Nat]
  <2>1. \A n \in Nat : upto(n)[n] \in Nat
    BY <1>1 DEF FirstPowers
  <2>2. QED
    BY <2>1
<1>3. F[0] = 1
  BY <1>1 DEF FirstPowers
<1>4. ASSUME NEW n \in Nat, n # 0
      PROVE  F[n] = 2 * F[n - 1]
  <2>1. n - 1 \in Nat /\ n \in 1..n /\ n - 1 <= n
    BY <1>4
  <2>2. FirstPowers(upto(n), n) /\ FirstPowers(upto(n - 1), n - 1)
    BY <1>1, <2>1
  <2>3. upto(n)[n - 1] = upto(n - 1)[n - 1]
    BY <2>1, <2>2, FirstPowersAgree
  <2>4. upto(n)[n] = 2 * upto(n)[n - 1]
    BY <2>1, <2>2 DEF FirstPowers
  <2>5. QED
    BY <2>1, <2>3, <2>4
<1>5. F = [n \in Nat |-> IF n = 0 THEN 1 ELSE 2 * F[n - 1]]
  <2>1. \A n \in Nat : F[n] = IF n = 0 THEN 1 ELSE 2 * F[n - 1]
    BY <1>3, <1>4
  <2>2. QED
    BY <1>2, <2>1
<1> HIDE DEF F
<1>6. Power = [n \in Nat |-> IF n = 0 THEN 1 ELSE 2 * Power[n - 1]]
  BY <1>5 DEF Power
<1>7. Power[0] = 1
  BY <1>6
<1>8. ASSUME NEW k \in Nat
      PROVE  Power[k + 1] = 2 * Power[k]
  <2>1. k + 1 \in Nat /\ k + 1 # 0 /\ k + 1 - 1 = k
    OBVIOUS
  <2>2. Power[k + 1] = IF k + 1 = 0 THEN 1 ELSE 2 * Power[k + 1 - 1]
    BY <1>6, <2>1
  <2>3. QED
    BY <2>1, <2>2
<1>9. ASSUME NEW n \in Nat
      PROVE  Power[n] \in Nat
  <2> DEFINE S == {k \in Nat : Power[k] \notin Nat}
  <2>1. ASSUME S # {}
        PROVE  FALSE
    <3>1. PICK k \in S : \A j \in S : k <= j
      BY <2>1, Smallest
    <3>2. k # 0
      BY <1>7
    <3>3. k - 1 \in Nat /\ k - 1 \notin S /\ k - 1 + 1 = k
      BY <3>1, <3>2
    <3>4. Power[k] = 2 * Power[k - 1]
      BY <1>8, <3>3
    <3>5. Power[k - 1] \in Nat
      BY <3>3
    <3>6. QED
      BY <3>4, <3>5
  <2>2. QED
    BY <2>1
<1>10. QED
  <2>1. Power \in [Nat -> Nat]
    BY <1>6, <1>9
  <2>2. QED
    BY <1>7, <1>8, <2>1

(* They are positive and grow.                                             *)
LEMMA PowersGrow ==
  /\ \A k \in Nat : Power[k] \in Nat /\ Power[k] >= 1
  /\ \A j, k \in Nat : j <= k => Power[j] <= Power[k]
<1>1. \A k \in Nat : Power[k] \in Nat
  BY PowerIs
<1>2. ASSUME NEW n \in Nat
      PROVE  Power[n] >= 1
  <2> DEFINE S == {k \in Nat : ~(Power[k] >= 1)}
  <2>1. ASSUME S # {}
        PROVE  FALSE
    <3>1. PICK k \in S : \A j \in S : k <= j
      BY <2>1, Smallest
    <3>2. k # 0
      BY PowerIs
    <3>3. k - 1 \in Nat /\ k - 1 \notin S /\ k - 1 + 1 = k
      BY <3>1, <3>2
    <3>4. Power[k] = 2 * Power[k - 1] /\ Power[k - 1] >= 1 /\ Power[k - 1] \in Nat
      BY <1>1, <3>3, PowerIs
    <3>5. Power[k] >= 1
      BY <3>4
    <3>6. QED
      BY <3>5
  <2>2. QED
    BY <2>1
<1>3. ASSUME NEW j \in Nat, NEW n \in Nat, j <= n
      PROVE  Power[j] <= Power[n]
  <2> DEFINE S == {k \in Nat : j <= k /\ ~(Power[j] <= Power[k])}
  <2>1. ASSUME S # {}
        PROVE  FALSE
    <3>1. PICK k \in S : \A m \in S : k <= m
      BY <2>1, Smallest
    <3>2. k # j
      BY <1>1
    <3>3. k - 1 \in Nat /\ k - 1 \notin S /\ k - 1 + 1 = k /\ j <= k - 1
      BY <3>1, <3>2
    <3>4. Power[k] = 2 * Power[k - 1] /\ Power[j] <= Power[k - 1] /\ Power[k - 1] \in Nat /\ Power[j] \in Nat
      BY <1>1, <3>3, PowerIs
    <3>5. Power[j] <= Power[k]
      BY <3>4
    <3>6. QED
      BY <3>5
  <2>2. QED
    BY <1>3, <2>1
<1>4. QED
  BY <1>1, <1>2, <1>3

(* A larger factor makes a product no smaller.                             *)
LEMMA Times ==
  ASSUME NEW c \in Nat, NEW a \in Nat, NEW b \in Nat, a <= b
  PROVE  c * a \in Nat /\ c * b \in Nat /\ c * a <= c * b
<1>1. b - a \in Nat /\ c * b = c * a + c * (b - a)
  OBVIOUS
<1>2. c * a \in Nat /\ c * (b - a) \in Nat
  BY <1>1
<1>3. QED
  BY <1>1, <1>2

-----------------------------------------------------------------------------
(* Waits *)

(* What Width bits hold.                                                   *)
Half == Power[Width - 1]

LEMMA HalfIs ==
  ASSUME BackoffAssumption
  PROVE  Half \in Nat /\ Half >= 1 /\ Power[Width] = 2 * Half
<1>1. Width - 1 \in Nat /\ Width - 1 + 1 = Width
  BY DEF BackoffAssumption
<1>2. QED
  BY <1>1, PowerIs, PowersGrow DEF Half

(* Wrapped stays within them, and leaves what fits alone.                  *)
LEMMA WrapsWithin ==
  ASSUME BackoffAssumption, NEW n \in Int
  PROVE  Wrapped(n) \in Int /\ -Half <= Wrapped(n) /\ Wrapped(n) < Half
<1>1. /\ Half \in Nat /\ Half >= 1 /\ Power[Width] = 2 * Half
      /\ Wrapped(n) = ((n + Half) % (2 * Half)) - Half
  BY HalfIs DEF Wrapped, Half
<1>2. (n + Half) % (2 * Half) \in 0..2 * Half - 1
  <2>1. PICK a : a = n + Half
    OBVIOUS
  <2>2. PICK b : b = 2 * Half
    OBVIOUS
  <2>3. a \in Int /\ b \in Nat /\ b > 0
    BY <1>1, <2>1, <2>2
  <2>4. a % b \in 0..b - 1
    BY ONLY <2>3
  <2>5. QED
    BY <2>1, <2>2, <2>4
<1>3. QED
  BY <1>1, <1>2

LEMMA WrapsNot ==
  ASSUME BackoffAssumption, NEW n \in Nat, n < Half
  PROVE  Wrapped(n) = n
<1>1. /\ Half \in Nat /\ Half >= 1 /\ Power[Width] = 2 * Half
      /\ Wrapped(n) = ((n + Half) % (2 * Half)) - Half
  BY HalfIs DEF Wrapped, Half
<1>2. PICK a : a = n + Half
  OBVIOUS
<1>3. PICK b : b = 2 * Half
  OBVIOUS
<1>4. a \in 0..b - 1 /\ b \in Nat
  BY <1>1, <1>2, <1>3
<1>5. a % b = a
  BY ONLY <1>4
<1>6. QED
  BY <1>1, <1>2, <1>3, <1>5

(* As long as the doubled interval fits, no shift and no product wraps.    *)
LEMMA DoublesWhole ==
  ASSUME BackoffAssumption, NEW i \in Nat, NEW k \in Nat, i * Power[k] < Half
  PROVE  Wrapped(i * OneShifted(k)) = i * Power[k]
<1>1. Power[k] \in Nat /\ Power[k] >= 1 /\ i * Power[k] \in Nat /\ Half \in Nat
  BY PowersGrow, HalfIs
<1>2. CASE i = 0
  <2>1. OneShifted(k) \in Int
    BY <1>1, WrapsWithin DEF OneShifted
  <2>2. i * OneShifted(k) = 0 /\ i * Power[k] = 0
    BY <1>1, <1>2, <2>1
  <2>3. QED
    BY <2>2, WrapsNot, HalfIs
<1>3. CASE i # 0
  <2>1. Power[k] < Half
    <3>1. Power[k] * 1 <= Power[k] * i
      BY <1>1, <1>3, Times
    <3>2. Power[k] * 1 = Power[k] /\ Power[k] * i = i * Power[k]
      BY <1>1
    <3>3. QED
      BY <1>1, <3>1, <3>2
  <2>2. k < Width
    <3>1. Width - 1 \in Nat /\ Width \in Nat
      BY DEF BackoffAssumption
    <3>2. ~(Width - 1 <= k)
      BY <1>1, <2>1, <3>1, PowersGrow DEF Half
    <3>3. QED
      BY <3>1, <3>2
  <2>3. OneShifted(k) = Power[k]
    BY <1>1, <2>1, <2>2, WrapsNot DEF OneShifted
  <2>4. QED
    BY <1>1, <2>3, WrapsNot
<1>4. QED
  BY <1>2, <1>3

(* The wait of an outage after n failures: a client counts the dials that  *)
(* failed, and waits as long after the loss before them as after the first.*)
WaitOf(n) ==
  IF retrier.by = "client" THEN ExponentialBackoff(IF n = 0 THEN 0 ELSE n - 1) ELSE calculateBackoff(n)

Waited(n, length) == length = WaitOf(n) /\ (retrier.by # "client" => n >= 1)

(* The wait, and the one before it, are those of the number of failures    *)
(* and of one less, or there was none.                                     *)
BackoffInv ==
  /\ retrier \in Retriers /\ trying \in {"try", "wait", "up", "over"} /\ failures \in 0..MaxFailures
  /\ trying = "wait" => /\ Waited(failures, wait)
                        /\ before = 0 \/ (failures >= 1 /\ Waited(failures - 1, before))
  /\ trying = "try" => wait = 0 \/ Waited(failures, wait)
  /\ trying = "up" => wait = 0
  /\ {wait, before} \subseteq (-Half)..Half - 1

LEMMA RetrierIs ==
  ASSUME BackoffAssumption, retrier \in Retriers
  PROVE  /\ retrier.by \in Kinds /\ retrier.linear \in BOOLEAN
         /\ retrier.interval \in Nat /\ retrier.max \in Nat /\ retrier.count \in Nat
         /\ retrier.interval < Half /\ retrier.max < Half
         /\ Half \in Nat /\ Half >= 1 /\ MaxFailures \in Nat
         /\ (retrier.linear => retrier.by = "retry")
<1>1. Half \in Nat /\ Half >= 1
  BY HalfIs
<1>2. QED
  BY <1>1 DEF BackoffAssumption, Half

(* A wait is a number, and the client's and the doubled ones are at most   *)
(* the maximum.                                                            *)
LEMMA WaitBounds ==
  ASSUME BackoffAssumption, retrier \in Retriers, NEW n \in Nat, retrier.by = "client" \/ n >= 1
  PROVE  /\ WaitOf(n) \in (-Half)..Half - 1
         /\ ~retrier.linear => WaitOf(n) <= retrier.max
<1>1. /\ retrier.interval \in Nat /\ retrier.max \in Nat /\ retrier.max < Half /\ Half \in Nat
      /\ (retrier.linear => retrier.by = "retry")
  BY RetrierIs
<1>2. CASE retrier.by = "client"
  <2>1. PICK k : k = IF n = 0 THEN 0 ELSE n - 1
    OBVIOUS
  <2>2. PICK p : p = retrier.interval * Power[k]
    OBVIOUS
  <2>3. p \in Nat
    <3>1. k \in Nat
      BY <2>1
    <3>2. Power[k] \in Nat
      BY <3>1, PowersGrow
    <3>3. QED
      BY <1>1, <2>2, <3>2, Times
  <2>4. WaitOf(n) = IF p > retrier.max THEN retrier.max ELSE p
    BY <1>2, <2>1, <2>2 DEF WaitOf, ExponentialBackoff, AtMost
  <2>5. QED
    BY <1>1, <2>3, <2>4
<1>3. CASE retrier.by # "client" /\ retrier.linear
  <2>1. retrier.interval * n \in Int
    BY <1>1
  <2>2. WaitOf(n) = Wrapped(retrier.interval * n)
    BY <1>3 DEF WaitOf, calculateBackoff
  <2>3. QED
    BY <1>1, <1>3, <2>1, <2>2, WrapsWithin
<1>4. CASE retrier.by # "client" /\ ~retrier.linear
  <2>1. n - 1 \in Nat
    BY <1>4
  <2>2. Power[n - 1] \in Int
    BY <2>1, PowersGrow
  <2>3. OneShifted(n - 1) \in Int
    BY <2>2, WrapsWithin DEF OneShifted
  <2>4. retrier.interval * OneShifted(n - 1) \in Int
    BY <1>1, <2>3
  <2>5. PICK w : w = Wrapped(retrier.interval * OneShifted(n - 1))
    OBVIOUS
  <2>6. w \in Int /\ -Half <= w /\ w < Half
    BY <2>4, <2>5, WrapsWithin
  <2>7. WaitOf(n) = IF w > retrier.max THEN retrier.max ELSE w
    BY <1>4, <2>5 DEF WaitOf, calculateBackoff, AtMost
  <2>8. QED
    BY <1>1, <2>6, <2>7
<1>5. QED
  BY <1>2, <1>3, <1>4

(* A loop waits as long as its failures say.                               *)
LEMMA WaitForKeeps ==
  ASSUME BackoffAssumption, BackoffInv, NEW n \in 0..MaxFailures, WaitFor(n, WaitOf(n)),
         retrier.by = "client" \/ n >= 1,
         wait = 0 \/ (n >= 1 /\ Waited(n - 1, wait))
  PROVE  BackoffInv'
<1>1. retrier' = retrier /\ failures' = n /\ trying' = "wait" /\ wait' = WaitOf(n) /\ before' = wait
  BY DEF WaitFor
<1>2. /\ retrier \in Retriers /\ n \in Nat /\ MaxFailures \in Nat
      /\ wait \in (-Half)..Half - 1
  BY RetrierIs DEF BackoffInv
<1>3. WaitOf(n) \in (-Half)..Half - 1
  BY <1>2, WaitBounds
<1>4. \A k : WaitOf(k)' = WaitOf(k)
  BY <1>1 DEF WaitOf, ExponentialBackoff, calculateBackoff
<1>5. Waited(failures, wait)'
  BY <1>1, <1>2, <1>4 DEF Waited
<1>6. wait = 0 \/ (n >= 1 /\ Waited(failures - 1, before)')
  BY <1>1, <1>4 DEF Waited
<1>7. /\ retrier' \in Retriers /\ trying' = "wait" /\ failures' \in 0..MaxFailures
      /\ before' = 0 \/ (failures' >= 1 /\ Waited(failures - 1, before)')
      /\ {wait, before}' \subseteq (-Half)..Half - 1
  BY <1>1, <1>2, <1>3, <1>6
<1>8. Half' = Half
  BY DEF Half
<1>9. QED
  BY <1>5, <1>7, <1>8 DEF BackoffInv

LEMMA BackoffStep ==
  ASSUME BackoffAssumption, BackoffInv, [BackoffNext \/ BackoffQuiet]_backVars
  PROVE  BackoffInv'
<1>1. retrier \in Retriers /\ MaxFailures \in Nat /\ failures \in 0..MaxFailures /\ failures \in Nat
      /\ Half \in Nat /\ Half >= 1
  BY RetrierIs DEF BackoffInv
<1>2. CASE TryFails
  <2>1. PICK n : n = failures + 1
    OBVIOUS
  <2>2. n \in 0..MaxFailures /\ n >= 1 /\ n - 1 = failures /\ trying = "try" /\ n # 0
    BY <1>1, <1>2, <2>1 DEF TryFails
  <2>3. WaitAfter(n) = WaitOf(n)
    BY <2>2 DEF WaitAfter, WaitOf
  <2>4. CASE WaitFor(n, WaitAfter(n))
    BY <2>2, <2>3, <2>4, WaitForKeeps DEF BackoffInv
  <2>5. CASE trying' = "over" /\ failures' = n /\ UNCHANGED <<retrier, wait, before>>
    BY <1>1, <2>2, <2>5 DEF BackoffInv
  <2>6. QED
    BY <1>2, <2>1, <2>4, <2>5 DEF TryFails
<1>3. CASE TryAgain
  <2>1. UNCHANGED <<retrier, failures, wait, before>> /\ trying = "wait" /\ trying' = "try"
    BY <1>3 DEF TryAgain
  <2>2. Waited(failures, wait)' = Waited(failures, wait)
    BY <2>1 DEF Waited, WaitOf, ExponentialBackoff, calculateBackoff
  <2>3. QED
    BY <2>1, <2>2 DEF BackoffInv
<1>4. CASE DialNow
  BY <1>1, <1>4 DEF BackoffInv, DialNow
<1>5. CASE Succeeds
  <2>1. /\ trying' \in {"over", "up"} /\ failures' \in {0, failures} /\ wait' = 0 /\ before' = 0
        /\ retrier' = retrier
    BY <1>5 DEF Succeeds
  <2>2. QED
    BY <1>1, <2>1 DEF BackoffInv
<1>6. CASE IsLost
  <2>1. trying = "up" /\ failures < MaxFailures /\ wait = 0
    BY <1>6 DEF IsLost, BackoffInv
  <2>2. CASE retrier.by = "client" /\ WaitFor(0, ExponentialBackoff(0))
    <3>1. ExponentialBackoff(0) = WaitOf(0) /\ 0 \in 0..MaxFailures
      BY <1>1, <2>2 DEF WaitOf
    <3>2. QED
      BY <2>1, <2>2, <3>1, WaitForKeeps
  <2>3. CASE retrier.by # "client" /\ WaitFor(failures + 1, WaitAfter(failures + 1))
    <3>1. WaitAfter(failures + 1) = WaitOf(failures + 1)
      BY <2>3 DEF WaitAfter, WaitOf
    <3>2. failures + 1 \in 0..MaxFailures /\ failures + 1 >= 1
      BY <1>1, <2>1
    <3>3. QED
      BY <2>1, <2>3, <3>1, <3>2, WaitForKeeps
  <2>4. QED
    BY <1>6, <2>2, <2>3 DEF IsLost
<1>7. CASE UNCHANGED backVars
  <2>1. UNCHANGED <<retrier, trying, failures, wait, before>>
    BY <1>7 DEF backVars
  <2>2. \A n : WaitOf(n)' = WaitOf(n)
    BY <2>1 DEF WaitOf, ExponentialBackoff, calculateBackoff
  <2>3. Waited(failures, wait)' = Waited(failures, wait) /\ Waited(failures - 1, before)' = Waited(failures - 1, before)
    BY <2>1, <2>2 DEF Waited
  <2>4. QED
    BY <2>1, <2>3 DEF BackoffInv
<1>8. QED
  BY <1>2, <1>3, <1>4, <1>5, <1>6, <1>7 DEF BackoffNext, BackoffQuiet

(* While a wait fits, it is no shorter than the one before it and than the *)
(* interval, or the maximum.                                               *)
LEMMA NextIsLonger ==
  ASSUME BackoffAssumption, retrier \in Retriers, NEW n \in Nat, retrier.by = "client" \/ n >= 1,
         \/ retrier.by = "client"
         \/ retrier.linear /\ retrier.interval * n < Half
         \/ ~retrier.linear /\ retrier.interval * Power[n - 1] < Half
  PROVE  /\ WaitOf(n) >= 0 /\ WaitOf(n) >= AtMost(retrier.interval, retrier.max)
         /\ n >= 1 /\ (retrier.by # "client" => n - 1 >= 1) => WaitOf(n) >= WaitOf(n - 1)
<1>1. /\ retrier.interval \in Nat /\ retrier.max \in Nat /\ Half \in Nat /\ retrier.linear \in BOOLEAN
      /\ (retrier.linear => retrier.by = "retry")
  BY RetrierIs
<1>2. PICK i : i = retrier.interval
  OBVIOUS
<1>3. PICK max : max = retrier.max
  OBVIOUS
<1> DEFINE Longest(p) == IF p > max THEN max ELSE p
<1>4. \A p : AtMost(p, max) = Longest(p)
  BY DEF AtMost
<1>5. i \in Nat /\ max \in Nat
  BY <1>1, <1>2, <1>3
<1>6. \A a, b \in Nat : a <= b => Longest(a) <= Longest(b) /\ Longest(a) \in Nat /\ Longest(b) \in Nat
  BY <1>5
<1> HIDE DEF Longest
<1>7. ASSUME NEW j \in Nat, NEW k \in Nat, j <= k
      PROVE  /\ i * Power[j] \in Nat /\ i * Power[k] \in Nat /\ i * Power[j] <= i * Power[k]
             /\ Longest(i * Power[k]) >= Longest(i) /\ Longest(i * Power[k]) >= 0
             /\ Longest(i * Power[k]) >= Longest(i * Power[j])
  <2>1. Power[j] \in Nat /\ Power[k] \in Nat /\ Power[j] <= Power[k] /\ 1 <= Power[k]
    BY <1>7, PowersGrow
  <2>2. i * Power[j] \in Nat /\ i * Power[k] \in Nat /\ i * Power[j] <= i * Power[k]
    BY <1>5, <2>1, Times
  <2>3. i * 1 <= i * Power[k] /\ i * 1 = i
    BY <1>5, <2>1, Times
  <2>4. Longest(i) <= Longest(i * Power[k]) /\ Longest(i * Power[j]) <= Longest(i * Power[k])
        /\ Longest(i * Power[k]) \in Nat /\ Longest(i) \in Nat /\ Longest(i * Power[j]) \in Nat
    BY <1>5, <1>6, <2>2, <2>3
  <2>5. QED
    BY <2>2, <2>4
<1>8. AtMost(retrier.interval, retrier.max) = Longest(i)
  BY <1>2, <1>3, <1>4
<1>9. CASE retrier.by = "client"
  <2>1. \A k : ExponentialBackoff(k) = Longest(i * Power[k])
    BY <1>2, <1>3, <1>4 DEF ExponentialBackoff
  <2>2. CASE n = 0
    <3>1. WaitOf(n) = Longest(i * Power[0])
      BY <1>9, <2>1, <2>2 DEF WaitOf
    <3>2. QED
      BY <1>7, <1>8, <2>2, <3>1
  <2>3. CASE n >= 1
    <3>1. PICK k : k = n - 1
      OBVIOUS
    <3>2. PICK j : j = IF k = 0 THEN 0 ELSE k - 1
      OBVIOUS
    <3>3. k \in Nat /\ j \in Nat /\ j <= k /\ n # 0
      BY <2>3, <3>1, <3>2
    <3>4. WaitOf(n) = Longest(i * Power[k])
      BY <1>9, <2>1, <3>1, <3>3 DEF WaitOf
    <3>5. WaitOf(n - 1) = Longest(i * Power[j])
      BY <1>9, <2>1, <3>1, <3>2 DEF WaitOf
    <3>6. QED
      BY <1>7, <1>8, <3>3, <3>4, <3>5
  <2>4. QED
    BY <2>2, <2>3
<1>10. CASE retrier.by # "client" /\ retrier.linear
  <2>1. i * n < Half /\ n >= 1
    BY <1>2, <1>10
  <2>2. \A k : WaitOf(k) = Wrapped(i * k)
    BY <1>2, <1>10 DEF WaitOf, calculateBackoff
  <2>3. i * n \in Nat /\ i * 1 <= i * n /\ i * 1 = i
    BY <1>5, <2>1, Times
  <2>4. WaitOf(n) = i * n
    BY <2>1, <2>2, <2>3, WrapsNot
  <2>5. Longest(i) <= i
    BY <1>5 DEF Longest
  <2>6. Longest(i) \in Nat
    BY <1>5, <1>6
  <2>7. ASSUME n - 1 >= 1
        PROVE  WaitOf(n) >= WaitOf(n - 1)
    <3>1. n - 1 \in Nat /\ n - 1 <= n
      BY <2>7
    <3>2. i * (n - 1) \in Nat /\ i * (n - 1) <= i * n
      BY <1>5, <3>1, Times
    <3>3. i * (n - 1) < Half
      BY <1>1, <2>1, <2>3, <3>2
    <3>4. WaitOf(n - 1) = i * (n - 1)
      BY <2>2, <3>2, <3>3, WrapsNot
    <3>5. QED
      BY <2>3, <2>4, <3>2, <3>4
  <2>8. WaitOf(n) >= 0 /\ WaitOf(n) >= Longest(i)
    BY <1>5, <2>3, <2>4, <2>5, <2>6
  <2>9. QED
    BY <1>8, <1>10, <2>7, <2>8
<1>11. CASE retrier.by # "client" /\ ~retrier.linear
  <2>1. n - 1 \in Nat /\ i * Power[n - 1] < Half
    BY <1>2, <1>11
  <2>2. ASSUME NEW k \in Nat, k >= 1, i * Power[k - 1] < Half
        PROVE  WaitOf(k) = Longest(i * Power[k - 1])
    <3>1. k - 1 \in Nat
      BY <2>2
    <3>2. Wrapped(i * OneShifted(k - 1)) = i * Power[k - 1]
      BY <1>5, <2>2, <3>1, DoublesWhole
    <3>3. WaitOf(k) = AtMost(Wrapped(i * OneShifted(k - 1)), max)
      BY <1>2, <1>3, <1>11 DEF WaitOf, calculateBackoff
    <3>4. QED
      BY <1>4, <3>2, <3>3
  <2>3. WaitOf(n) = Longest(i * Power[n - 1])
    BY <1>11, <2>1, <2>2
  <2>4. WaitOf(n) >= Longest(i) /\ WaitOf(n) >= 0
    BY <1>7, <2>1, <2>3
  <2>5. ASSUME n - 1 >= 1
        PROVE  WaitOf(n) >= WaitOf(n - 1)
    <3>1. n - 1 - 1 \in Nat /\ n - 1 - 1 <= n - 1
      BY <2>1, <2>5
    <3>2. /\ i * Power[n - 1 - 1] \in Nat /\ i * Power[n - 1] \in Nat
          /\ i * Power[n - 1 - 1] <= i * Power[n - 1]
          /\ Longest(i * Power[n - 1]) >= Longest(i * Power[n - 1 - 1])
      BY <1>7, <2>1, <3>1
    <3>3. i * Power[n - 1 - 1] < Half
      BY <1>1, <2>1, <3>2
    <3>4. WaitOf(n - 1) = Longest(i * Power[n - 1 - 1])
      BY <2>1, <2>2, <2>5, <3>3
    <3>5. QED
      BY <2>3, <3>2, <3>4
  <2>6. QED
    BY <1>8, <1>11, <2>4, <2>5
<1>12. QED
  BY <1>1, <1>9, <1>10, <1>11

(* Whatever fails and is lost, each loop is in step with its failures.     *)
THEOREM BackoffInductive == BackoffSpec => []BackoffInv
<1>1. BackoffInit => BackoffInv
  <2>1. ASSUME BackoffInit
        PROVE  BackoffInv
    <3>1. retrier \in Retriers /\ trying = "try" /\ failures = 0 /\ wait = 0 /\ before = 0
      BY <2>1 DEF BackoffInit
    <3>2. Half \in Nat /\ Half >= 1 /\ MaxFailures \in Nat
      BY <3>1, RetrierIs, BackoffAssumption
    <3>3. QED
      BY <3>1, <3>2 DEF BackoffInv
  <2>2. QED
    BY <2>1
<1>2. BackoffInv /\ [BackoffNext \/ BackoffQuiet]_backVars => BackoffInv'
  BY BackoffStep, BackoffAssumption
<1>3. QED
  BY <1>1, <1>2, PTL DEF BackoffSpec

(* No wait is shorter than the first one or than the one before it in the  *)
(* same outage, and none but a linear one longer than the maximum, for     *)
(* integers of any width, until the product outgrows them.                 *)
THEOREM BackoffGrows == BackoffSpec => []WaitsGrow
<1>1. BackoffInv => WaitsGrow
  <2>1. ASSUME BackoffInv, trying = "wait", Fits
        PROVE  /\ wait >= before
               /\ wait >= AtMost(retrier.interval, retrier.max)
               /\ ~retrier.linear => wait <= retrier.max
    <3>1. /\ retrier \in Retriers /\ failures \in 0..MaxFailures
          /\ Waited(failures, wait)
          /\ before = 0 \/ (failures >= 1 /\ Waited(failures - 1, before))
      BY <2>1 DEF BackoffInv
    <3>2. MaxFailures \in Nat
      BY BackoffAssumption DEF BackoffAssumption
    <3>3. failures \in Nat
      BY <3>1, <3>2
    <3>4. wait = WaitOf(failures) /\ (retrier.by = "client" \/ failures >= 1)
      BY <3>1 DEF Waited
    <3>5. \/ retrier.by = "client"
          \/ retrier.linear /\ retrier.interval * failures < Half
          \/ ~retrier.linear /\ retrier.interval * Power[failures - 1] < Half
      BY <2>1 DEF Fits, Half
    <3>6. /\ wait >= 0 /\ wait >= AtMost(retrier.interval, retrier.max)
          /\ failures >= 1 /\ (retrier.by # "client" => failures - 1 >= 1) => wait >= WaitOf(failures - 1)
      BY <3>1, <3>3, <3>4, <3>5, NextIsLonger, BackoffAssumption
    <3>7. wait >= before
      BY <3>1, <3>6 DEF Waited
    <3>8. ~retrier.linear => wait <= retrier.max
      BY <3>1, <3>3, <3>4, WaitBounds, BackoffAssumption
    <3>9. QED
      BY <3>6, <3>7, <3>8
  <2>2. QED
    BY <2>1 DEF WaitsGrow
<1>2. QED
  BY <1>1, BackoffInductive, PTL

(* The waits stay within the integers.                                     *)
THEOREM BackoffTypeCorrect == BackoffSpec => []BackoffTypeOK
<1>1. BackoffInv => BackoffTypeOK
  BY DEF BackoffInv, BackoffTypeOK, Half
<1>2. QED
  BY <1>1, BackoffInductive, PTL
=================================================================================

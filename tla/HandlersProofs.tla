---------------------------- MODULE HandlersProofs ----------------------------
(***************************************************************************)
(* Theorems about Handlers for any messages, handlers, files and edits.    *)
(***************************************************************************)
EXTENDS Handlers, SequenceLemmas, FiniteSetTheorems

-----------------------------------------------------------------------------
(* The inductive invariant *)

Cells == Handler \cup {None}

Calls ==
  [pc : PCs, arr : Nat, size : Nat, skip : SUBSET Names, at : Nat, todo : Seq(Nat), who : Cells,
   name : Names \cup {None}, mu : Nat \cup {None}, epoch : Nat, tries : Nat, max : Nat,
   how : {None, "ok", "fail", "drop", "limit", "unsent", "cancelled"}, late : SUBSET Names]

Reports == [who : Handler, how : {"ok", "drop", "error"}, match : BOOLEAN, late : BOOLEAN]

(* The cells in use hold handlers, by descending priority. *)
SliceInv ==
  /\ arrays \in Seq(Seq(Cells)) /\ cur \in DOMAIN arrays /\ len \in 0..Len(arrays[cur])
  /\ \A i \in 1..len : arrays[cur][i] \in Handler
  /\ \A i, j \in 1..len : i < j => arrays[cur][i].pri >= arrays[cur][j].pri

(* What is no slice: above all, a once handler that is spent is disabled.  *)
RegistryInv ==
  /\ disabled \subseteq Names /\ spent \subseteq disabled
  /\ holder \in Seq(Msgs \cup {None}) /\ handlerMu \in [Names -> DOMAIN holder \cup {None}]
  /\ edits \in 0..MaxEdits /\ epoch \in [Names -> 0..edits]
  /\ disturbed \subseteq Msgs
  /\ log \in [Msgs -> Seq(Reports)]

(* What a goroutine remembers of the array still points to handlers, and   *)
(* what it keeps fits the place it is at.                                  *)
Working(c) == c.pc \in {"find", "create", "lock", "try", "respond", "backoff", "finish"}

Locked(c) == c.pc \in {"try", "respond", "backoff", "finish"} /\ c.mu # None

Fits(c) ==
  /\ c.pc = "match" => c.at \in 1..c.size
  /\ Working(c) => c.todo # <<>> /\ c.who \in Handler
  /\ c.pc \in {"find", "create", "lock"} => c.name \in Names
  /\ c.pc \in {"idle", "match", "next", "find", "create", "done"} => c.mu = None
  /\ c.pc = "lock" => c.mu # None
  /\ c.tries <= c.max /\ (c.pc \in {"try", "respond", "backoff"} => c.tries < c.max)

CallOK(m) ==
  LET c == call[m] IN
  /\ c.arr \in DOMAIN arrays /\ c.size <= Len(arrays[c.arr])
  /\ \A i \in 1..c.size : arrays[c.arr][i] \in Handler
  /\ \A k \in DOMAIN c.todo : c.todo[k] \in 1..c.size
  /\ Fits(c)

CallInv == call \in [Msgs -> Calls] /\ \A m \in Msgs : CallOK(m)

(* A mutex that was looked up is the one of its name, unless the name's    *)
(* epoch has passed; in one epoch everybody has the same one; and it is    *)
(* held by who is inside.                                                  *)
MutexOf(m) ==
  LET c == call[m] IN
  c.mu # None =>
    /\ c.mu \in DOMAIN holder /\ c.name \in Names /\ c.epoch <= epoch[c.name]
    /\ c.epoch = epoch[c.name] => handlerMu[c.name] = c.mu

SameMutex(m, n) ==
  /\ call[m].mu # None /\ call[n].mu # None
  /\ call[m].name = call[n].name /\ call[m].epoch = call[n].epoch
  => call[m].mu = call[n].mu

HolderInv ==
  /\ \A m \in Msgs : Locked(call[m]) => holder[call[m].mu] = m
  /\ \A i \in DOMAIN holder : holder[i] # None => Locked(call[holder[i]]) /\ call[holder[i]].mu = i

MutexInv ==
  /\ \A m \in Msgs : MutexOf(m)
  /\ \A m, n \in Msgs : SameMutex(m, n)
  /\ HolderInv

(* What a message that nobody disturbed has executed, and what is left of  *)
(* its matches: all in order, and nothing left behind an exclusive one.    *)
Executed(es) ==
  \A i \in DOMAIN es :
    /\ es[i].match /\ ~es[i].late
    /\ es[i].how = "drop" \/ es[i].who.exclusive => i = Len(es)
    /\ \A k \in 1..i : es[k].who.pri >= es[i].who.pri

Ahead(m) ==
  LET c == call[m]
      cells == arrays[c.arr] IN
  /\ \A i, j \in 1..c.size : i < j => cells[i].pri >= cells[j].pri
  /\ Increasing(c.todo)
  /\ \A k \in DOMAIN c.todo :
       /\ Matches(m, cells[c.todo[k]])
       /\ c.pc = "match" => c.todo[k] < c.at
       /\ cells[c.todo[k]].exclusive => k = Len(c.todo) /\ c.pc # "match"
       /\ \A i \in DOMAIN log[m] : log[m][i].who.pri >= cells[c.todo[k]].pri
  /\ \A i \in DOMAIN log[m] : log[m][i].how # "drop" /\ ~log[m][i].who.exclusive
  /\ Working(c) => c.who = cells[Head(c.todo)]

OrderOK(m) ==
  /\ call[m].pc \in {"idle", "match"} => log[m] = <<>>
  /\ call[m].late \subseteq call[m].skip
  /\ m \notin disturbed => Executed(log[m])
  /\ m \notin disturbed /\ InFlight(m) => Ahead(m)

OrderInv == \A m \in Msgs : OrderOK(m)

HandlersInv == SliceInv /\ RegistryInv /\ CallInv /\ MutexInv /\ OrderInv

-----------------------------------------------------------------------------
(* Sorting *)

(* Ranks are a permutation, so that every place is taken by one handler.   *)
LEMMA RankPermutes ==
  ASSUME NEW s \in Seq(Handler)
  PROVE  /\ \A k \in 1..Len(s) : \E i \in 1..Len(s) : Rank(s, i) = k
         /\ \A i, j \in 1..Len(s) : Rank(s, i) < Rank(s, j) => s[i].pri >= s[j].pri
<1> DEFINE D == 1..Len(s)
           Before(i) == {j \in D : s[j].pri > s[i].pri \/ (s[j].pri = s[i].pri /\ j <= i)}
           rank == [i \in D |-> Rank(s, i)]
<1>1. Len(s) \in Nat /\ DOMAIN s = D /\ \A i \in D : i \in Nat /\ s[i].pri \in Nat
  <2>1. Len(s) \in Nat /\ DOMAIN s = D /\ \A i \in D : s[i] \in Handler
    BY LenProperties
  <2>2. ASSUME NEW i \in D
        PROVE  i \in Nat /\ s[i].pri \in Nat
    <3>1. s[i] \in Handler
      BY <2>1
    <3>2. s[i].pri \in Nat
      BY <3>1 DEF Handler
    <3>3. QED
      BY <2>1, <3>2
  <2> HIDE DEF D
  <2>3. QED
    BY <2>1, <2>2
<1>2. IsFiniteSet(D) /\ Cardinality(D) = Len(s)
  BY <1>1, FS_Interval, SMTT(40)
<1>3. \A i \in D : Rank(s, i) = Cardinality(Before(i))
  BY <1>1 DEF Rank
<1>4. ASSUME NEW i \in D
      PROVE  IsFiniteSet(Before(i)) /\ Cardinality(Before(i)) \in D
  <2>1. Before(i) \in SUBSET D /\ i \in Before(i)
    BY <1>1
  <2> HIDE DEF Before
  <2>2. IsFiniteSet(Before(i)) /\ Cardinality(Before(i)) <= Len(s)
    BY <1>2, <2>1, FS_Subset
  <2>3. Cardinality(Before(i)) \in Nat /\ Cardinality(Before(i)) # 0
    BY <2>1, <2>2, FS_CardinalityType, FS_EmptySet
  <2>4. QED
    BY <1>1, <2>2, <2>3
<1>5. ASSUME NEW i \in D, NEW j \in D, i # j, j \in Before(i)
      PROVE  Rank(s, j) < Rank(s, i)
  <2>1. Before(j) \in SUBSET Before(i)
    BY <1>1, <1>5
  <2>2. i \in Before(i) /\ i \notin Before(j)
    BY <1>1, <1>5
  <2>3. /\ IsFiniteSet(Before(i)) /\ Cardinality(Before(i)) \in D
        /\ Cardinality(Before(j)) \in D
    BY <1>4
  <2> HIDE DEF Before
  <2>4. Cardinality(Before(j)) <= Cardinality(Before(i))
    BY <2>1, <2>3, FS_Subset
  <2>5. Cardinality(Before(j)) # Cardinality(Before(i))
    BY <2>1, <2>2, <2>3, FS_Subset
  <2>6. QED
    BY <1>1, <1>3, <2>3, <2>4, <2>5
<1>6. \A i, j \in D : i # j => j \in Before(i) \/ i \in Before(j)
  BY <1>1
<1>7. \A i \in D : Rank(s, i) \in D
  BY <1>3, <1>4
<1> HIDE DEF Before
<1>8. \A i, j \in D : i # j => Rank(s, i) # Rank(s, j)
  <2>1. ASSUME NEW i \in D, NEW j \in D, i # j
        PROVE  Rank(s, i) # Rank(s, j)
    <3>1. Rank(s, i) \in Nat /\ Rank(s, j) \in Nat
      BY <1>1, <1>7
    <3>2. Rank(s, i) < Rank(s, j) \/ Rank(s, j) < Rank(s, i)
      BY <1>5, <1>6, <2>1
    <3>3. QED
      BY <3>1, <3>2
  <2>2. QED
    BY <2>1
<1>9. rank \in Injection(D, D)
  <2>1. rank \in [D -> D]
    BY <1>7
  <2>2. \A i, j \in D : rank[i] = rank[j] => i = j
    BY <1>8
  <2>3. QED
    BY <2>1, <2>2 DEF Injection, IsInjective
<1>10. rank \in Surjection(D, D)
  BY <1>2, <1>9, FS_Injection
<1>11. \A k \in D : \E i \in D : rank[i] = k
  BY <1>10 DEF Surjection
<1>12. \A k \in D : \E i \in D : Rank(s, i) = k
  BY <1>11
<1>13. ASSUME NEW i \in D, NEW j \in D, Rank(s, i) < Rank(s, j)
       PROVE  s[i].pri >= s[j].pri
  <2>1. i # j /\ ~(Rank(s, j) < Rank(s, i))
    BY <1>1, <1>7, <1>13
  <2>2. i \in Before(j)
    BY <1>5, <1>6, <2>1
  <2>3. QED
    BY <1>1, <2>2 DEF Before
<1>14. QED
  BY <1>12, <1>13

(* Sorting keeps the length and puts higher priorities first. *)
LEMMA SortedIsSorted ==
  ASSUME NEW s \in Seq(Handler)
  PROVE  /\ Sorted(s) \in Seq(Handler) /\ Len(Sorted(s)) = Len(s)
         /\ \A i, j \in 1..Len(s) : i < j => Sorted(s)[i].pri >= Sorted(s)[j].pri
<1> DEFINE D == 1..Len(s)
           from(k) == CHOOSE i \in D : Rank(s, i) = k
<1>1. Len(s) \in Nat /\ DOMAIN s = D /\ \A i \in D : s[i] \in Handler
  BY LenProperties
<1>2. \A k \in D : from(k) \in D /\ Rank(s, from(k)) = k
  BY RankPermutes
<1>3. Sorted(s) = [k \in D |-> s[from(k)]]
  BY <1>1 DEF Sorted
<1>4. \A i, j \in D : i < j => s[from(i)].pri >= s[from(j)].pri
  BY <1>2, RankPermutes
<1> HIDE DEF from
<1>5. Sorted(s) \in [D -> Handler]
  BY <1>1, <1>2, <1>3
<1>6. QED
  BY <1>1, <1>3, <1>4, <1>5

-----------------------------------------------------------------------------
(* Edits of the slice *)

Descending(s) == \A i, j \in 1..Len(s) : i < j => s[i].pri >= s[j].pri

(* An edit leaves the other arrays alone, and no handler's cell empty. *)
ArraysGrow ==
  /\ arrays' \in Seq(Seq(Cells)) /\ Len(arrays) <= Len(arrays')
  /\ \A a \in DOMAIN arrays :
       /\ Len(arrays'[a]) = Len(arrays[a])
       /\ \A i \in 1..Len(arrays[a]) :
            /\ arrays[a][i] \in Handler => arrays'[a][i] \in Handler
            /\ a # cur => arrays'[a][i] = arrays[a][i]

(* The slice and what is behind it, as sequences. *)
LEMMA SliceFacts ==
  ASSUME SliceInv
  PROVE  /\ arrays[cur] \in Seq(Cells) /\ Len(arrays[cur]) \in Nat /\ len \in Nat
         /\ cur \in 1..Len(arrays) /\ Len(arrays) \in Nat
         /\ InSlice \in Seq(Handler) /\ Len(InSlice) = len
         /\ \A i \in 1..len : InSlice[i] = arrays[cur][i]
<1>1. /\ arrays[cur] \in Seq(Cells) /\ cur \in 1..Len(arrays) /\ Len(arrays) \in Nat
  BY LenProperties DEF SliceInv
<1>2. Len(arrays[cur]) \in Nat /\ len \in Nat
  BY <1>1, LenProperties DEF SliceInv
<1>3. \A i \in 1..len : arrays[cur][i] \in Handler
  BY DEF SliceInv
<1>4. /\ InSlice \in Seq(Handler) /\ Len(InSlice) = IF 1 <= len THEN len - 1 + 1 ELSE 0
      /\ \A i \in 1..len - 1 + 1 : InSlice[i] = arrays[cur][1 + i - 1]
  BY <1>2, <1>3, SubSeqProperties DEF InSlice
<1>5. QED
  BY <1>1, <1>2, <1>4

(* A changed array of the same length whose first cells are sorted. *)
LEMMA ChangedArray ==
  ASSUME SliceInv, NEW d \in Seq(Cells), Len(d) = Len(arrays[cur]),
         arrays' = [arrays EXCEPT ![cur] = d], cur' = cur, len' \in 0..Len(d),
         \A i \in 1..len' : d[i] \in Handler,
         \A i, j \in 1..len' : i < j => d[i].pri >= d[j].pri,
         \A i \in 1..Len(d) : arrays[cur][i] \in Handler => d[i] \in Handler
  PROVE  ArraysGrow /\ SliceInv'
<1>1. arrays \in Seq(Seq(Cells)) /\ cur \in 1..Len(arrays)
  BY LenProperties DEF SliceInv
<1>2. /\ arrays' \in Seq(Seq(Cells)) /\ Len(arrays') = Len(arrays)
      /\ \A a \in 1..Len(arrays) : arrays'[a] = IF a = cur THEN d ELSE arrays[a]
  BY <1>1, ExceptSeq
<1>3. DOMAIN arrays = 1..Len(arrays) /\ DOMAIN arrays' = 1..Len(arrays) /\ Len(arrays) \in Nat
  BY <1>1, <1>2, LenProperties
<1>4. ArraysGrow
  BY <1>1, <1>2, <1>3 DEF ArraysGrow
<1>5. SliceInv'
  BY <1>1, <1>2, <1>3 DEF SliceInv
<1>6. QED
  BY <1>4, <1>5

(* Writing a sorted slice into its array. *)
LEMMA OverwriteSlice ==
  ASSUME SliceInv, NEW s \in Seq(Handler), Descending(s), Len(s) <= Len(arrays[cur]), Overwrite(s)
  PROVE  ArraysGrow /\ SliceInv'
<1> DEFINE b == Beyond(Len(s))
           d == s \o b
           n == Len(arrays[cur])
<1>1. /\ arrays[cur] \in Seq(Cells) /\ n \in Nat /\ Len(s) \in Nat
      /\ s \in Seq(Cells) /\ \A i \in 1..Len(s) : s[i] \in Handler
      /\ \A i \in 1..n : arrays[cur][i] \in Cells
  BY SliceFacts, LenProperties, SeqMonotonic DEF Cells
<1>2. /\ b \in Seq(Cells)
      /\ Len(b) = IF Len(s) + 1 <= n THEN n - (Len(s) + 1) + 1 ELSE 0
      /\ \A i \in 1..n - (Len(s) + 1) + 1 : b[i] = arrays[cur][Len(s) + 1 + i - 1]
  <2>1. \A i \in Len(s) + 1..n : arrays[cur][i] \in Cells
    BY <1>1
  <2>2. Len(s) + 1 \in Int /\ n \in Int
    BY <1>1
  <2>3. QED
    BY <2>1, <2>2, SubSeqProperties DEF Beyond
<1>3. Len(b) = n - Len(s) /\ \A i \in 1..n - Len(s) : b[i] = arrays[cur][Len(s) + i]
  BY <1>1, <1>2
<1> HIDE DEF b
<1>4. /\ d \in Seq(Cells) /\ Len(d) = Len(s) + Len(b)
      /\ \A i \in 1..Len(s) + Len(b) : d[i] = IF i <= Len(s) THEN s[i] ELSE b[i - Len(s)]
  BY <1>1, <1>2, ConcatProperties, SMTT(40)
<1>5. arrays' = [arrays EXCEPT ![cur] = d] /\ cur' = cur /\ len' = Len(s)
  BY DEF Overwrite, b
<1> HIDE DEF d
<1>6. Len(d) = n /\ \A i \in 1..n : d[i] = IF i <= Len(s) THEN s[i] ELSE arrays[cur][i]
  BY <1>1, <1>3, <1>4
<1>7. /\ len' \in 0..Len(d) /\ \A i \in 1..len' : d[i] = s[i] /\ d[i] \in Handler
  BY <1>1, <1>5, <1>6
<1>8. \A i, j \in 1..len' : i < j => d[i].pri >= d[j].pri
  BY <1>5, <1>7 DEF Descending
<1>9. \A i \in 1..Len(d) : arrays[cur][i] \in Handler => d[i] \in Handler
  BY <1>1, <1>6
<1>10. QED
  BY <1>4, <1>5, <1>6, <1>7, <1>8, <1>9, ChangedArray

(* Moving a sorted slice to a new array. *)
LEMMA ReallocateSlice ==
  ASSUME SliceInv, NEW s \in Seq(Handler), Descending(s), NEW cap \in Nat, Len(s) <= cap,
         Reallocate(s, cap)
  PROVE  ArraysGrow /\ SliceInv'
<1> DEFINE d == [i \in 1..cap |-> IF i <= Len(s) THEN s[i] ELSE None]
           n == Len(arrays)
<1>1. Len(s) \in Nat /\ \A i \in 1..Len(s) : s[i] \in Handler
  BY LenProperties
<1>2. d \in [1..cap -> Cells]
  BY <1>1 DEF Cells
<1>3. d \in Seq(Cells) /\ Len(d) = cap /\ \A i \in 1..Len(s) : d[i] = s[i]
  BY <1>1, <1>2
<1>4. arrays' = Append(arrays, d) /\ cur' = n + 1 /\ len' = Len(s)
  BY DEF Reallocate
<1> HIDE DEF d
<1>5. arrays \in Seq(Seq(Cells)) /\ n \in Nat /\ DOMAIN arrays = 1..n
  BY LenProperties DEF SliceInv
<1>6. /\ arrays' \in Seq(Seq(Cells)) /\ Len(arrays') = n + 1
      /\ \A a \in 1..n : arrays'[a] = arrays[a]
      /\ arrays'[n + 1] = d
  BY <1>3, <1>4, <1>5, AppendProperties
<1>7. DOMAIN arrays' = 1..n + 1
  BY <1>6, LenProperties
<1>8. ArraysGrow
  <2>1. Len(arrays) <= Len(arrays')
    BY <1>5, <1>6
  <2>2. cur' # cur /\ \A a \in DOMAIN arrays : arrays'[a] = arrays[a]
    BY <1>4, <1>5, <1>6 DEF SliceInv
  <2>3. QED
    BY <1>6, <2>1, <2>2 DEF ArraysGrow
<1>9. SliceInv'
  BY <1>1, <1>3, <1>4, <1>5, <1>6, <1>7, SMTT(40) DEF SliceInv, Descending
<1>10. QED
  BY <1>8, <1>9

(* A name in use has a place. *)
LEMMA IndexOfName ==
  ASSUME NEW n \in InUse
  PROVE  Index(n) \in 1..len /\ arrays[cur][Index(n)].name = n
BY DEF InUse, Index

(* An edit keeps the invariant if it keeps the slice, counts what it wrote *)
(* over and opens a new epoch for every name whose mutex it moves.         *)
LEMMA EditKeeps ==
  ASSUME HandlersInv, Edited, ArraysGrow, SliceInv', UNCHANGED <<call, log, holder>>,
         disabled' \subseteq Names, spent' \subseteq disabled',
         handlerMu' \in [Names -> DOMAIN holder \cup {None}],
         NEW moved \in SUBSET Names,
         epoch' = [n \in Names |-> IF n \in moved THEN epoch[n] + 1 ELSE epoch[n]],
         \A n \in Names \ moved : handlerMu'[n] = handlerMu[n]
  PROVE  HandlersInv'
<1> USE DEF HandlersInv
<1>1. /\ call \in [Msgs -> Calls] /\ \A m \in Msgs : call[m] \in Calls /\ call'[m] = call[m]
      /\ \A m \in Msgs : CallOK(m)
  BY DEF CallInv
<1>2. /\ DOMAIN arrays = 1..Len(arrays) /\ DOMAIN arrays' = 1..Len(arrays')
      /\ Len(arrays) \in Nat /\ Len(arrays') \in Nat
      /\ \A a \in DOMAIN arrays : a \in DOMAIN arrays' /\ Len(arrays[a]) \in Nat
  <2>1. arrays \in Seq(Seq(Cells)) /\ arrays' \in Seq(Seq(Cells))
    BY DEF SliceInv, ArraysGrow
  <2>2. /\ DOMAIN arrays = 1..Len(arrays) /\ DOMAIN arrays' = 1..Len(arrays')
        /\ Len(arrays) \in Nat /\ Len(arrays') \in Nat
        /\ \A a \in 1..Len(arrays) : arrays[a] \in Seq(Cells)
    BY <2>1, LenProperties
  <2>3. \A a \in 1..Len(arrays) : Len(arrays[a]) \in Nat
    BY <2>2, LenProperties
  <2>4. Len(arrays) <= Len(arrays')
    BY DEF ArraysGrow
  <2>5. QED
    BY <2>2, <2>3, <2>4
<1>3. /\ edits \in Nat /\ edits' = edits + 1 /\ edits' \in 0..MaxEdits
      /\ epoch \in [Names -> 0..edits]
  BY HandlersAssumption DEF RegistryInv, Edited
<1>4. RegistryInv'
  <2>1. epoch' \in [Names -> 0..edits']
    BY <1>3
  <2>2. disturbed' \subseteq Msgs
    BY DEF Edited, RegistryInv
  <2>3. QED
    BY <1>3, <2>1, <2>2 DEF RegistryInv
<1>5. CallInv'
  <2>1. ASSUME NEW m \in Msgs
        PROVE  CallOK(m)'
    <3> DEFINE a == call[m].arr
               n == call[m].size
    <3>1. /\ a \in DOMAIN arrays /\ n \in Nat /\ n <= Len(arrays[a])
          /\ \A i \in 1..n : arrays[a][i] \in Handler
      BY <1>1 DEF CallOK, Calls
    <3>2. Len(arrays'[a]) = Len(arrays[a]) /\ a \in DOMAIN arrays' /\ Len(arrays[a]) \in Nat
      BY <1>2, <3>1 DEF ArraysGrow
    <3>3. \A i \in 1..n : arrays'[a][i] \in Handler
      BY <1>2, <3>1, <3>2, SMTT(40) DEF ArraysGrow
    <3>4. (\A k \in DOMAIN call[m].todo : call[m].todo[k] \in 1..n) /\ Fits(call[m])
      BY <1>1 DEF CallOK
    <3>5. QED
      BY <1>1, <3>1, <3>2, <3>3, <3>4 DEF CallOK
  <2>2. QED
    BY <1>1, <2>1 DEF CallInv
<1>6. MutexInv'
  <2>1. ASSUME NEW m \in Msgs, call[m].mu # None
        PROVE  /\ call[m].name \in Names /\ call[m].epoch <= epoch'[call[m].name]
               /\ call[m].epoch = epoch'[call[m].name] => handlerMu'[call[m].name] = call[m].mu
    <3> DEFINE n == call[m].name
    <3>1. /\ n \in Names /\ call[m].epoch <= epoch[n]
          /\ call[m].epoch = epoch[n] => handlerMu[n] = call[m].mu
      BY <2>1 DEF MutexInv, MutexOf
    <3>2. call[m].epoch \in Nat /\ epoch[n] \in Nat
      BY <1>1, <1>3, <3>1 DEF Calls
    <3>3. CASE n \in moved
      BY <3>1, <3>2, <3>3
    <3>4. CASE n \notin moved
      BY <3>1, <3>2, <3>4
    <3>5. QED
      BY <3>3, <3>4
  <2>2. \A m \in Msgs : MutexOf(m)'
    BY <1>1, <2>1 DEF MutexInv, MutexOf
  <2>3. (\A m, n \in Msgs : SameMutex(m, n)') /\ HolderInv'
    BY <1>1 DEF MutexInv, SameMutex, HolderInv, RegistryInv
  <2>4. QED
    BY <2>2, <2>3 DEF MutexInv
<1>7. OrderInv'
  <2>1. ASSUME NEW m \in Msgs
        PROVE  OrderOK(m)'
    <3> DEFINE c == call[m]
    <3>1. c \in Calls /\ call'[m] = c /\ log'[m] = log[m] /\ OrderOK(m) /\ CallOK(m)
      BY <1>1 DEF OrderInv
    <3>2. m \notin disturbed' => m \notin disturbed
      BY DEF Edited
    <3>3. ASSUME m \notin disturbed', InFlight(m)
          PROVE  Ahead(m)'
      <4>1. Ahead(m)
        BY <3>1, <3>2, <3>3 DEF OrderOK
      <4>2. /\ c.arr \in DOMAIN arrays /\ c.size \in Nat /\ c.size <= Len(arrays[c.arr])
            /\ Len(arrays[c.arr]) \in Nat
        BY <1>2, <3>1 DEF CallOK, Calls
      <4>3. \A i \in 1..c.size : arrays'[c.arr][i] = arrays[c.arr][i]
        <5>1. CASE c.arr = cur
          BY <3>3, <5>1 DEF Edited
        <5>2. CASE c.arr # cur
          BY <4>2, <5>2, SMTT(40) DEF ArraysGrow
        <5>3. QED
          BY <5>1, <5>2
      <4>4. \A k \in DOMAIN c.todo : c.todo[k] \in 1..c.size
        BY <3>1 DEF CallOK
      <4>5. Working(c) => Head(c.todo) \in 1..c.size
        <5>1. Working(c) => c.todo # <<>> /\ c.todo \in Seq(Nat)
          BY <3>1 DEF CallOK, Fits, Calls
        <5>2. Working(c) => 1 \in DOMAIN c.todo /\ Head(c.todo) = c.todo[1]
          BY <5>1
        <5>3. QED
          BY <4>4, <5>2
      <4>6. \A k \in DOMAIN c.todo : arrays'[c.arr][c.todo[k]] = arrays[c.arr][c.todo[k]]
        BY <4>3, <4>4
      <4>7. Working(c) => arrays'[c.arr][Head(c.todo)] = arrays[c.arr][Head(c.todo)]
        BY <4>3, <4>5
      <4>8. QED
        BY <3>1, <4>1, <4>3, <4>6, <4>7 DEF Ahead, Matches
    <3>4. QED
      BY <3>1, <3>2, <3>3 DEF OrderOK, InFlight
  <2>2. QED
    BY <2>1 DEF OrderInv
<1>8. QED
  BY <1>4, <1>5, <1>6, <1>7

-----------------------------------------------------------------------------
(* The edits *)

(* A new handler goes behind the others and is sorted in. *)
LEMMA KeepAdd ==
  ASSUME HandlersInv, NEW h \in Defs, Add(h)
  PROVE  HandlersInv'
<1>1. SliceInv /\ RegistryInv /\ h \in Handler
  BY HandlersAssumption DEF HandlersInv
<1> DEFINE s == Sorted(Append(InSlice, h))
           cap == Len(arrays[cur])
<1>2. /\ InSlice \in Seq(Handler) /\ Len(InSlice) = len /\ len \in Nat /\ cap \in Nat
      /\ len \in 0..cap
  BY <1>1, SliceFacts DEF SliceInv
<1>3. Append(InSlice, h) \in Seq(Handler) /\ Len(Append(InSlice, h)) = len + 1
  BY <1>1, <1>2, AppendProperties
<1>4. s \in Seq(Handler) /\ Len(s) = len + 1 /\ Descending(s)
  BY <1>3, SortedIsSorted DEF Descending
<1>5. IF len < cap THEN Overwrite(s)
      ELSE Reallocate(s, IF len + 1 > 2 * cap THEN len + 1 ELSE 2 * cap)
  BY DEF Add
<1> HIDE DEF s
<1>6. ArraysGrow /\ SliceInv'
  <2>1. CASE len < cap
    BY <1>1, <1>2, <1>4, <1>5, <2>1, OverwriteSlice
  <2>2. CASE ~(len < cap)
    <3> DEFINE more == IF len + 1 > 2 * cap THEN len + 1 ELSE 2 * cap
    <3>1. more \in Nat /\ Len(s) <= more /\ Reallocate(s, more)
      BY <1>2, <1>4, <1>5, <2>2
    <3> HIDE DEF more
    <3>2. QED
      BY <1>1, <1>4, <3>1, ReallocateSlice
  <2>3. QED
    BY <2>1, <2>2
<1>7. Edited /\ UNCHANGED <<disabled, handlerMu, holder, call, log, epoch, spent>>
  BY DEF Add, mutexes
<1>8. /\ disabled' \subseteq Names /\ spent' \subseteq disabled'
      /\ handlerMu' \in [Names -> DOMAIN holder \cup {None}]
      /\ epoch' = [n \in Names |-> IF n \in {} THEN epoch[n] + 1 ELSE epoch[n]]
      /\ {} \in SUBSET Names /\ \A n \in Names \ {} : handlerMu'[n] = handlerMu[n]
      /\ UNCHANGED <<call, log, holder>>
  BY <1>1, <1>7 DEF RegistryInv
<1>9. QED
  BY <1>6, <1>7, <1>8, EditKeeps

(* An update takes the place of its name, and its mutex away. *)
LEMMA KeepUpdate ==
  ASSUME HandlersInv, NEW h \in Defs, UpdateHandler(h)
  PROVE  HandlersInv'
<1>1. SliceInv /\ RegistryInv /\ h \in Handler /\ h.name \in Names
  BY HandlersAssumption DEF HandlersInv, Handler
<1> DEFINE r == ReplaceAt(InSlice, Index(h.name), h)
           s == Sorted(r)
<1>2. /\ InSlice \in Seq(Handler) /\ Len(InSlice) = len /\ len \in Nat
      /\ len \in 0..Len(arrays[cur])
  BY <1>1, SliceFacts DEF SliceInv
<1>3. Index(h.name) \in 1..Len(InSlice)
  BY <1>2, IndexOfName DEF UpdateHandler
<1>4. r \in Seq(Handler) /\ Len(r) = len
  BY <1>1, <1>2, <1>3, ExceptSeq DEF ReplaceAt
<1> HIDE DEF r
<1>5. s \in Seq(Handler) /\ Len(s) = len /\ Descending(s)
  BY <1>4, SortedIsSorted DEF Descending
<1>6. Overwrite(s)
  BY DEF UpdateHandler, r
<1> HIDE DEF s
<1>7. ArraysGrow /\ SliceInv'
  BY <1>1, <1>2, <1>5, <1>6, OverwriteSlice
<1>8. /\ Edited /\ UNCHANGED <<disabled, holder, call, log, spent>>
      /\ handlerMu' = [handlerMu EXCEPT ![h.name] = None]
      /\ epoch' = [epoch EXCEPT ![h.name] = epoch[h.name] + 1]
  BY DEF UpdateHandler
<1>9. /\ disabled' \subseteq Names /\ spent' \subseteq disabled'
      /\ handlerMu' \in [Names -> DOMAIN holder \cup {None}]
      /\ \A n \in Names \ {h.name} : handlerMu'[n] = handlerMu[n]
      /\ {h.name} \in SUBSET Names /\ UNCHANGED <<call, log, holder>>
  BY <1>1, <1>8 DEF RegistryInv
<1>10. epoch' = [n \in Names |-> IF n \in {h.name} THEN epoch[n] + 1 ELSE epoch[n]]
  BY <1>1, <1>8 DEF RegistryInv
<1>11. QED
  BY <1>1, <1>7, <1>8, <1>9, <1>10, EditKeeps

(* A deletion moves the later handlers down: they stay sorted. *)
LEMMA KeepDelete ==
  ASSUME HandlersInv, NEW n \in Names, Delete(n)
  PROVE  HandlersInv'
<1>1. SliceInv /\ RegistryInv /\ n \in InUse
  BY DEF HandlersInv, Delete
<1> DEFINE a == arrays[cur]
           x == Index(n)
           d == [i \in DOMAIN a |-> IF x <= i /\ i < len THEN a[i + 1] ELSE a[i]]
<1>2. /\ a \in Seq(Cells) /\ Len(a) \in Nat /\ len \in Nat /\ len <= Len(a)
      /\ DOMAIN a = 1..Len(a) /\ x \in 1..len
  BY <1>1, SliceFacts, IndexOfName, LenProperties DEF SliceInv
<1>3. \A i \in 1..Len(a) : a[i] \in Cells
  BY <1>2, ElementOfSeq
<1>4. d \in [1..Len(a) -> Cells]
  BY <1>2, <1>3
<1>5. d \in Seq(Cells) /\ Len(d) = Len(a)
  BY <1>2, <1>4
<1>6. \A i \in 1..Len(a) : d[i] = IF x <= i /\ i < len THEN a[i + 1] ELSE a[i]
  BY <1>2
<1>7. /\ arrays' = [arrays EXCEPT ![cur] = d] /\ len' = len - 1 /\ cur' = cur
      /\ Edited /\ UNCHANGED <<holder, call, log>>
      /\ handlerMu' = [handlerMu EXCEPT ![n] = None]
      /\ epoch' = [epoch EXCEPT ![n] = epoch[n] + 1]
      /\ disabled' = disabled \ {n} /\ spent' = spent \ {n}
  BY DEF Delete
<1> HIDE DEF d, x
<1>8. len' \in 0..Len(d)
  BY <1>2, <1>5, <1>7
<1>9. /\ \A i \in 1..len : a[i] \in Handler /\ a[i].pri \in Nat
      /\ \A i, j \in 1..len : i < j => a[i].pri >= a[j].pri
  BY <1>1 DEF SliceInv, Handler
<1>10. \A i \in 1..len' : d[i] \in Handler
  BY <1>2, <1>6, <1>7, <1>9
<1>11. ASSUME NEW i \in 1..len', NEW j \in 1..len', i < j
       PROVE  d[i].pri >= d[j].pri
  <2>1. PICK k \in {i, i + 1} : d[i] = a[k] /\ (k = i + 1 => x <= i)
    BY <1>2, <1>6, <1>7
  <2>2. PICK l \in {j, j + 1} : d[j] = a[l] /\ (x <= j => l = j + 1)
    BY <1>2, <1>6, <1>7
  <2>3. k \in 1..len /\ l \in 1..len /\ k < l
    BY <1>2, <1>7, <1>11, <2>1, <2>2
  <2>4. QED
    BY <1>9, <2>1, <2>2, <2>3
<1>12. \A i \in 1..Len(d) : a[i] \in Handler => d[i] \in Handler
  BY <1>2, <1>5, <1>6, <1>9
<1>13. ArraysGrow /\ SliceInv'
  BY <1>1, <1>5, <1>7, <1>8, <1>10, <1>11, <1>12, ChangedArray
<1>14. /\ disabled' \subseteq Names /\ spent' \subseteq disabled'
       /\ handlerMu' \in [Names -> DOMAIN holder \cup {None}]
       /\ \A k \in Names \ {n} : handlerMu'[k] = handlerMu[k]
  BY <1>1, <1>7 DEF RegistryInv
<1>15. epoch' = [k \in Names |-> IF k \in {n} THEN epoch[k] + 1 ELSE epoch[k]]
  BY <1>1, <1>7 DEF RegistryInv
<1>16. QED
  BY <1>7, <1>13, <1>14, <1>15, EditKeeps, ZenonT(40)

(* A renaming moves the marks and the mutex along, both names get a new    *)
(* epoch.                                                                  *)
LEMMA KeepRename ==
  ASSUME HandlersInv, NEW n \in Names, NEW k \in Names, RenameHandler(n, k)
  PROVE  HandlersInv'
<1>1. SliceInv /\ RegistryInv /\ n \in InUse /\ k \notin InUse /\ n # k
  BY DEF HandlersInv, RenameHandler
<1> DEFINE a == arrays[cur]
           x == Index(n)
           h == [a[x] EXCEPT !.name = k]
           d == [a EXCEPT ![x] = h]
<1>2. /\ a \in Seq(Cells) /\ Len(a) \in Nat /\ len \in 0..Len(a) /\ x \in 1..len /\ x \in 1..Len(a)
  BY <1>1, SliceFacts, IndexOfName DEF SliceInv
<1>3. /\ \A i \in 1..len : a[i] \in Handler
      /\ \A i, j \in 1..len : i < j => a[i].pri >= a[j].pri
  BY <1>1 DEF SliceInv
<1>4. h \in Handler /\ h.pri = a[x].pri
  <2>1. a[x] \in Handler
    BY <1>2, <1>3
  <2>2. QED
    BY <2>1 DEF Handler
<1>5. /\ arrays' = [arrays EXCEPT ![cur] = d] /\ UNCHANGED <<cur, len>>
      /\ Edited /\ UNCHANGED <<holder, call, log>>
      /\ handlerMu' = [handlerMu EXCEPT ![k] = IF handlerMu[n] = None THEN handlerMu[k] ELSE handlerMu[n],
                                        ![n] = None]
      /\ epoch' = [epoch EXCEPT ![n] = epoch[n] + 1, ![k] = epoch[k] + 1]
      /\ disabled' = Moved(disabled, n, k) /\ spent' = Moved(spent, n, k)
  BY <1>1 DEF RenameHandler
<1> HIDE DEF h
<1>6. /\ d \in Seq(Cells) /\ Len(d) = Len(a)
      /\ \A i \in 1..Len(a) : d[i] = IF i = x THEN h ELSE a[i]
  BY <1>2, <1>4, ExceptSeq DEF Cells
<1> HIDE DEF d
<1>7. \A i \in 1..len : d[i] \in Handler /\ d[i].pri = a[i].pri
  BY <1>2, <1>3, <1>4, <1>6
<1>8. ArraysGrow /\ SliceInv'
  <2>1. \A i \in 1..Len(d) : a[i] \in Handler => d[i] \in Handler
    BY <1>4, <1>6
  <2>2. \A i, j \in 1..len' : i < j => d[i].pri >= d[j].pri
    BY <1>3, <1>5, <1>7
  <2>3. QED
    BY <1>1, <1>2, <1>5, <1>6, <1>7, <2>1, <2>2, ChangedArray
<1>9. disabled' \subseteq Names /\ spent' \subseteq disabled'
  BY <1>1, <1>5 DEF Moved, RegistryInv
<1>10. /\ handlerMu' \in [Names -> DOMAIN holder \cup {None}]
       /\ \A j \in Names \ {n, k} : handlerMu'[j] = handlerMu[j]
       /\ {n, k} \in SUBSET Names /\ UNCHANGED <<call, log, holder>>
  BY <1>1, <1>5 DEF RegistryInv
<1>11. epoch' = [j \in Names |-> IF j \in {n, k} THEN epoch[j] + 1 ELSE epoch[j]]
  BY <1>1, <1>5 DEF RegistryInv
<1>12. QED
  BY <1>5, <1>8, <1>9, <1>10, <1>11, EditKeeps

(* A file replaces everything: new array, new mutexes, no marks. *)
LEMMA KeepReplace ==
  ASSUME HandlersInv, NEW config \in Configs, ReplaceHandlers(config)
  PROVE  HandlersInv'
<1>1. SliceInv /\ RegistryInv /\ config \in Seq(Handler)
  BY HandlersAssumption DEF HandlersInv
<1> DEFINE s == Sorted(config)
<1>2. s \in Seq(Handler) /\ Len(s) = Len(config) /\ Descending(s) /\ Len(config) \in Nat
  BY <1>1, SortedIsSorted, LenProperties DEF Descending
<1>3. /\ Reallocate(s, Len(config)) /\ Edited /\ UNCHANGED <<holder, call, log>>
      /\ handlerMu' = [n \in Names |-> None]
      /\ epoch' = [n \in Names |-> epoch[n] + 1]
      /\ disabled' = {} /\ spent' = {}
  BY DEF ReplaceHandlers
<1> HIDE DEF s
<1>4. ArraysGrow /\ SliceInv'
  BY <1>1, <1>2, <1>3, ReallocateSlice
<1>5. /\ handlerMu' \in [Names -> DOMAIN holder \cup {None}]
      /\ epoch' = [n \in Names |-> IF n \in Names THEN epoch[n] + 1 ELSE epoch[n]]
  BY <1>3
<1>6. QED
  BY <1>3, <1>4, <1>5, EditKeeps

(* Enabling takes the marks of a name away, disabling sets one. *)
LEMMA KeepEnable ==
  ASSUME HandlersInv, NEW n \in Names, EnableHandler(n) \/ DisableHandler(n)
  PROVE  HandlersInv'
<1>1. SliceInv /\ RegistryInv
  BY DEF HandlersInv
<1>2. Edited /\ UNCHANGED <<arrays, cur, len, handlerMu, holder, call, log, epoch>>
  BY DEF EnableHandler, DisableHandler, slice, mutexes
<1>3. ArraysGrow /\ SliceInv'
  <2>1. arrays \in Seq(Seq(Cells)) /\ Len(arrays) \in Nat
    BY <1>1, LenProperties DEF SliceInv
  <2>2. QED
    BY <1>1, <1>2, <2>1 DEF ArraysGrow, SliceInv
<1>4. disabled' \subseteq Names /\ spent' \subseteq disabled'
  BY <1>1 DEF EnableHandler, DisableHandler, RegistryInv
<1>5. /\ handlerMu' \in [Names -> DOMAIN holder \cup {None}]
      /\ epoch' = [k \in Names |-> IF k \in {} THEN epoch[k] + 1 ELSE epoch[k]]
      /\ {} \in SUBSET Names /\ \A k \in Names \ {} : handlerMu'[k] = handlerMu[k]
      /\ UNCHANGED <<call, log, holder>>
  BY <1>1, <1>2 DEF RegistryInv
<1>6. QED
  BY <1>2, <1>3, <1>4, <1>5, EditKeeps

-----------------------------------------------------------------------------
(* The steps of a message's goroutine *)

(* What the other goroutines have is not touched. *)
LEMMA OthersKeep ==
  ASSUME HandlersInv, NEW m \in Msgs, NEW d \in Calls, call' = [call EXCEPT ![m] = d],
         UNCHANGED <<arrays, disturbed>>, \A n \in Msgs \ {m} : log'[n] = log[n],
         CallOK(m)', OrderOK(m)'
  PROVE  CallInv' /\ OrderInv'
<1>1. call \in [Msgs -> Calls] /\ \A n \in Msgs : CallOK(n) /\ OrderOK(n)
  BY DEF HandlersInv, CallInv, OrderInv
<1>2. call' \in [Msgs -> Calls] /\ \A n \in Msgs \ {m} : call'[n] = call[n]
  BY <1>1
<1>3. ASSUME NEW n \in Msgs, n # m
      PROVE  CallOK(n)' /\ OrderOK(n)'
  <2>1. call'[n] = call[n] /\ log'[n] = log[n]
    BY <1>2, <1>3
  <2>2. CallOK(n)'
    BY <1>1, <2>1 DEF CallOK
  <2>3. Ahead(n) => Ahead(n)'
    <3>1. \A h : Matches(n, h) => Matches(n, h)'
      BY <2>1 DEF Matches
    <3>2. arrays' = arrays
      OBVIOUS
    <3>3. QED
      BY <2>1, <3>1, <3>2, ZenonT(40) DEF Ahead
  <2>4. OrderOK(n)'
    BY <1>1, <2>1, <2>3 DEF OrderOK, InFlight
  <2>5. QED
    BY <2>2, <2>4
<1>4. QED
  BY <1>2, <1>3 DEF CallInv, OrderInv

(* The step leaves the matches as they are. *)
Same(c, d) ==
  d.arr = c.arr /\ d.size = c.size /\ d.skip = c.skip /\ d.todo = c.todo /\ d.late = c.late

SameMutexAs(c, d) == d.mu = c.mu /\ (d.mu # None => d.name = c.name /\ d.epoch = c.epoch)

(* A step inside the work on one match. *)
LEMMA StepWithin ==
  ASSUME HandlersInv, NEW m \in Msgs, InFlight(m), NEW d \in Calls, call' = [call EXCEPT ![m] = d],
         Fits(d), d.pc \notin {"idle", "match", "done"}, Same(call[m], d),
         UNCHANGED <<arrays, log, disturbed>>,
         Working(d) => d.who = Cell(m) \/ (Working(call[m]) /\ d.who = call[m].who)
  PROVE  CallInv' /\ OrderInv'
<1>1. call \in [Msgs -> Calls] /\ CallOK(m) /\ OrderOK(m)
  BY DEF HandlersInv, CallInv, OrderInv
<1>2. call'[m] = d
  BY <1>1
<1>3. CallOK(m)'
  BY <1>1, <1>2 DEF CallOK, Same
<1>4. ASSUME m \notin disturbed
      PROVE  Ahead(m)'
  <2>1. Ahead(m)
    BY <1>1, <1>4 DEF OrderOK
  <2>2. Working(d) => d.who = arrays[d.arr][Head(d.todo)]
    BY <2>1 DEF Ahead, Cell, Same
  <2>3. \A h : Matches(m, h) => Matches(m, h)'
    BY <1>2 DEF Matches, Same
  <2>4. d.pc # "match" /\ arrays' = arrays /\ log' = log
    OBVIOUS
  <2>5. QED
    BY <1>2, <2>1, <2>2, <2>3, <2>4, ZenonT(40) DEF Ahead, Same
<1>5. OrderOK(m)'
  BY <1>1, <1>2, <1>4 DEF OrderOK, Same
<1>6. QED
  BY <1>3, <1>5, OthersKeep

(* A step that does not touch the mutexes. *)
LEMMA MutexKept ==
  ASSUME HandlersInv, NEW m \in Msgs, NEW d \in Calls, call' = [call EXCEPT ![m] = d],
         UNCHANGED <<handlerMu, holder, epoch>>,
         SameMutexAs(call[m], d), Locked(d) <=> Locked(call[m])
  PROVE  MutexInv'
<1>1. call \in [Msgs -> Calls] /\ MutexInv
  BY DEF HandlersInv, CallInv
<1>2. call'[m] = d /\ \A n \in Msgs \ {m} : call'[n] = call[n]
  BY <1>1
<1>3. \A n \in Msgs : /\ SameMutexAs(call[n], call'[n])
                      /\ Locked(call'[n]) <=> Locked(call[n])
  <2>1. ASSUME NEW n \in Msgs, n # m
        PROVE  SameMutexAs(call[n], call'[n]) /\ (Locked(call'[n]) <=> Locked(call[n]))
    BY <1>2, <2>1 DEF SameMutexAs
  <2>2. QED
    BY <1>2, <2>1
<1>4. \A n \in Msgs : MutexOf(n)'
  BY <1>1, <1>3 DEF MutexInv, MutexOf, SameMutexAs
<1>5. \A n, k \in Msgs : SameMutex(n, k)'
  BY <1>1, <1>3 DEF MutexInv, SameMutex, SameMutexAs
<1>6. HolderInv'
  <2>1. \A n \in Msgs : Locked(call'[n]) => holder[call'[n].mu] = n
    BY <1>1, <1>3 DEF MutexInv, HolderInv, SameMutexAs
  <2>2. \A i \in DOMAIN holder : holder[i] # None => holder[i] \in Msgs
    BY LenProperties DEF HandlersInv, RegistryInv
  <2>3. \A i \in DOMAIN holder : holder[i] # None => Locked(call'[holder[i]]) /\ call'[holder[i]].mu = i
    BY <1>1, <1>3, <2>2 DEF MutexInv, HolderInv, SameMutexAs
  <2>4. QED
    BY <2>1, <2>3 DEF HolderInv
<1>7. QED
  BY <1>4, <1>5, <1>6 DEF MutexInv

(* What a step that changes neither slice nor registry has to show. *)
LEMMA RestKept ==
  ASSUME HandlersInv, UNCHANGED <<arrays, cur, len, disabled, handlerMu, holder, log, edits, epoch, spent, disturbed>>
  PROVE  SliceInv' /\ RegistryInv'
BY DEF HandlersInv, SliceInv, RegistryInv

(* The sequence of matches without the first one. *)
LEMMA TailOfTodo ==
  ASSUME NEW q \in Seq(Nat), q # <<>>
  PROVE  /\ Tail(q) \in Seq(Nat) /\ Head(q) = q[1] /\ 1 \in DOMAIN q /\ Len(Tail(q)) = Len(q) - 1
         /\ DOMAIN q = 1..Len(q) /\ Len(q) \in Nat
         /\ \A k \in DOMAIN Tail(q) : k + 1 \in DOMAIN q /\ Tail(q)[k] = q[k + 1] /\ k \in Nat
         /\ Increasing(q) => Increasing(Tail(q))
<1>1. /\ Len(q) \in Nat \ {0} /\ DOMAIN q = 1..Len(q)
      /\ Tail(q) \in Seq(Nat) /\ Len(Tail(q)) = Len(q) - 1 /\ Head(q) = q[1]
      /\ \A k \in 1..Len(q) - 1 : Tail(q)[k] = q[k + 1]
  OBVIOUS
<1>2. DOMAIN Tail(q) = 1..Len(q) - 1
  BY <1>1, LenProperties
<1>3. \A k \in 1..Len(q) - 1 : k + 1 \in 1..Len(q)
  BY <1>1
<1>4. Increasing(q) => Increasing(Tail(q))
  BY <1>1, <1>2, <1>3, SMTT(40) DEF Increasing
<1>5. QED
  BY <1>1, <1>2, <1>3, <1>4

(* Where a goroutine starts. *)
LEMMA IdleCall ==
  /\ Idle \in Calls /\ Idle.pc = "idle" /\ Idle.arr = 1 /\ Idle.size = 0 /\ Idle.skip = {}
  /\ Idle.at = 1 /\ Idle.todo = <<>> /\ Idle.mu = None /\ Idle.tries = 0 /\ Idle.max = 0
  /\ Idle.late = {}
<1>1. Idle \in Calls
  BY DEF Idle, Calls, PCs, Cells
<1>2. QED
  BY <1>1 DEF Idle

(* Matching begins with a copy of the slice as it is. *)
LEMMA KeepMatchBegin ==
  ASSUME HandlersInv, NEW m \in Msgs, MatchBegin(m)
  PROVE  HandlersInv'
<1> DEFINE d == [Idle EXCEPT !.pc = IF len = 0 THEN "next" ELSE "match", !.arr = cur,
                             !.size = len, !.skip = disabled, !.late = spent]
<1>1. SliceInv /\ RegistryInv /\ CallOK(m) /\ OrderOK(m)
  BY DEF HandlersInv, CallInv, OrderInv
<1>2. /\ At(m, "idle") /\ call' = [call EXCEPT ![m] = d]
      /\ UNCHANGED <<arrays, cur, len, disabled, handlerMu, holder, log, edits, epoch, spent, disturbed>>
  BY DEF MatchBegin, Goes, slice, mutexes
<1>3. cur \in Nat /\ len \in Nat /\ len <= Len(arrays[cur]) /\ disabled \subseteq Names /\ spent \subseteq disabled
  BY <1>1, SliceFacts, SMTT(40) DEF SliceInv, RegistryInv
<1> DEFINE pc == IF len = 0 THEN "next" ELSE "match"
<1>4. /\ d \in Calls /\ d.pc = pc /\ d.arr = cur /\ d.size = len
      /\ d.at = 1 /\ d.skip = disabled /\ d.late = spent /\ d.todo = <<>> /\ d.mu = None
      /\ d.tries = 0 /\ d.max = 0
  <2>1. pc \in PCs
    BY DEF PCs
  <2> HIDE DEF pc
  <2> DEFINE i == Idle
  <2>2. /\ spent \subseteq Names /\ i \in Calls
        /\ d = [i EXCEPT !.pc = pc, !.arr = cur, !.size = len, !.skip = disabled, !.late = spent]
    BY <1>3, IdleCall DEF pc
  <2> HIDE DEF d, i
  <2>3. d \in Calls
    BY <1>3, <2>1, <2>2 DEF Calls
  <2>4. /\ d.pc = pc /\ d.arr = cur /\ d.size = len /\ d.skip = disabled /\ d.late = spent
        /\ d.at = i.at /\ d.todo = i.todo /\ d.mu = i.mu
        /\ d.tries = i.tries /\ d.max = i.max
    BY <2>2 DEF Calls
  <2>5. QED
    BY <2>3, <2>4, IdleCall DEF i, pc
<1> HIDE DEF d
<1>5. call'[m] = d /\ call[m].pc = "idle" /\ call[m].mu = None
  BY <1>1, <1>2 DEF HandlersInv, CallInv, At, CallOK, Fits
<1>6. CallOK(m)'
  <2>1. Fits(d)
    BY <1>3, <1>4 DEF Fits, Working
  <2>2. (\A i \in 1..len : arrays[cur][i] \in Handler) /\ cur \in DOMAIN arrays
    BY <1>1 DEF SliceInv
  <2>3. QED
    BY <1>2, <1>3, <1>4, <1>5, <2>1, <2>2 DEF CallOK
<1>7. OrderOK(m)'
  <2>1. log'[m] = <<>>
    BY <1>1, <1>2, <1>5 DEF OrderOK
  <2>2. Executed(<<>>)
    BY DEF Executed
  <2>3. Ahead(m)'
    BY <1>1, <1>2, <1>4, <1>5, <2>1 DEF Ahead, Increasing, Working, SliceInv
  <2>4. QED
    BY <1>3, <1>4, <1>5, <2>1, <2>2, <2>3 DEF OrderOK
<1>8. MutexInv'
  BY <1>2, <1>4, <1>5, MutexKept DEF SameMutexAs, Locked
<1>9. QED
  BY <1>2, <1>4, <1>6, <1>7, <1>8, OthersKeep, RestKept DEF HandlersInv

(* One more handler is looked at; a match goes behind the earlier ones. *)
LEMMA KeepMatchOne ==
  ASSUME HandlersInv, NEW m \in Msgs, MatchOne(m)
  PROVE  HandlersInv'
<1> DEFINE c == call[m]
           h == arrays[c.arr][c.at]
           yes == Matches(m, h)
           d == [c EXCEPT !.at = c.at + 1,
                          !.todo = IF yes THEN Append(c.todo, c.at) ELSE c.todo,
                          !.pc = IF c.at = c.size \/ (yes /\ h.exclusive) THEN "next" ELSE "match"]
<1>1. CallOK(m) /\ OrderOK(m) /\ c \in Calls
  BY DEF HandlersInv, CallInv, OrderInv
<1>2. /\ c.pc = "match" /\ call' = [call EXCEPT ![m] = d]
      /\ UNCHANGED <<arrays, cur, len, disabled, handlerMu, holder, log, edits, epoch, spent, disturbed>>
  BY DEF MatchOne, Goes, At, slice, mutexes
<1>3. /\ c.at \in 1..c.size /\ c.at \in Nat /\ c.size \in Nat /\ c.todo \in Seq(Nat) /\ c.mu = None
      /\ c.tries <= c.max
  BY <1>1, <1>2 DEF CallOK, Fits, Calls
<1> DEFINE todo == IF yes THEN Append(c.todo, c.at) ELSE c.todo
<1>4. todo \in Seq(Nat)
  BY <1>3, AppendProperties
<1>5. /\ d \in Calls /\ d.at = c.at + 1 /\ d.todo = todo
      /\ d.pc = (IF c.at = c.size \/ (yes /\ h.exclusive) THEN "next" ELSE "match")
      /\ d.arr = c.arr /\ d.size = c.size /\ d.skip = c.skip /\ d.late = c.late /\ d.mu = c.mu
      /\ d.tries = c.tries /\ d.max = c.max
  <2> DEFINE pc == IF c.at = c.size \/ (yes /\ h.exclusive) THEN "next" ELSE "match"
             at == c.at + 1
  <2>1. pc \in PCs /\ at \in Nat
    BY <1>3 DEF PCs
  <2>2. d = [c EXCEPT !.at = at, !.todo = todo, !.pc = pc]
    OBVIOUS
  <2> HIDE DEF yes, h, todo, pc, at, d, c
  <2>3. /\ d \in Calls /\ d.at = at /\ d.todo = todo /\ d.pc = pc /\ d.arr = c.arr /\ d.size = c.size
        /\ d.skip = c.skip /\ d.late = c.late /\ d.mu = c.mu /\ d.tries = c.tries /\ d.max = c.max
    BY <1>1, <1>4, <2>1, <2>2 DEF Calls
  <2>4. QED
    BY <2>3 DEF at, pc
<1> HIDE DEF d
<1>6. call'[m] = d
  BY <1>2 DEF HandlersInv, CallInv
<1>7. /\ DOMAIN c.todo = 1..Len(c.todo) /\ Len(c.todo) \in Nat /\ DOMAIN todo = 1..Len(todo)
      /\ \A k \in DOMAIN c.todo : todo[k] = c.todo[k]
      /\ yes => Len(todo) = Len(c.todo) + 1 /\ todo[Len(todo)] = c.at
      /\ ~yes => todo = c.todo
  <2>1. DOMAIN c.todo = 1..Len(c.todo) /\ Len(c.todo) \in Nat /\ DOMAIN todo = 1..Len(todo)
    BY <1>3, <1>4, LenProperties
  <2>2. /\ yes => /\ \A k \in 1..Len(c.todo) : todo[k] = c.todo[k]
                  /\ Len(todo) = Len(c.todo) + 1 /\ todo[Len(todo)] = c.at
        /\ ~yes => todo = c.todo
    <3> HIDE DEF c, h, yes
    <3>1. QED
      BY <1>3, AppendProperties
  <2> HIDE DEF todo
  <2>3. QED
    BY <2>1, <2>2
<1>8. \A k \in DOMAIN todo : k \in DOMAIN c.todo \/ (yes /\ k = Len(todo))
  BY <1>7
<1> HIDE DEF todo
<1>9. CallOK(m)'
  <2>1. \A k \in DOMAIN todo : todo[k] \in 1..c.size
    BY <1>1, <1>3, <1>7, <1>8 DEF CallOK
  <2>2. Fits(d)
    BY <1>3, <1>5 DEF Fits, Working
  <2>3. QED
    BY <1>1, <1>2, <1>5, <1>6, <2>1, <2>2 DEF CallOK
<1>10. ASSUME m \notin disturbed
       PROVE  Ahead(m)'
  <2>1. Ahead(m) /\ log[m] = <<>>
    BY <1>1, <1>2, <1>10 DEF OrderOK, InFlight
  <2>2. Increasing(todo)
    <3>1. \A n \in ToSet(c.todo) : n < c.at
      BY <1>2, <2>1 DEF Ahead, ToSet
    <3>2. Increasing(c.todo)
      BY <2>1 DEF Ahead
    <3>3. QED
      BY <1>3, <3>1, <3>2, IncreasingAppend DEF todo
  <2>3. ASSUME NEW k \in DOMAIN todo
        PROVE  /\ Matches(m, arrays[c.arr][todo[k]])
               /\ d.pc = "match" => todo[k] < d.at
               /\ arrays[c.arr][todo[k]].exclusive => k = Len(todo) /\ d.pc # "match"
    <3>1. CASE k \in DOMAIN c.todo
      <4>1. /\ Matches(m, arrays[c.arr][c.todo[k]]) /\ c.todo[k] < c.at
            /\ ~arrays[c.arr][c.todo[k]].exclusive
        BY <1>2, <2>1, <3>1 DEF Ahead
      <4>2. todo[k] = c.todo[k] /\ c.todo[k] \in Nat
        BY <1>3, <1>7, <3>1, ElementOfSeq
      <4>3. c.todo[k] < c.at + 1
        BY <1>3, <4>1, <4>2
      <4>4. QED
        BY <1>5, <4>1, <4>2, <4>3
    <3>2. CASE yes /\ k = Len(todo)
      <4>1. todo[k] = c.at
        BY <1>7, <3>2
      <4>2. c.at < c.at + 1
        BY <1>3
      <4>3. QED
        BY <1>5, <3>2, <4>1, <4>2
    <3>3. QED
      BY <1>8, <3>1, <3>2
  <2>4. ~Working(d)
    BY <1>5 DEF Working
  <2> HIDE DEF h, yes
  <2>5. log'[m] = <<>> /\ DOMAIN <<>> = {}
    BY <1>2, <2>1
  <2>6. \A i, j \in 1..c.size : i < j => arrays[c.arr][i].pri >= arrays[c.arr][j].pri
    BY <2>1 DEF Ahead
  <2>7. \A e : Matches(m, e) => Matches(m, e)'
    BY <1>5, <1>6 DEF Matches
  <2>8. \A i \in DOMAIN log'[m] : FALSE
    BY <2>5
  <2>9. arrays' = arrays /\ call'[m] = d
    BY <1>2, <1>6
  <2> HIDE DEF c
  <2>10. QED
    BY <1>5, <2>2, <2>3, <2>4, <2>6, <2>7, <2>8, <2>9 DEF Ahead
<1>11. OrderOK(m)'
  <2>1. log[m] = <<>> /\ c.late \subseteq c.skip
    BY <1>1, <1>2 DEF OrderOK
  <2>2. Executed(<<>>)
    BY DEF Executed
  <2>3. QED
    BY <1>2, <1>5, <1>6, <1>10, <2>1, <2>2 DEF OrderOK
<1>12. MutexInv'
  BY <1>2, <1>3, <1>5, MutexKept DEF SameMutexAs, Locked
<1>13. QED
  BY <1>2, <1>5, <1>9, <1>11, <1>12, OthersKeep, RestKept DEF HandlersInv

(* The goroutine ends with what it has executed, and holds nothing. *)
LEMMA DoneKept ==
  ASSUME HandlersInv, NEW m \in Msgs, call' = [call EXCEPT ![m] = Done],
         UNCHANGED <<arrays, disturbed>>, \A n \in Msgs \ {m} : log'[n] = log[n],
         m \notin disturbed => Executed(log'[m])
  PROVE  CallInv' /\ OrderInv' /\ Done \in Calls
<1>1. /\ Done \in Calls /\ Done.pc = "done" /\ Done.arr = 1 /\ Done.size = 0 /\ Done.todo = <<>>
      /\ Done.mu = None /\ Done.tries = 0 /\ Done.max = 0 /\ Done.late = {}
  <2>1. Done \in Calls
    BY IdleCall DEF Done, Calls, PCs
  <2>2. /\ Done.pc = "done" /\ Done.arr = Idle.arr /\ Done.size = Idle.size /\ Done.todo = Idle.todo
        /\ Done.mu = Idle.mu /\ Done.tries = Idle.tries /\ Done.max = Idle.max /\ Done.late = Idle.late
    BY IdleCall DEF Done, Calls
  <2>3. QED
    BY <2>1, <2>2, IdleCall
<1>2. call'[m] = Done
  BY DEF HandlersInv, CallInv
<1>3. 1 \in DOMAIN arrays /\ Len(arrays[1]) \in Nat
  <2>1. arrays \in Seq(Seq(Cells)) /\ 1 \in 1..Len(arrays)
    BY SliceFacts DEF HandlersInv, SliceInv
  <2>2. QED
    BY <2>1, LenProperties
<1>4. CallOK(m)'
  <2>1. Fits(Done)
    BY <1>1 DEF Fits, Working
  <2>2. QED
    BY <1>1, <1>2, <1>3, <2>1 DEF CallOK
<1>5. OrderOK(m)'
  BY <1>1, <1>2 DEF OrderOK, InFlight
<1>6. QED
  BY <1>1, <1>4, <1>5, OthersKeep

(* A matcher that fails and an empty list of matches end the goroutine. *)
LEMMA KeepEnd ==
  ASSUME HandlersInv, NEW m \in Msgs, MatchFails(m) \/ NoMore(m)
  PROVE  HandlersInv'
<1>1. /\ call[m].pc \in {"match", "next"} /\ call' = [call EXCEPT ![m] = Done]
      /\ UNCHANGED <<arrays, cur, len, disabled, handlerMu, holder, log, edits, epoch, spent, disturbed>>
  BY DEF MatchFails, NoMore, At, Goes, slice, mutexes
<1>2. m \notin disturbed => Executed(log'[m])
  BY <1>1 DEF HandlersInv, OrderInv, OrderOK
<1>3. CallInv' /\ OrderInv' /\ Done \in Calls
  BY <1>1, <1>2, DoneKept
<1>4. call[m].mu = None /\ Done.mu = None /\ Done.pc = "done"
  BY <1>1 DEF HandlersInv, CallInv, CallOK, Fits, Done, Idle
<1>5. MutexInv'
  BY <1>1, <1>3, <1>4, MutexKept DEF SameMutexAs, Locked
<1>6. QED
  BY <1>1, <1>3, <1>5, RestKept DEF HandlersInv

(* The goroutine goes on with the next match. *)
LEMMA NextKept ==
  ASSUME HandlersInv, NEW m \in Msgs, InFlight(m), call[m].todo # <<>>, call[m].pc # "match",
         NEW d \in Calls, call' = [call EXCEPT ![m] = d], d.pc = "next", d.mu = None,
         d.todo = Tail(call[m].todo), d.tries <= d.max,
         d.arr = call[m].arr, d.size = call[m].size, d.skip = call[m].skip, d.late = call[m].late,
         UNCHANGED <<arrays, disturbed>>, \A n \in Msgs \ {m} : log'[n] = log[n],
         m \notin disturbed => Executed(log'[m]),
         m \notin disturbed => \A i \in DOMAIN log'[m] :
           /\ log'[m][i].how # "drop" /\ ~log'[m][i].who.exclusive
           /\ \A k \in DOMAIN d.todo : log'[m][i].who.pri >= arrays[d.arr][d.todo[k]].pri
  PROVE  CallInv' /\ OrderInv'
<1> DEFINE c == call[m]
<1>1. CallOK(m) /\ OrderOK(m) /\ c \in Calls /\ call'[m] = d
  BY DEF HandlersInv, CallInv, OrderInv
<1>2. c.todo \in Seq(Nat) /\ c.todo # <<>>
  BY <1>1 DEF Calls
<1>3. /\ Len(d.todo) = Len(c.todo) - 1 /\ Len(c.todo) \in Nat
      /\ \A k \in DOMAIN d.todo : k + 1 \in DOMAIN c.todo /\ d.todo[k] = c.todo[k + 1] /\ k \in Nat
      /\ Increasing(c.todo) => Increasing(d.todo)
  <2> DEFINE q == c.todo
  <2>1. q \in Seq(Nat) /\ q # <<>> /\ d.todo = Tail(q)
    BY <1>2
  <2> HIDE DEF q
  <2>2. /\ Len(Tail(q)) = Len(q) - 1 /\ Len(q) \in Nat
        /\ \A k \in DOMAIN Tail(q) : k + 1 \in DOMAIN q /\ Tail(q)[k] = q[k + 1] /\ k \in Nat
        /\ Increasing(q) => Increasing(Tail(q))
    BY ONLY <2>1, TailOfTodo
  <2>3. QED
    BY <2>1, <2>2 DEF q
<1>4. CallOK(m)'
  <2>1. Fits(d)
    BY DEF Fits, Working
  <2>2. \A k \in DOMAIN d.todo : d.todo[k] \in 1..d.size
    BY <1>1, <1>3 DEF CallOK
  <2>3. QED
    BY <1>1, <2>1, <2>2 DEF CallOK
<1>5. ASSUME m \notin disturbed
      PROVE  Ahead(m)'
  <2>1. Ahead(m)
    BY <1>1, <1>5 DEF OrderOK
  <2>2. ASSUME NEW k \in DOMAIN d.todo
        PROVE  /\ Matches(m, arrays[c.arr][d.todo[k]])
               /\ arrays[c.arr][d.todo[k]].exclusive => k = Len(d.todo)
    <3>1. k + 1 \in DOMAIN c.todo /\ d.todo[k] = c.todo[k + 1] /\ k \in Nat
      BY <1>3
    <3>2. /\ Matches(m, arrays[c.arr][c.todo[k + 1]])
          /\ arrays[c.arr][c.todo[k + 1]].exclusive => k + 1 = Len(c.todo)
      BY <2>1, <3>1 DEF Ahead
    <3>3. k + 1 = Len(c.todo) => k = Len(d.todo)
      <4>1. Len(d.todo) = Len(c.todo) - 1 /\ Len(c.todo) \in Nat /\ k \in Nat
        BY <1>3, <3>1
      <4>2. QED
        BY ONLY <4>1
    <3>4. QED
      BY <3>1, <3>2, <3>3
  <2>3. Increasing(d.todo) /\ ~Working(d)
    BY <1>3, <2>1 DEF Ahead, Working
  <2>4. \A i, j \in 1..d.size : i < j => arrays[d.arr][i].pri >= arrays[d.arr][j].pri
    BY <2>1 DEF Ahead
  <2>5. QED
    BY <1>1, <1>5, <2>2, <2>3, <2>4, ZenonT(40) DEF Ahead, Matches
<1>6. OrderOK(m)'
  BY <1>1, <1>5 DEF OrderOK
<1>7. QED
  BY <1>4, <1>6, OthersKeep

(* A match that is held back is left out. *)
LEMMA KeepHoldBack ==
  ASSUME HandlersInv, NEW m \in Msgs, HoldBack(m)
  PROVE  HandlersInv'
<1> DEFINE c == call[m]
           d == [c EXCEPT !.todo = Tail(c.todo)]
<1>1. CallOK(m) /\ OrderOK(m) /\ c \in Calls
  BY DEF HandlersInv, CallInv, OrderInv
<1>2. /\ c.pc = "next" /\ c.todo # <<>> /\ call' = [call EXCEPT ![m] = d]
      /\ UNCHANGED <<arrays, cur, len, disabled, handlerMu, holder, log, edits, epoch, spent, disturbed>>
  BY DEF HoldBack, Goes, At, slice, mutexes
<1>3. c.todo \in Seq(Nat) /\ c.mu = None /\ c.tries <= c.max /\ InFlight(m)
  BY <1>1, <1>2 DEF Calls, CallOK, Fits, InFlight
<1>4. /\ Tail(c.todo) \in Seq(Nat)
      /\ \A k \in DOMAIN Tail(c.todo) : k + 1 \in DOMAIN c.todo /\ Tail(c.todo)[k] = c.todo[k + 1]
  BY <1>2, <1>3, TailOfTodo
<1>5. /\ d \in Calls /\ d.todo = Tail(c.todo) /\ d.pc = "next" /\ d.mu = None /\ d.tries <= d.max
      /\ d.arr = c.arr /\ d.size = c.size /\ d.skip = c.skip /\ d.late = c.late
  BY <1>1, <1>2, <1>3, <1>4 DEF Calls
<1> HIDE DEF d
<1>6. m \notin disturbed => Executed(log'[m])
  BY <1>1, <1>2 DEF OrderOK
<1>7. ASSUME m \notin disturbed, NEW i \in DOMAIN log'[m]
      PROVE  /\ log'[m][i].how # "drop" /\ ~log'[m][i].who.exclusive
             /\ \A k \in DOMAIN d.todo : log'[m][i].who.pri >= arrays[d.arr][d.todo[k]].pri
  <2>1. Ahead(m) /\ log' = log
    BY <1>1, <1>2, <1>3, <1>7 DEF OrderOK
  <2>2. QED
    BY <1>4, <1>5, <1>7, <2>1, ZenonT(40) DEF Ahead
<1>8. CallInv' /\ OrderInv'
  BY <1>2, <1>3, <1>5, <1>6, <1>7, NextKept
<1>9. MutexInv'
  BY <1>2, <1>3, <1>5, MutexKept DEF SameMutexAs, Locked
<1>10. QED
  BY <1>2, <1>8, <1>9, RestKept DEF HandlersInv

(* The match that a goroutine works on is a handler. *)
LEMMA CellIsHandler ==
  ASSUME HandlersInv, NEW m \in Msgs, call[m].todo # <<>>
  PROVE  /\ Head(call[m].todo) \in 1..call[m].size /\ Head(call[m].todo) = call[m].todo[1]
         /\ 1 \in DOMAIN call[m].todo
         /\ Cell(m) \in Handler /\ Cell(m).retry \in Nat /\ Cell(m).name \in Names
         /\ Cell(m).pri \in Nat
<1>1. CallOK(m) /\ call[m].todo \in Seq(Nat)
  BY DEF HandlersInv, CallInv, Calls
<1>2. Head(call[m].todo) = call[m].todo[1] /\ 1 \in DOMAIN call[m].todo
  BY <1>1, TailOfTodo
<1>3. Head(call[m].todo) \in 1..call[m].size
  BY <1>1, <1>2 DEF CallOK
<1>4. Cell(m) \in Handler
  BY <1>1, <1>3 DEF CallOK, Cell
<1>5. Cell(m).retry \in Nat /\ Cell(m).name \in Names /\ Cell(m).pri \in Nat
  BY <1>4 DEF Handler
<1>6. QED
  BY <1>2, <1>3, <1>4, <1>5

(* The attempts are counted anew. *)
LEMMA AttemptsBegin ==
  ASSUME NEW c \in Calls, NEW h \in Handler
  PROVE  /\ Attempts(c, h) \in Calls /\ Attempts(c, h).pc = "try" /\ Attempts(c, h).who = h
         /\ Attempts(c, h).tries = 0 /\ Attempts(c, h).max \in Nat /\ 0 < Attempts(c, h).max
         /\ Same(c, Attempts(c, h)) /\ SameMutexAs(c, Attempts(c, h))
<1> DEFINE max == 1 + h.retry
           d == [c EXCEPT !.pc = "try", !.tries = 0, !.max = max, !.who = h]
<1>1. h.retry \in Nat
  BY DEF Handler
<1>2. max \in Nat /\ 0 < max /\ Attempts(c, h) = d
  BY <1>1 DEF Attempts
<1> HIDE DEF max
<1>3. d \in Calls
  BY <1>2 DEF Calls, PCs, Cells
<1>4. /\ d.pc = "try" /\ d.tries = 0 /\ d.max = max /\ d.who = h
      /\ Same(c, d) /\ SameMutexAs(c, d)
  BY DEF Calls, Same, SameMutexAs
<1> HIDE DEF d
<1>5. QED
  BY <1>2, <1>3, <1>4

(* A match is begun: by looking for its mutex, or at once. *)
LEMMA KeepStart ==
  ASSUME HandlersInv, NEW m \in Msgs, Start(m)
  PROVE  HandlersInv'
<1> DEFINE c == call[m]
           h == Cell(m)
           f == [c EXCEPT !.pc = "find", !.who = h, !.name = h.name]
           d == IF h.serial THEN f ELSE Attempts(c, h)
<1>1. CallOK(m) /\ c \in Calls
  BY DEF HandlersInv, CallInv
<1>2. /\ c.pc = "next" /\ c.todo # <<>> /\ call' = [call EXCEPT ![m] = d]
      /\ UNCHANGED <<arrays, cur, len, disabled, handlerMu, holder, log, edits, epoch, spent, disturbed>>
  BY DEF Start, Goes, At, slice, mutexes
<1>3. h \in Handler /\ h.name \in Names
  BY <1>2, CellIsHandler
<1>4. c.mu = None /\ c.tries <= c.max /\ InFlight(m)
  BY <1>1, <1>2 DEF CallOK, Fits, InFlight
<1> HIDE DEF h
<1>5. f \in Calls
  BY <1>1, <1>3 DEF Calls, PCs, Cells
<1>6. /\ f.pc = "find" /\ f.who = h /\ f.name = h.name /\ f.tries = c.tries /\ f.max = c.max
      /\ f.todo = c.todo /\ f.mu = c.mu /\ Same(c, f)
  BY <1>1 DEF Calls, Same
<1> HIDE DEF f
<1>7. /\ d \in Calls /\ d.pc \in {"find", "try"} /\ d.who = h /\ d.mu = None /\ Same(c, d) /\ Fits(d)
  <2>1. CASE h.serial
    BY <1>2, <1>3, <1>4, <1>5, <1>6, <2>1 DEF Fits, Working
  <2>2. CASE ~h.serial
    BY <1>1, <1>2, <1>3, <1>4, <2>2, AttemptsBegin DEF Fits, Same, SameMutexAs, Working
  <2>3. QED
    BY <2>1, <2>2
<1> HIDE DEF d
<1>8. CallInv' /\ OrderInv'
  BY <1>2, <1>4, <1>7, StepWithin DEF h
<1>9. MutexInv'
  BY <1>2, <1>4, <1>7, MutexKept DEF SameMutexAs, Locked
<1>10. QED
  BY <1>2, <1>8, <1>9, RestKept DEF HandlersInv

(* Taking the mutex of the name, one that is there or a new one. *)
LEMMA TakeKept ==
  ASSUME HandlersInv, NEW m \in Msgs, NEW d \in Calls, call' = [call EXCEPT ![m] = d],
         ~Locked(call[m]), d.pc = "lock", d.name \in Names, d.epoch = epoch[d.name],
         d.mu \in DOMAIN holder', d.mu # None, handlerMu'[d.name] = d.mu, epoch' = epoch,
         \A n \in Names : handlerMu[n] # None => handlerMu'[n] = handlerMu[n],
         \A i \in DOMAIN holder : i \in DOMAIN holder' /\ holder'[i] = holder[i],
         \A i \in DOMAIN holder' : i \in DOMAIN holder \/ holder'[i] = None
  PROVE  MutexInv'
<1>1. /\ call \in [Msgs -> Calls] /\ MutexInv /\ epoch \in [Names -> 0..edits] /\ edits \in Nat
      /\ \A i \in DOMAIN holder : holder[i] # None => holder[i] \in Msgs
  <2>1. holder \in Seq(Msgs \cup {None})
    BY DEF HandlersInv, RegistryInv
  <2>2. \A i \in DOMAIN holder : holder[i] \in Msgs \cup {None}
    BY <2>1, LenProperties
  <2>3. QED
    BY <2>2 DEF HandlersInv, CallInv, RegistryInv
<1>2. call'[m] = d /\ \A n \in Msgs \ {m} : call'[n] = call[n]
  BY <1>1
<1>3. ~Locked(d)
  BY DEF Locked
<1>4. ASSUME NEW n \in Msgs
      PROVE  MutexOf(n)'
  <2>1. CASE n = m
    BY <1>1, <1>2, <2>1 DEF MutexOf
  <2>2. CASE n # m
    BY <1>1, <1>2, <2>2 DEF MutexInv, MutexOf
  <2>3. QED
    BY <2>1, <2>2
<1>5. ASSUME NEW n \in Msgs, n # m, call[n].mu # None, call[n].name = d.name, call[n].epoch = d.epoch
      PROVE  call[n].mu = d.mu
  <2>1. handlerMu[d.name] = call[n].mu
    BY <1>1, <1>5 DEF MutexInv, MutexOf
  <2>2. QED
    BY <1>5, <2>1
<1>6. ASSUME NEW n \in Msgs, NEW k \in Msgs
      PROVE  SameMutex(n, k)'
  <2>1. CASE n # m /\ k # m
    BY <1>1, <1>2, <2>1 DEF MutexInv, SameMutex
  <2>2. CASE n = m \/ k = m
    BY <1>2, <1>5, <2>2 DEF SameMutex
  <2>3. QED
    BY <2>1, <2>2
<1>7. HolderInv'
  <2>1. ASSUME NEW n \in Msgs, Locked(call'[n])
        PROVE  holder'[call'[n].mu] = n
    <3>1. n # m /\ call'[n] = call[n] /\ call[n].mu # None
      BY <1>2, <1>3, <2>1 DEF Locked
    <3>2. call[n].mu \in DOMAIN holder /\ holder[call[n].mu] = n
      BY <1>1, <2>1, <3>1 DEF MutexInv, MutexOf, HolderInv
    <3>3. QED
      BY <3>1, <3>2
  <2>2. ASSUME NEW i \in DOMAIN holder', holder'[i] # None
        PROVE  Locked(call'[holder'[i]]) /\ call'[holder'[i]].mu = i
    <3>1. i \in DOMAIN holder /\ holder'[i] = holder[i] /\ holder[i] \in Msgs
      BY <1>1, <2>2
    <3>2. Locked(call[holder[i]]) /\ call[holder[i]].mu = i
      BY <1>1, <2>2, <3>1 DEF MutexInv, HolderInv
    <3>3. holder[i] # m
      BY <3>2
    <3>4. QED
      BY <1>2, <3>1, <3>2, <3>3
  <2>3. QED
    BY <2>1, <2>2 DEF HolderInv
<1>8. QED
  BY <1>4, <1>6, <1>7 DEF MutexInv

(* What taking a mutex makes of a goroutine. *)
LEMMA TakesMutex ==
  ASSUME HandlersInv, NEW m \in Msgs, call[m].pc \in {"find", "create"}, NEW mu \in Nat, Takes(m, mu),
         UNCHANGED <<arrays, log, disturbed>>
  PROVE  /\ CallInv' /\ OrderInv' /\ ~Locked(call[m]) /\ call[m].name \in Names
         /\ \E d \in Calls : /\ call' = [call EXCEPT ![m] = d] /\ d.pc = "lock" /\ d.name = call[m].name
                             /\ d.epoch = epoch[d.name] /\ d.mu = mu
<1> DEFINE c == call[m]
           e == epoch[c.name]
           d == [c EXCEPT !.pc = "lock", !.mu = mu, !.epoch = e]
<1>1. CallOK(m) /\ c \in Calls /\ RegistryInv
  BY DEF HandlersInv, CallInv
<1>2. /\ c.name \in Names /\ c.todo # <<>> /\ c.who \in Handler /\ c.tries <= c.max /\ Working(c)
      /\ InFlight(m)
  BY <1>1 DEF CallOK, Fits, Working, InFlight
<1>3. e \in Nat /\ mu # None
  BY <1>1, <1>2, HandlersAssumption DEF RegistryInv
<1>4. call' = [call EXCEPT ![m] = d]
  BY DEF Takes, Goes
<1> HIDE DEF e
<1>5. d \in Calls
  BY <1>1, <1>3 DEF Calls, PCs
<1>6. /\ d.pc = "lock" /\ d.mu = mu /\ d.epoch = e /\ d.name = c.name /\ d.who = c.who
      /\ d.tries = c.tries /\ d.max = c.max /\ d.todo = c.todo /\ Same(c, d)
  BY <1>1 DEF Calls, Same
<1> HIDE DEF d
<1>7. Fits(d)
  BY <1>2, <1>3, <1>6 DEF Fits, Working
<1>8. CallInv' /\ OrderInv'
  BY <1>2, <1>4, <1>5, <1>6, <1>7, StepWithin
<1>9. QED
  BY <1>2, <1>4, <1>5, <1>6, <1>8 DEF Locked, e

(* Looking for the mutex, and looking again. *)
LEMMA KeepFindMutex ==
  ASSUME HandlersInv, NEW m \in Msgs, FindMutex(m) \/ (CreateMutex(m) /\ handlerMu[call[m].name] # None)
  PROVE  HandlersInv'
<1> DEFINE c == call[m]
           mu == handlerMu[c.name]
<1>1. CallOK(m) /\ c \in Calls /\ RegistryInv
  BY DEF HandlersInv, CallInv
<1>2. /\ c.pc \in {"find", "create"}
      /\ IF mu # None THEN Takes(m, mu) ELSE Goes(m, [c EXCEPT !.pc = "create"])
      /\ UNCHANGED <<arrays, cur, len, disabled, handlerMu, holder, log, edits, epoch, spent, disturbed>>
  BY DEF FindMutex, CreateMutex, At, slice, mutexes
<1>3. /\ c.name \in Names /\ c.todo # <<>> /\ c.who \in Handler /\ c.tries <= c.max /\ Working(c)
      /\ InFlight(m) /\ c.mu = None
  BY <1>1, <1>2 DEF CallOK, Fits, Working, InFlight
<1>4. CASE mu # None
  <2>1. mu \in DOMAIN holder /\ mu \in Nat
    <3>1. holder \in Seq(Msgs \cup {None}) /\ mu \in DOMAIN holder
      BY <1>1, <1>3, <1>4 DEF RegistryInv
    <3>2. QED
      BY <3>1, LenProperties
  <2>2. Takes(m, mu)
    BY <1>2, <1>4
  <2> HIDE DEF mu
  <2>3. /\ CallInv' /\ OrderInv' /\ ~Locked(c)
        /\ \E d \in Calls : /\ call' = [call EXCEPT ![m] = d] /\ d.pc = "lock" /\ d.name = c.name
                            /\ d.epoch = epoch[d.name] /\ d.mu = mu
    BY <1>2, <2>1, <2>2, TakesMutex
  <2>4. PICK d \in Calls : /\ call' = [call EXCEPT ![m] = d] /\ d.pc = "lock" /\ d.name = c.name
                           /\ d.epoch = epoch[d.name] /\ d.mu = mu
    BY <2>3
  <2>5. MutexInv'
    BY <1>2, <1>3, <1>4, <2>1, <2>3, <2>4, TakeKept DEF mu
  <2>6. QED
    BY <1>2, <2>3, <2>5, RestKept DEF HandlersInv
<1>5. CASE mu = None
  <2> DEFINE d == [c EXCEPT !.pc = "create"]
  <2>1. call' = [call EXCEPT ![m] = d]
    BY <1>2, <1>5 DEF Goes
  <2>2. /\ d \in Calls /\ d.pc = "create" /\ d.mu = None /\ d.name = c.name /\ d.who = c.who
        /\ d.tries = c.tries /\ d.max = c.max /\ d.todo = c.todo /\ Same(c, d)
    <3>1. d \in Calls
      BY <1>1 DEF Calls, PCs
    <3>2. QED
      BY <1>1, <1>3, <3>1 DEF Calls, Same
  <2> HIDE DEF d
  <2>3. Fits(d)
    BY <1>3, <2>2 DEF Fits, Working
  <2>4. CallInv' /\ OrderInv'
    BY <1>2, <1>3, <2>1, <2>2, <2>3, StepWithin
  <2>5. MutexInv'
    BY <1>2, <1>3, <2>1, <2>2, MutexKept DEF SameMutexAs, Locked
  <2>6. QED
    BY <1>2, <2>4, <2>5, RestKept DEF HandlersInv
<1>6. QED
  BY <1>4, <1>5

(* Nobody has a mutex of this epoch yet, so a new one is everybody's. *)
LEMMA KeepCreateMutex ==
  ASSUME HandlersInv, NEW m \in Msgs, CreateMutex(m), handlerMu[call[m].name] = None
  PROVE  HandlersInv'
<1> DEFINE c == call[m]
           new == Len(holder) + 1
<1>1. RegistryInv /\ SliceInv
  BY DEF HandlersInv
<1>2. /\ c.pc = "create" /\ Takes(m, new)
      /\ handlerMu' = [handlerMu EXCEPT ![c.name] = new] /\ holder' = Append(holder, None)
      /\ UNCHANGED <<arrays, cur, len, disabled, log, edits, epoch, spent, disturbed>>
  BY DEF CreateMutex, At, slice
<1>3. /\ holder \in Seq(Msgs \cup {None}) /\ Len(holder) \in Nat /\ DOMAIN holder = 1..Len(holder)
  BY <1>1, LenProperties DEF RegistryInv
<1>4. /\ holder' \in Seq(Msgs \cup {None}) /\ Len(holder') = new /\ new \in Nat
      /\ \A i \in 1..Len(holder) : holder'[i] = holder[i]
      /\ holder'[new] = None
  BY <1>2, <1>3, AppendProperties
<1>5. DOMAIN holder' = 1..new /\ \A i \in 1..new : i \in 1..Len(holder) \/ i = new
  BY <1>3, <1>4, LenProperties
<1>6. /\ new \in DOMAIN holder'
      /\ \A i \in DOMAIN holder : i \in DOMAIN holder' /\ holder'[i] = holder[i]
      /\ \A i \in DOMAIN holder' : i \in DOMAIN holder \/ holder'[i] = None
  BY <1>3, <1>4, <1>5
<1> HIDE DEF new
<1>7. /\ CallInv' /\ OrderInv' /\ ~Locked(c) /\ c.name \in Names
      /\ \E d \in Calls : /\ call' = [call EXCEPT ![m] = d] /\ d.pc = "lock" /\ d.name = c.name
                          /\ d.epoch = epoch[d.name] /\ d.mu = new
  BY <1>2, <1>4, TakesMutex
<1>8. PICK d \in Calls : /\ call' = [call EXCEPT ![m] = d] /\ d.pc = "lock" /\ d.name = c.name
                         /\ d.epoch = epoch[d.name] /\ d.mu = new
  BY <1>7
<1>9. /\ handlerMu' \in [Names -> DOMAIN holder' \cup {None}] /\ handlerMu'[c.name] = new
      /\ \A n \in Names : handlerMu[n] # None => handlerMu'[n] = handlerMu[n]
  BY <1>1, <1>2, <1>6, <1>7 DEF RegistryInv
<1>10. new # None
  BY <1>4, HandlersAssumption
<1>11. MutexInv'
  BY <1>2, <1>6, <1>7, <1>8, <1>9, <1>10, TakeKept
<1>12. SliceInv' /\ RegistryInv'
  BY <1>1, <1>2, <1>4, <1>9 DEF SliceInv, RegistryInv
<1>13. QED
  BY <1>7, <1>11, <1>12 DEF HandlersInv

(* Whoever finds the mutex free is the one inside. *)
LEMMA KeepLockMutex ==
  ASSUME HandlersInv, NEW m \in Msgs, LockMutex(m)
  PROVE  HandlersInv'
<1> DEFINE c == call[m]
           h == Cell(m)
           d == Attempts(c, h)
<1>1. RegistryInv /\ SliceInv /\ CallOK(m) /\ c \in Calls /\ MutexInv
  BY DEF HandlersInv, CallInv
<1>2. /\ c.pc = "lock" /\ holder[c.mu] = None /\ holder' = [holder EXCEPT ![c.mu] = m]
      /\ call' = [call EXCEPT ![m] = d]
      /\ UNCHANGED <<arrays, cur, len, disabled, handlerMu, log, edits, epoch, spent, disturbed>>
  BY DEF LockMutex, Goes, At, slice
<1>3. c.todo # <<>> /\ c.mu # None /\ InFlight(m) /\ ~Locked(c)
  BY <1>1, <1>2 DEF CallOK, Fits, Working, InFlight, Locked
<1>4. h \in Handler /\ c.mu \in DOMAIN holder
  BY <1>1, <1>3, CellIsHandler DEF MutexInv, MutexOf
<1> HIDE DEF h
<1>5. /\ d \in Calls /\ d.pc = "try" /\ d.who = h /\ d.tries = 0 /\ d.max \in Nat /\ 0 < d.max
      /\ Same(c, d) /\ d.mu = c.mu /\ d.name = c.name /\ d.epoch = c.epoch
  BY <1>1, <1>3, <1>4, AttemptsBegin DEF SameMutexAs
<1> HIDE DEF d
<1>6. Fits(d)
  BY <1>3, <1>4, <1>5 DEF Fits, Working, Same
<1>7. CallInv' /\ OrderInv'
  BY <1>2, <1>3, <1>5, <1>6, StepWithin DEF h
<1>8. /\ holder \in Seq(Msgs \cup {None}) /\ holder' \in Seq(Msgs \cup {None})
      /\ DOMAIN holder' = DOMAIN holder
      /\ \A i \in DOMAIN holder : /\ holder'[i] = IF i = c.mu THEN m ELSE holder[i]
                                  /\ holder[i] # None => holder[i] \in Msgs
  <2>1. holder \in Seq(Msgs \cup {None}) /\ DOMAIN holder = 1..Len(holder) /\ m \in Msgs \cup {None}
    BY <1>1, LenProperties DEF RegistryInv
  <2>2. /\ holder' \in Seq(Msgs \cup {None}) /\ Len(holder') = Len(holder)
        /\ \A i \in 1..Len(holder) : holder'[i] = IF i = c.mu THEN m ELSE holder[i]
    BY <1>2, <1>4, <2>1, ExceptSeq
  <2>3. DOMAIN holder' = 1..Len(holder)
    BY <2>2, LenProperties
  <2>4. \A i \in 1..Len(holder) : holder[i] \in Msgs \cup {None}
    BY <2>1, ElementOfSeq
  <2>5. QED
    BY <2>1, <2>2, <2>3, <2>4
<1>9. call'[m] = d /\ \A n \in Msgs \ {m} : call'[n] = call[n]
  BY <1>2 DEF HandlersInv, CallInv
<1>10. ASSUME NEW n \in Msgs
       PROVE  MutexOf(n)' /\ \A k \in Msgs : SameMutex(n, k)'
  <2>1. \A k \in Msgs : call'[k].mu = call[k].mu /\ call'[k].name = call[k].name
                        /\ call'[k].epoch = call[k].epoch
    BY <1>5, <1>9
  <2>2. MutexOf(n)'
    BY <1>1, <1>2, <1>8, <2>1 DEF MutexInv, MutexOf
  <2>3. \A k \in Msgs : SameMutex(n, k)'
    BY <1>1, <2>1 DEF MutexInv, SameMutex
  <2>4. QED
    BY <2>2, <2>3
<1>11. HolderInv'
  <2>1. ASSUME NEW n \in Msgs, Locked(call'[n])
        PROVE  holder'[call'[n].mu] = n
    <3>1. CASE n = m
      BY <1>4, <1>5, <1>8, <1>9, <3>1
    <3>2. CASE n # m
      <4>1. call'[n] = call[n] /\ call[n].mu \in DOMAIN holder /\ holder[call[n].mu] = n
        BY <1>1, <1>9, <2>1, <3>2 DEF MutexInv, MutexOf, HolderInv, Locked
      <4>2. call[n].mu # c.mu
        BY <1>2, <4>1, HandlersAssumption
      <4>3. QED
        BY <1>8, <4>1, <4>2
    <3>3. QED
      BY <3>1, <3>2
  <2>2. ASSUME NEW i \in DOMAIN holder', holder'[i] # None
        PROVE  Locked(call'[holder'[i]]) /\ call'[holder'[i]].mu = i
    <3>1. CASE i = c.mu
      BY <1>3, <1>4, <1>5, <1>8, <1>9, <3>1 DEF Locked
    <3>2. CASE i # c.mu
      <4>1. holder'[i] = holder[i] /\ holder[i] \in Msgs /\ i \in DOMAIN holder
        BY <1>8, <2>2, <3>2
      <4>2. Locked(call[holder[i]]) /\ call[holder[i]].mu = i
        BY <1>1, <2>2, <4>1 DEF MutexInv, HolderInv
      <4>3. holder[i] # m
        BY <1>3, <4>2
      <4>4. QED
        BY <1>9, <4>1, <4>2, <4>3
    <3>3. QED
      BY <3>1, <3>2
  <2>3. QED
    BY <2>1, <2>2 DEF HolderInv
<1>12. MutexInv'
  BY <1>10, <1>11 DEF MutexInv
<1>13. SliceInv' /\ RegistryInv'
  BY <1>1, <1>2, <1>8 DEF SliceInv, RegistryInv
<1>14. QED
  BY <1>7, <1>12, <1>13 DEF HandlersInv

(* What follows an attempt fits. *)
LEMMA AttemptEnds ==
  ASSUME NEW c \in Calls, c.tries < c.max, NEW how \in {"ok", "fail", "drop", "limit", "unsent"}
  PROVE  /\ Attempted(c, how) \in Calls /\ Attempted(c, how).pc \in {"backoff", "finish"}
         /\ Attempted(c, how).tries <= Attempted(c, how).max
         /\ Attempted(c, how).pc = "backoff" => Attempted(c, how).tries < Attempted(c, how).max
         /\ Attempted(c, how).who = c.who /\ Same(c, Attempted(c, how))
         /\ SameMutexAs(c, Attempted(c, how))
<1> DEFINE t == c.tries + 1
           b == [c EXCEPT !.pc = "backoff", !.tries = t]
           f == [c EXCEPT !.pc = "finish", !.tries = t, !.how = how]
<1>1. t \in Nat /\ t <= c.max
  BY DEF Calls
<1>2. (Attempted(c, how) = b /\ t < c.max) \/ Attempted(c, how) = f
  BY DEF Attempted, Calls
<1> HIDE DEF t
<1>3. b \in Calls /\ f \in Calls
  BY <1>1 DEF Calls, PCs
<1>4. /\ b.pc = "backoff" /\ b.tries = t /\ b.max = c.max /\ b.who = c.who /\ Same(c, b)
      /\ SameMutexAs(c, b)
  BY DEF Calls, Same, SameMutexAs
<1>5. /\ f.pc = "finish" /\ f.tries = t /\ f.max = c.max /\ f.who = c.who /\ Same(c, f)
      /\ SameMutexAs(c, f)
  BY DEF Calls, Same, SameMutexAs
<1> HIDE DEF b, f
<1>6. QED
  BY <1>1, <1>2, <1>3, <1>4, <1>5

(* A step between the lock and the unlock. *)
LEMMA WorkKept ==
  ASSUME HandlersInv, NEW m \in Msgs, call[m].pc \in {"try", "respond", "backoff"},
         NEW d \in Calls, call' = [call EXCEPT ![m] = d],
         d.pc \in {"try", "respond", "backoff", "finish"}, Same(call[m], d), SameMutexAs(call[m], d),
         d.tries <= d.max, d.pc # "finish" => d.tries < d.max,
         d.who = Cell(m) \/ d.who = call[m].who,
         UNCHANGED <<arrays, log, disturbed, handlerMu, holder, epoch>>
  PROVE  CallInv' /\ OrderInv' /\ MutexInv'
<1>1. CallOK(m)
  BY DEF HandlersInv, CallInv
<1>2. call[m].todo # <<>> /\ call[m].who \in Handler /\ InFlight(m) /\ Working(call[m])
  BY <1>1 DEF CallOK, Fits, Working, InFlight
<1>3. Cell(m) \in Handler
  BY <1>2, CellIsHandler
<1>4. Fits(d)
  BY <1>2, <1>3 DEF Fits, Working, Same
<1>5. CallInv' /\ OrderInv'
  BY <1>2, <1>4, StepWithin
<1>6. MutexInv'
  BY MutexKept DEF SameMutexAs, Locked
<1>7. QED
  BY <1>5, <1>6

(* The goroutine reads its cell and attempts an action. *)
LEMMA AttemptReads ==
  ASSUME HandlersInv, NEW m \in Msgs, call[m].pc \in {"try", "respond", "backoff"}
  PROVE  /\ call[m] \in Calls /\ call[m].tries < call[m].max /\ Cell(m) \in Handler
         /\ Cell(m).name \in Names /\ call[m].who \in Handler /\ call[m].who.name \in Names
         /\ [call[m] EXCEPT !.who = Cell(m)] \in Calls
         /\ [call[m] EXCEPT !.who = Cell(m)].who = Cell(m)
         /\ [call[m] EXCEPT !.who = Cell(m)].tries = call[m].tries
         /\ [call[m] EXCEPT !.who = Cell(m)].max = call[m].max
         /\ Same(call[m], [call[m] EXCEPT !.who = Cell(m)])
         /\ SameMutexAs(call[m], [call[m] EXCEPT !.who = Cell(m)])
<1> DEFINE c == call[m]
           h == Cell(m)
           d == [c EXCEPT !.who = h]
<1>1. CallOK(m) /\ c \in Calls
  BY DEF HandlersInv, CallInv
<1>2. c.todo # <<>> /\ c.who \in Handler /\ c.tries < c.max
  BY <1>1 DEF CallOK, Fits, Working
<1>3. h \in Handler /\ h.name \in Names
  BY <1>2, CellIsHandler
<1>4. c.who.name \in Names
  BY <1>2 DEF Handler
<1> HIDE DEF h
<1>5. d \in Calls
  BY <1>1, <1>3 DEF Calls, Cells
<1>6. d.who = h /\ d.tries = c.tries /\ d.max = c.max /\ Same(c, d) /\ SameMutexAs(c, d)
  BY <1>1 DEF Calls, Same, SameMutexAs
<1> HIDE DEF d
<1>7. QED
  BY <1>1, <1>2, <1>3, <1>4, <1>5, <1>6 DEF d, h

(* One attempt at an action list. *)
LEMMA KeepTrySteps ==
  ASSUME HandlersInv, NEW m \in Msgs, TrySteps(m)
  PROVE  HandlersInv'
<1> DEFINE e == [call[m] EXCEPT !.who = Cell(m)]
<1>1. /\ call[m].pc = "try"
      /\ UNCHANGED <<arrays, cur, len, disabled, handlerMu, holder, log, edits, epoch, spent, disturbed>>
  BY DEF TrySteps, At, slice, mutexes
<1>2. PICK how \in {"ok", "fail", "drop", "limit", "unsent"} :
        call' = [call EXCEPT ![m] = Attempted(e, how)]
  BY DEF TrySteps, Goes
<1>3. /\ call[m] \in Calls /\ e \in Calls /\ e.who = Cell(m) /\ e.tries < e.max
      /\ Same(call[m], e) /\ SameMutexAs(call[m], e)
  BY <1>1, AttemptReads
<1> HIDE DEF e
<1> DEFINE d == Attempted(e, how)
<1>4. /\ d \in Calls /\ d.pc \in {"backoff", "finish"} /\ d.tries <= d.max
      /\ d.pc = "backoff" => d.tries < d.max
      /\ d.who = e.who /\ Same(e, d) /\ SameMutexAs(e, d)
  BY <1>3, AttemptEnds
<1> HIDE DEF d
<1>5. Same(call[m], d) /\ SameMutexAs(call[m], d)
  BY <1>3, <1>4 DEF Same, SameMutexAs
<1>6. CallInv' /\ OrderInv' /\ MutexInv'
  BY <1>1, <1>2, <1>3, <1>4, <1>5, WorkKept DEF d
<1>7. QED
  BY <1>1, <1>6, RestKept DEF HandlersInv

(* The built-in disables the handler before it responds. *)
LEMMA KeepTryOnce ==
  ASSUME HandlersInv, NEW m \in Msgs, TryOnce(m)
  PROVE  HandlersInv'
<1> DEFINE h == Cell(m)
           e == [call[m] EXCEPT !.who = h]
           r == [call[m] EXCEPT !.who = h, !.pc = "respond"]
<1>1. /\ call[m].pc = "try"
      /\ UNCHANGED <<arrays, cur, len, handlerMu, holder, log, edits, epoch, spent, disturbed>>
  BY DEF TryOnce, At, slice, mutexes
<1>2. \/ call' = [call EXCEPT ![m] = r] /\ disabled' = disabled \cup {h.name}
      \/ call' = [call EXCEPT ![m] = Attempted(e, "fail")] /\ disabled' = disabled
  BY DEF TryOnce, Goes
<1>3. /\ call[m] \in Calls /\ call[m].tries < call[m].max /\ h \in Handler /\ h.name \in Names
      /\ e \in Calls /\ e.who = h /\ e.tries < e.max /\ Same(call[m], e) /\ SameMutexAs(call[m], e)
  BY <1>1, AttemptReads
<1>4. SliceInv' /\ RegistryInv'
  BY <1>1, <1>2, <1>3 DEF HandlersInv, SliceInv, RegistryInv
<1> HIDE DEF e, h
<1>5. CASE call' = [call EXCEPT ![m] = r]
  <2>1. r \in Calls
    BY <1>3 DEF Calls, PCs, Cells
  <2>2. /\ r.pc = "respond" /\ r.who = h /\ r.tries = call[m].tries /\ r.max = call[m].max
        /\ Same(call[m], r) /\ SameMutexAs(call[m], r)
    BY <1>3 DEF Calls, Same, SameMutexAs
  <2>3. r.tries < r.max /\ r.tries <= r.max
    <3>1. r.tries \in Nat /\ r.max \in Nat
      BY <2>1 DEF Calls
    <3> HIDE DEF r
    <3>2. QED
      BY <1>3, <2>2, <3>1
  <2> HIDE DEF r
  <2>4. CallInv' /\ OrderInv' /\ MutexInv'
    BY <1>1, <1>5, <2>1, <2>2, <2>3, WorkKept DEF h
  <2>5. QED
    BY <1>4, <2>4 DEF HandlersInv
<1>6. CASE call' = [call EXCEPT ![m] = Attempted(e, "fail")]
  <2> DEFINE d == Attempted(e, "fail")
  <2>1. /\ d \in Calls /\ d.pc \in {"backoff", "finish"} /\ d.tries <= d.max
        /\ d.pc = "backoff" => d.tries < d.max
        /\ d.who = e.who /\ Same(e, d) /\ SameMutexAs(e, d)
    BY <1>3, AttemptEnds
  <2>2. call' = [call EXCEPT ![m] = d]
    BY <1>6
  <2> HIDE DEF d
  <2>3. Same(call[m], d) /\ SameMutexAs(call[m], d)
    BY <1>3, <2>1 DEF Same, SameMutexAs
  <2>4. CallInv' /\ OrderInv' /\ MutexInv'
    BY <1>1, <1>3, <2>1, <2>2, <2>3, WorkKept DEF h
  <2>5. QED
    BY <1>4, <2>4 DEF HandlersInv
<1>7. QED
  BY <1>2, <1>5, <1>6

(* What is spent is disabled. *)
LEMMA KeepRespondOnce ==
  ASSUME HandlersInv, NEW m \in Msgs, RespondOnce(m)
  PROVE  HandlersInv'
<1> DEFINE c == call[m]
<1>1. /\ c.pc = "respond"
      /\ UNCHANGED <<arrays, cur, len, disabled, handlerMu, holder, log, edits, epoch, disturbed>>
  BY DEF RespondOnce, At, slice, mutexes
<1>2. PICK how \in {"ok", "fail"} : call' = [call EXCEPT ![m] = Attempted(c, how)]
  BY DEF RespondOnce, Goes
<1>3. c \in Calls /\ c.tries < c.max
  BY <1>1, AttemptReads
<1>4. spent' \subseteq spent \cup disabled
  BY DEF RespondOnce
<1>5. SliceInv' /\ RegistryInv'
  BY <1>1, <1>4 DEF HandlersInv, SliceInv, RegistryInv
<1> DEFINE d == Attempted(c, how)
<1>6. /\ d \in Calls /\ d.pc \in {"backoff", "finish"} /\ d.tries <= d.max
      /\ d.pc = "backoff" => d.tries < d.max
      /\ d.who = c.who /\ Same(c, d) /\ SameMutexAs(c, d)
  BY <1>3, AttemptEnds
<1> HIDE DEF d
<1>7. CallInv' /\ OrderInv' /\ MutexInv'
  BY <1>1, <1>2, <1>6, WorkKept DEF d
<1>8. QED
  BY <1>5, <1>7 DEF HandlersInv

(* After the backoff comes the next attempt, or the end. *)
LEMMA KeepBackoff ==
  ASSUME HandlersInv, NEW m \in Msgs, Backoff(m)
  PROVE  HandlersInv'
<1> DEFINE c == call[m]
           t == [c EXCEPT !.pc = "try"]
           f == [c EXCEPT !.pc = "finish", !.how = "cancelled"]
<1>1. /\ c.pc = "backoff"
      /\ UNCHANGED <<arrays, cur, len, disabled, handlerMu, holder, log, edits, epoch, spent, disturbed>>
  BY DEF Backoff, At, slice, mutexes
<1>2. PICK d \in {t, f} : call' = [call EXCEPT ![m] = d]
  BY DEF Backoff, Goes
<1>3. c \in Calls /\ c.tries < c.max /\ c.tries \in Nat /\ c.max \in Nat
  BY <1>1, AttemptReads DEF Calls
<1>4. t \in Calls /\ f \in Calls
  BY <1>3 DEF Calls, PCs
<1>5. /\ t.pc = "try" /\ t.who = c.who /\ t.tries = c.tries /\ t.max = c.max
      /\ Same(c, t) /\ SameMutexAs(c, t)
  BY <1>3 DEF Calls, Same, SameMutexAs
<1>6. /\ f.pc = "finish" /\ f.who = c.who /\ f.tries = c.tries /\ f.max = c.max
      /\ Same(c, f) /\ SameMutexAs(c, f)
  BY <1>3 DEF Calls, Same, SameMutexAs
<1> HIDE DEF t, f
<1>7. /\ d \in Calls /\ d.pc \in {"try", "finish"} /\ d.who = c.who /\ d.tries = c.tries
      /\ d.max = c.max /\ Same(c, d) /\ SameMutexAs(c, d)
  BY <1>4, <1>5, <1>6
<1>8. d.tries < d.max /\ d.tries <= d.max
  BY <1>3, <1>7
<1>9. CallInv' /\ OrderInv' /\ MutexInv'
  BY <1>1, <1>2, <1>7, <1>8, WorkKept
<1>10. QED
  BY <1>1, <1>9, RestKept DEF HandlersInv

(* What is reported of an execution that nobody disturbed. *)
LEMMA ReportOf ==
  ASSUME HandlersInv, NEW m \in Msgs, call[m].pc = "finish"
  PROVE  /\ Report(m) \in Reports /\ Report(m).who = call[m].who
         /\ Report(m).how = "drop" <=> call[m].how = "drop"
         /\ m \notin disturbed => /\ Report(m).match /\ ~Report(m).late
                                  /\ call[m].who = Cell(m) /\ Matches(m, Cell(m))
<1> DEFINE c == call[m]
<1>1. CallOK(m) /\ OrderOK(m) /\ c \in Calls
  BY DEF HandlersInv, CallInv, OrderInv
<1>2. c.who \in Handler /\ c.todo # <<>> /\ InFlight(m) /\ Working(c)
  BY <1>1 DEF CallOK, Fits, Working, InFlight
<1>3. /\ Report(m).who = c.who
      /\ Report(m).how = IF c.how \in {"ok", "drop"} THEN c.how ELSE "error"
      /\ Report(m).match = Matches(m, c.who) /\ Report(m).late = (c.who.name \in c.late)
  BY DEF Report
<1>4. Report(m) \in Reports
  BY <1>2 DEF Report, Reports, Matches
<1>5. ASSUME m \notin disturbed
      PROVE  /\ Report(m).match /\ ~Report(m).late
             /\ c.who = Cell(m) /\ Matches(m, Cell(m))
  <2>1. Ahead(m) /\ c.late \subseteq c.skip
    BY <1>1, <1>2, <1>5 DEF OrderOK
  <2>2. 1 \in DOMAIN c.todo /\ Head(c.todo) = c.todo[1]
    BY <1>2, CellIsHandler
  <2>3. c.who = Cell(m) /\ Matches(m, Cell(m))
    BY <1>2, <2>1, <2>2 DEF Ahead, Cell
  <2>4. c.who.name \notin c.late
    BY <2>1, <2>3 DEF Matches
  <2>5. QED
    BY <1>3, <2>3, <2>4
<1>6. QED
  BY <1>3, <1>4, <1>5

(* Unlocking takes the mutex from nobody else. *)
LEMMA UnlockKept ==
  ASSUME HandlersInv, NEW m \in Msgs, call[m].pc = "finish", NEW d \in Calls,
         call' = [call EXCEPT ![m] = d], d.mu = None, holder' = Unlocked(call[m].mu),
         UNCHANGED <<handlerMu, epoch>>
  PROVE  MutexInv' /\ holder' \in Seq(Msgs \cup {None}) /\ DOMAIN holder' = DOMAIN holder
<1> DEFINE c == call[m]
<1>1. RegistryInv /\ MutexInv /\ call \in [Msgs -> Calls]
  BY DEF HandlersInv, CallInv
<1>2. holder \in Seq(Msgs \cup {None})
  BY <1>1 DEF RegistryInv
<1>3. CASE c.mu = None
  <2>1. holder' = holder
    BY <1>3 DEF Unlocked
  <2>2. MutexInv'
    BY <1>3, <2>1, MutexKept DEF SameMutexAs, Locked
  <2>3. QED
    BY <1>2, <2>1, <2>2
<1>4. CASE c.mu # None
  <2>1. /\ holder' = [holder EXCEPT ![c.mu] = None] /\ c.mu \in DOMAIN holder
        /\ Locked(c) /\ holder[c.mu] = m
    BY <1>1, <1>4 DEF Unlocked, MutexInv, MutexOf, HolderInv, Locked
  <2>2. /\ holder' \in Seq(Msgs \cup {None}) /\ DOMAIN holder' = DOMAIN holder
        /\ \A i \in DOMAIN holder : /\ holder'[i] = IF i = c.mu THEN None ELSE holder[i]
                                    /\ holder[i] # None => holder[i] \in Msgs
    <3>1. DOMAIN holder = 1..Len(holder) /\ None \in Msgs \cup {None}
      BY <1>2, LenProperties
    <3>2. /\ holder' \in Seq(Msgs \cup {None}) /\ Len(holder') = Len(holder)
          /\ \A i \in 1..Len(holder) : holder'[i] = IF i = c.mu THEN None ELSE holder[i]
      BY <1>2, <2>1, <3>1, ExceptSeq
    <3>3. DOMAIN holder' = 1..Len(holder)
      BY <3>2, LenProperties
    <3>4. \A i \in 1..Len(holder) : holder[i] \in Msgs \cup {None}
      BY <1>2, ElementOfSeq
    <3>5. QED
      BY <3>1, <3>2, <3>3, <3>4
  <2>3. call'[m] = d /\ ~Locked(d) /\ \A n \in Msgs \ {m} : call'[n] = call[n]
    BY <1>1 DEF Locked
  <2>4. ASSUME NEW n \in Msgs
        PROVE  MutexOf(n)' /\ \A k \in Msgs : SameMutex(n, k)'
    <3>1. MutexOf(n)'
      BY <1>1, <2>2, <2>3 DEF MutexInv, MutexOf
    <3>2. \A k \in Msgs : SameMutex(n, k)'
      BY <1>1, <2>3 DEF MutexInv, SameMutex
    <3>3. QED
      BY <3>1, <3>2
  <2>5. HolderInv'
    <3>1. ASSUME NEW n \in Msgs, Locked(call'[n])
          PROVE  holder'[call'[n].mu] = n
      <4>1. n # m /\ call'[n] = call[n]
        BY <2>3, <3>1
      <4>2. call[n].mu \in DOMAIN holder /\ holder[call[n].mu] = n
        BY <1>1, <3>1, <4>1 DEF MutexInv, MutexOf, HolderInv, Locked
      <4>3. QED
        BY <2>1, <2>2, <4>1, <4>2
    <3>2. ASSUME NEW i \in DOMAIN holder', holder'[i] # None
          PROVE  Locked(call'[holder'[i]]) /\ call'[holder'[i]].mu = i
      <4>1. i # c.mu /\ i \in DOMAIN holder /\ holder'[i] = holder[i] /\ holder[i] \in Msgs
        BY <2>2, <3>2
      <4>2. Locked(call[holder[i]]) /\ call[holder[i]].mu = i
        BY <1>1, <3>2, <4>1 DEF MutexInv, HolderInv
      <4>3. holder[i] # m
        BY <4>1, <4>2
      <4>4. QED
        BY <2>3, <4>1, <4>2, <4>3
    <3>3. QED
      BY <3>1, <3>2 DEF HolderInv
  <2>6. QED
    BY <2>2, <2>4, <2>5 DEF MutexInv
<1>5. QED
  BY <1>3, <1>4

(* One more execution in order: it is reported behind the earlier ones. *)
LEMMA ExecutedMore ==
  ASSUME HandlersInv, NEW m \in Msgs, call[m].pc = "finish", m \notin disturbed
  PROVE  /\ Executed(Append(log[m], Report(m)))
         /\ call[m].how # "drop" /\ ~Cell(m).exclusive =>
              \A i \in DOMAIN Append(log[m], Report(m)) :
                LET e == Append(log[m], Report(m))[i] IN
                /\ e.how # "drop" /\ ~e.who.exclusive
                /\ \A k \in DOMAIN Tail(call[m].todo) :
                     e.who.pri >= arrays[call[m].arr][Tail(call[m].todo)[k]].pri
<1> DEFINE c == call[m]
           cells == arrays[c.arr]
           r == Report(m)
           L == Append(log[m], r)
           n == Len(log[m])
<1>1. CallOK(m) /\ OrderOK(m) /\ c \in Calls /\ log[m] \in Seq(Reports)
  BY DEF HandlersInv, CallInv, OrderInv, RegistryInv
<1>2. c.todo # <<>> /\ c.todo \in Seq(Nat) /\ InFlight(m)
  BY <1>1 DEF CallOK, Fits, Working, InFlight, Calls
<1>3. Executed(log[m]) /\ Ahead(m)
  BY <1>1, <1>2 DEF OrderOK
<1>4. /\ r \in Reports /\ r.match /\ ~r.late /\ r.who = Cell(m)
      /\ r.how = "drop" <=> c.how = "drop"
  BY ReportOf
<1>5. /\ Head(c.todo) = c.todo[1] /\ 1 \in DOMAIN c.todo /\ c.todo[1] \in 1..c.size
      /\ Cell(m) = cells[c.todo[1]] /\ Cell(m).pri \in Nat
  BY <1>2, CellIsHandler DEF Cell
<1> HIDE DEF r
<1>6. /\ n \in Nat /\ Len(L) = n + 1 /\ DOMAIN log[m] = 1..n /\ DOMAIN L = 1..n + 1
      /\ \A i \in 1..n : L[i] = log[m][i]
      /\ L[n + 1] = r
  <2>1. n \in Nat /\ DOMAIN log[m] = 1..n
    BY <1>1, LenProperties
  <2>2. /\ L \in Seq(Reports) /\ Len(L) = n + 1 /\ L[n + 1] = r
        /\ \A i \in 1..n : L[i] = log[m][i]
    BY <1>1, <1>4, AppendProperties
  <2>3. DOMAIN L = 1..n + 1
    BY <2>1, <2>2, LenProperties
  <2>4. QED
    BY <2>1, <2>2, <2>3
<1> HIDE DEF L, n
<1>7. \A i \in 1..n : log[m][i].how # "drop" /\ ~log[m][i].who.exclusive
  BY <1>3, <1>6 DEF Ahead
<1>8. \A i \in 1..n : log[m][i].who.pri >= Cell(m).pri
  BY <1>3, <1>5, <1>6 DEF Ahead
<1>9. Executed(L)
  <2>1. ASSUME NEW i \in 1..n + 1
        PROVE  /\ L[i].match /\ ~L[i].late
               /\ L[i].how = "drop" \/ L[i].who.exclusive => i = n + 1
               /\ \A k \in 1..i : L[k].who.pri >= L[i].who.pri
    <3>1. CASE i \in 1..n
      <4>1. /\ log[m][i].match /\ ~log[m][i].late
            /\ \A k \in 1..i : log[m][k].who.pri >= log[m][i].who.pri
        BY <1>3, <1>6, <3>1 DEF Executed
      <4>2. \A k \in 1..i : k \in 1..n
        BY <1>6, <3>1
      <4>3. QED
        BY <1>6, <1>7, <3>1, <4>1, <4>2
    <3>2. CASE i = n + 1
      <4>1. L[i] = r
        BY <1>6, <3>2
      <4>2. ASSUME NEW k \in 1..i
            PROVE  L[k].who.pri >= L[i].who.pri
        <5>1. CASE k \in 1..n
          BY <1>4, <1>6, <1>8, <4>1, <5>1
        <5>2. CASE k = n + 1
          BY <1>4, <1>5, <3>2, <4>1, <5>2
        <5>3. QED
          BY <1>6, <3>2, <5>1, <5>2
      <4>3. QED
        BY <1>4, <3>2, <4>1, <4>2
    <3>3. QED
      BY <1>6, <2>1, <3>1, <3>2
  <2>2. QED
    BY <1>6, <2>1 DEF Executed
<1>10. ASSUME c.how # "drop", ~Cell(m).exclusive, NEW i \in 1..n + 1
       PROVE  /\ L[i].how # "drop" /\ ~L[i].who.exclusive
              /\ \A k \in DOMAIN Tail(c.todo) : L[i].who.pri >= cells[Tail(c.todo)[k]].pri
  <2>1. \A k \in DOMAIN Tail(c.todo) : k + 1 \in DOMAIN c.todo /\ Tail(c.todo)[k] = c.todo[k + 1]
                                      /\ k \in 1..Len(c.todo) - 1 /\ DOMAIN c.todo = 1..Len(c.todo)
                                      /\ Len(c.todo) \in Nat
    <3>1. DOMAIN Tail(c.todo) = 1..Len(Tail(c.todo))
      BY <1>2, TailOfTodo, LenProperties
    <3>2. QED
      BY <1>2, <3>1, TailOfTodo
  <2>2. CASE i \in 1..n
    BY <1>3, <1>6, <1>7, <2>1, <2>2 DEF Ahead
  <2>3. CASE i = n + 1
    <3>1. L[i] = r
      BY <1>6, <2>3
    <3>2. ASSUME NEW k \in DOMAIN Tail(c.todo)
          PROVE  cells[c.todo[1]].pri >= cells[c.todo[k + 1]].pri
      <4>1. c.todo[1] < c.todo[k + 1] /\ c.todo[k + 1] \in 1..c.size
        <5>1. k + 1 \in DOMAIN c.todo /\ 1 < k + 1
          BY <2>1, <3>2
        <5>2. c.todo[1] < c.todo[k + 1]
          BY <1>3, <1>5, <5>1 DEF Ahead, Increasing
        <5>3. QED
          BY <1>1, <5>1, <5>2 DEF CallOK
      <4>2. QED
        BY <1>3, <1>5, <4>1 DEF Ahead
    <3>3. QED
      BY <1>4, <1>5, <1>10, <2>1, <3>1, <3>2
  <2>4. i \in 1..n \/ i = n + 1
    BY <1>6
  <2>5. QED
    BY <2>2, <2>3, <2>4
<1>11. QED
  BY <1>6, <1>9, <1>10 DEF L, r

(* The end of an execution: unlocked, reported, and on to the next match. *)
LEMMA KeepFinish ==
  ASSUME HandlersInv, NEW m \in Msgs, Finish(m)
  PROVE  HandlersInv'
<1> DEFINE c == call[m]
           r == Rest(c)
           x == [r EXCEPT !.pc = "next"]
           d == IF c.how = "drop" \/ Cell(m).exclusive THEN Done ELSE x
<1>1. RegistryInv /\ SliceInv /\ CallOK(m) /\ OrderOK(m) /\ c \in Calls
  BY DEF HandlersInv, CallInv, OrderInv
<1>2. /\ c.pc = "finish" /\ holder' = Unlocked(c.mu)
      /\ log' = [log EXCEPT ![m] = Append(log[m], Report(m))]
      /\ call' = [call EXCEPT ![m] = d]
      /\ UNCHANGED <<arrays, cur, len, disabled, handlerMu, edits, epoch, spent, disturbed>>
  BY DEF Finish, Goes, At, slice
<1>3. c.todo # <<>> /\ c.todo \in Seq(Nat) /\ InFlight(m)
  BY <1>1, <1>2 DEF CallOK, Fits, Working, InFlight, Calls
<1>4. Tail(c.todo) \in Seq(Nat)
  BY <1>3, TailOfTodo
<1>5. /\ r \in Calls /\ r.todo = Tail(c.todo) /\ r.mu = None /\ r.tries = 0 /\ r.max = 0
      /\ r.arr = c.arr /\ r.size = c.size /\ r.skip = c.skip /\ r.late = c.late
  BY <1>1, <1>4 DEF Rest, Calls, Cells
<1> HIDE DEF r
<1>6. /\ x \in Calls /\ x.pc = "next" /\ x.todo = Tail(c.todo) /\ x.mu = None /\ x.tries <= x.max
      /\ x.arr = c.arr /\ x.size = c.size /\ x.skip = c.skip /\ x.late = c.late
  <2>1. /\ x \in Calls /\ x.pc = "next" /\ x.todo = Tail(c.todo) /\ x.mu = None
        /\ x.tries = 0 /\ x.max = 0
        /\ x.arr = c.arr /\ x.size = c.size /\ x.skip = c.skip /\ x.late = c.late
    BY <1>5 DEF Calls, PCs
  <2> HIDE DEF x
  <2>2. QED
    BY <2>1
<1> HIDE DEF x
<1>7. /\ log' \in [Msgs -> Seq(Reports)] /\ log'[m] = Append(log[m], Report(m))
      /\ \A n \in Msgs \ {m} : log'[n] = log[n]
  <2>1. log \in [Msgs -> Seq(Reports)] /\ Report(m) \in Reports
    BY <1>1, <1>2, ReportOf DEF RegistryInv
  <2>2. Append(log[m], Report(m)) \in Seq(Reports)
    BY <2>1, AppendProperties
  <2>3. QED
    BY <1>2, <2>1, <2>2
<1>8. m \notin disturbed => Executed(log'[m])
  BY <1>2, <1>7, ExecutedMore
<1>9. CallInv' /\ OrderInv' /\ d \in Calls /\ d.mu = None
  <2>1. CASE c.how = "drop" \/ Cell(m).exclusive
    <3>1. d = Done
      BY <2>1
    <3>2. CallInv' /\ OrderInv' /\ Done \in Calls
      BY <1>2, <1>7, <1>8, <3>1, DoneKept
    <3>3. Done.mu = None
      BY IdleCall DEF Done, Calls
    <3>4. QED
      BY <3>1, <3>2, <3>3
  <2>2. CASE ~(c.how = "drop" \/ Cell(m).exclusive)
    <3>1. d = x
      BY <2>2
    <3>2. ASSUME m \notin disturbed, NEW i \in DOMAIN log'[m]
          PROVE  /\ log'[m][i].how # "drop" /\ ~log'[m][i].who.exclusive
                 /\ \A k \in DOMAIN x.todo : log'[m][i].who.pri >= arrays[x.arr][x.todo[k]].pri
      BY <1>2, <1>6, <1>7, <2>2, <3>2, ExecutedMore
    <3>3. call' = [call EXCEPT ![m] = x]
      BY <1>2, <3>1
    <3>4. CallInv' /\ OrderInv'
      BY <1>2, <1>3, <1>6, <1>7, <1>8, <3>2, <3>3, NextKept
    <3>5. QED
      BY <1>6, <3>1, <3>4
  <2>3. QED
    BY <2>1, <2>2
<1> HIDE DEF d
<1>10. MutexInv' /\ holder' \in Seq(Msgs \cup {None}) /\ DOMAIN holder' = DOMAIN holder
  BY <1>2, <1>9, UnlockKept
<1>11. SliceInv' /\ RegistryInv'
  BY <1>1, <1>2, <1>7, <1>10 DEF SliceInv, RegistryInv
<1>12. QED
  BY <1>9, <1>10, <1>11 DEF HandlersInv

-----------------------------------------------------------------------------
(* The theorems *)

(* A file that was just loaded, and nobody at work. *)
LEMMA InitHolds == Init => HandlersInv
<1> SUFFICES ASSUME Init PROVE HandlersInv
  OBVIOUS
<1>1. PICK config \in Configs, spare \in {<<>>, <<None>>} :
        arrays = <<config \o spare>> /\ len = Len(config)
  BY DEF Init
<1> DEFINE a == config \o spare
<1>2. /\ config \in Seq(Handler) /\ Len(config) \in Nat /\ \A i \in 1..Len(config) : config[i] \in Handler
      /\ \A i, j \in 1..Len(config) : i < j => config[i].pri >= config[j].pri
  <2>1. config \in Seq(Handler) /\ DOMAIN config = 1..Len(config) /\ Len(config) \in Nat
    BY HandlersAssumption, LenProperties
  <2>2. \A i \in 1..Len(config) : config[i] \in Handler
    BY <2>1, ElementOfSeq
  <2>3. QED
    BY <2>1, <2>2, HandlersAssumption
<1>3. /\ a \in Seq(Cells) /\ Len(a) \in Nat /\ Len(config) <= Len(a)
      /\ \A i \in 1..Len(config) : a[i] = config[i]
  <2>1. config \in Seq(Cells)
    BY <1>2, SeqMonotonic DEF Cells
  <2>2. None \in Cells
    BY DEF Cells
  <2>3. spare \in Seq(Cells) /\ Len(spare) \in Nat
    <3>1. CASE spare = <<>>
      BY <3>1, EmptySeq
    <3>2. CASE spare = <<None>>
      <4>1. <<None>> \in Seq(Cells)
        BY <2>2
      <4>2. QED
        BY <3>2, <4>1, LenProperties
    <3>3. QED
      BY <3>1, <3>2
  <2>4. QED
    BY <1>2, <2>1, <2>3, ConcatProperties
<1> HIDE DEF a
<1>4. /\ arrays = <<a>> /\ arrays \in Seq(Seq(Cells)) /\ DOMAIN arrays = {1} /\ arrays[1] = a
      /\ cur = 1 /\ len = Len(config)
  <2>1. arrays = <<a>> /\ cur = 1 /\ len = Len(config)
    BY <1>1 DEF Init, a
  <2> DEFINE S == Seq(Cells)
  <2>2. a \in S
    BY <1>3
  <2> HIDE DEF S
  <2>3. <<a>> \in Seq(S) /\ DOMAIN <<a>> = {1} /\ <<a>>[1] = a
    BY <2>2
  <2>4. QED
    BY <2>1, <2>3 DEF S
<1>5. /\ disabled = {} /\ spent = {} /\ disturbed = {} /\ edits = 0
      /\ handlerMu = [n \in Names |-> None] /\ holder = <<>> /\ epoch = [n \in Names |-> 0]
      /\ call = [m \in Msgs |-> Idle] /\ log = [m \in Msgs |-> <<>>]
  BY DEF Init
<1>6. SliceInv
  BY <1>2, <1>3, <1>4 DEF SliceInv
<1>7. RegistryInv
  BY <1>5, HandlersAssumption DEF RegistryInv
<1>8. CallInv
  <2>1. Fits(Idle)
    BY IdleCall DEF Fits, Working
  <2>2. ASSUME NEW m \in Msgs
        PROVE  CallOK(m)
    BY <1>3, <1>4, <1>5, <2>1, IdleCall DEF CallOK
  <2>3. QED
    BY <1>5, <2>2, IdleCall DEF CallInv
<1>9. MutexInv
  BY <1>5, IdleCall DEF MutexInv, MutexOf, SameMutex, HolderInv, Locked
<1>10. OrderInv
  <2>1. Executed(<<>>)
    BY DEF Executed
  <2>2. QED
    BY <1>5, <2>1, IdleCall DEF OrderInv, OrderOK, InFlight
<1>11. QED
  BY <1>6, <1>7, <1>8, <1>9, <1>10 DEF HandlersInv

(* A step that changes nothing. *)
LEMMA StutterKeeps ==
  ASSUME HandlersInv, UNCHANGED vars
  PROVE  HandlersInv'
<1>1. /\ UNCHANGED <<arrays, cur, len, disabled, handlerMu, holder, call, log>>
      /\ UNCHANGED <<edits, epoch, spent, disturbed>>
  BY DEF vars, slice, mutexes
<1>2. SliceInv' /\ RegistryInv'
  BY <1>1, RestKept
<1>3. CallInv'
  BY <1>1 DEF HandlersInv, CallInv, CallOK
<1>4. MutexInv'
  BY <1>1 DEF HandlersInv, MutexInv, MutexOf, SameMutex, HolderInv
<1>5. OrderInv'
  <2>1. ASSUME NEW m \in Msgs
        PROVE  OrderOK(m)'
    <3>1. \A h : Matches(m, h) => Matches(m, h)'
      BY <1>1 DEF Matches
    <3>2. Ahead(m) => Ahead(m)'
      BY <1>1, <3>1, ZenonT(40) DEF Ahead
    <3>3. QED
      BY <1>1, <3>2 DEF HandlersInv, OrderInv, OrderOK, InFlight
  <2>2. QED
    BY <2>1 DEF OrderInv
<1>6. QED
  BY <1>2, <1>3, <1>4, <1>5 DEF HandlersInv

(* The invariant is inductive: whatever handlers there are, and however    *)
(* edits, look-ups of mutexes, attempts and reports interleave.            *)
THEOREM HandlersInductive == Spec => []HandlersInv
<1>1. ASSUME HandlersInv, [Next]_vars
      PROVE  HandlersInv'
  <2>1. ASSUME NEW m \in Msgs, MatchBegin(m) \/ Handle(m)
        PROVE  HandlersInv'
    <3>1. CASE MatchBegin(m)
      BY <1>1, <3>1, KeepMatchBegin
    <3>2. CASE MatchOne(m)
      BY <1>1, <3>2, KeepMatchOne
    <3>3. CASE MatchFails(m) \/ NoMore(m)
      BY <1>1, <3>3, KeepEnd
    <3>4. CASE HoldBack(m)
      BY <1>1, <3>4, KeepHoldBack
    <3>5. CASE Start(m)
      BY <1>1, <3>5, KeepStart
    <3>6. CASE FindMutex(m)
      BY <1>1, <3>6, KeepFindMutex
    <3>7. CASE CreateMutex(m)
      BY <1>1, <3>7, KeepFindMutex, KeepCreateMutex
    <3>8. CASE LockMutex(m)
      BY <1>1, <3>8, KeepLockMutex
    <3>9. CASE TrySteps(m)
      BY <1>1, <3>9, KeepTrySteps
    <3>10. CASE TryOnce(m)
      BY <1>1, <3>10, KeepTryOnce
    <3>11. CASE RespondOnce(m)
      BY <1>1, <3>11, KeepRespondOnce
    <3>12. CASE Backoff(m)
      BY <1>1, <3>12, KeepBackoff
    <3>13. CASE Finish(m)
      BY <1>1, <3>13, KeepFinish
    <3>14. QED
      BY <2>1, <3>1, <3>2, <3>3, <3>4, <3>5, <3>6, <3>7, <3>8, <3>9, <3>10, <3>11, <3>12, <3>13
         DEF Handle
  <2>2. CASE Edit
    BY <1>1, <2>2, KeepAdd, KeepUpdate, KeepDelete, KeepEnable, KeepRename, KeepReplace DEF Edit
  <2>3. CASE UNCHANGED vars
    BY <1>1, <2>3, StutterKeeps
  <2>4. QED
    BY <1>1, <2>1, <2>2, <2>3 DEF Next, Quiet
<1>2. QED
  BY <1>1, InitHolds, PTL DEF Spec

(* No edit leaves a goroutine with a pointer to nothing, and a mutex is    *)
(* held by exactly who is between its lock and its unlock.                 *)
THEOREM HandlersTypeCorrect == Spec => []TypeOK
<1>1. HandlersInv => TypeOK
  <2> SUFFICES ASSUME HandlersInv PROVE TypeOK
    OBVIOUS
  <2> USE DEF HandlersInv
  <2>1. /\ \A a \in DOMAIN arrays : \A i \in DOMAIN arrays[a] : arrays[a][i] \in Handler \cup {None}
        /\ cur \in DOMAIN arrays /\ len \in 0..Len(arrays[cur])
    <3>1. arrays \in Seq(Seq(Cells)) /\ DOMAIN arrays = 1..Len(arrays)
      BY LenProperties DEF SliceInv
    <3>2. ASSUME NEW a \in DOMAIN arrays, NEW i \in DOMAIN arrays[a]
          PROVE  arrays[a][i] \in Cells
      <4>1. arrays[a] \in Seq(Cells)
        BY <3>1, ElementOfSeq
      <4>2. i \in 1..Len(arrays[a])
        BY <4>1, LenProperties
      <4>3. QED
        BY <4>1, <4>2, ElementOfSeq
    <3>3. QED
      BY <3>2 DEF SliceInv, Cells
  <2>2. /\ disabled \in SUBSET Names /\ spent \in SUBSET Names
        /\ handlerMu \in [Names -> DOMAIN holder \cup {None}] /\ holder \in Seq(Msgs \cup {None})
        /\ edits \in 0..MaxEdits /\ disturbed \in SUBSET Msgs
    BY DEF RegistryInv
  <2>3. epoch \in [Names -> 0..MaxEdits]
    BY HandlersAssumption DEF RegistryInv
  <2>4. ASSUME NEW m \in Msgs
        PROVE  /\ call[m].pc \in PCs /\ call[m].tries \in 0..call[m].max
               /\ call[m].arr \in DOMAIN arrays /\ call[m].size <= Len(arrays[call[m].arr])
    BY DEF CallInv, CallOK, Fits, Calls
  <2>5. ASSUME NEW m \in Msgs, NEW k \in DOMAIN call[m].todo
        PROVE  call[m].todo[k] \in 1..call[m].size /\ arrays[call[m].arr][call[m].todo[k]] # None
    BY HandlersAssumption DEF CallInv, CallOK
  <2>6. ASSUME NEW m \in Msgs
        PROVE  /\ Locked(call[m]) <=> m \in ToSet(holder)
               /\ call[m].mu # None /\ m \in ToSet(holder) => holder[call[m].mu] = m
    <3>1. Locked(call[m]) => call[m].mu \in DOMAIN holder /\ holder[call[m].mu] = m
      BY DEF MutexInv, HolderInv, MutexOf, Locked
    <3>2. m \in ToSet(holder) => Locked(call[m])
      BY HandlersAssumption DEF ToSet, MutexInv, HolderInv
    <3>3. QED
      BY <3>1, <3>2 DEF ToSet
  <2>7. QED
    BY <2>1, <2>2, <2>3, <2>4, <2>5, <2>6 DEF TypeOK, Locked
<1>2. QED
  BY <1>1, HandlersInductive, PTL

(* concurrent: false for any number of messages, handlers and mutexes. *)
THEOREM HandlersSerialized == Spec => []Serialized
<1>1. HandlersInv => Serialized
  <2> SUFFICES ASSUME HandlersInv, NEW m \in Msgs, NEW n \in Msgs, m # n, Inside(m), Inside(n),
                      call[m].name = call[n].name, call[m].epoch = call[n].epoch
               PROVE  FALSE
    BY DEF Serialized
  <2>1. Locked(call[m]) /\ Locked(call[n]) /\ call[m].mu # None /\ call[n].mu # None
    BY DEF Inside, Locked
  <2>2. call[m].mu = call[n].mu
    BY <2>1 DEF HandlersInv, MutexInv, SameMutex
  <2>3. holder[call[m].mu] = m /\ holder[call[n].mu] = n
    BY <2>1 DEF HandlersInv, MutexInv, HolderInv
  <2>4. QED
    BY <2>2, <2>3
<1>2. QED
  BY <1>1, HandlersInductive, PTL

(* The order of priority, and the end at a drop or an exclusive handler,   *)
(* for files of any length.                                                *)
THEOREM HandlersInOrder == Spec => []InOrder
<1>1. HandlersInv => InOrder
  BY DEF HandlersInv, OrderInv, OrderOK, Executed, InOrder
<1>2. QED
  BY <1>1, HandlersInductive, PTL

(* A once handler that is spent stays so, whatever the edits do to it. *)
THEOREM HandlersNoSecondShot == Spec => []NoSecondShot
<1>1. HandlersInv => NoSecondShot
  BY DEF HandlersInv, OrderInv, OrderOK, Executed, NoSecondShot
<1>2. QED
  BY <1>1, HandlersInductive, PTL

=============================================================================

--------------------------- MODULE SequenceLemmas ---------------------------
(***************************************************************************)
(* What appending to a sequence, taking its head and concatenating it with *)
(* another do to its elements, to their order and to their being distinct. *)
(* The proofs about the queues and buffers of the program share these, and *)
(* that a set of naturals has a smallest element.                          *)
(***************************************************************************)
EXTENDS SequencesExt, SequenceTheorems, WellFoundedInduction, TLAPS

Increasing(s) == \A i, j \in DOMAIN s : i < j => s[i] < s[j]

-----------------------------------------------------------------------------
(* Moving messages between parts of a whole *)

(* Appending to the second part appends to the whole. *)
LEMMA AppendConcat ==
  ASSUME NEW S, NEW a \in Seq(S), NEW b \in Seq(S), NEW m \in S
  PROVE  a \o Append(b, m) = Append(a \o b, m)
<1>1. Append(b, m) = b \o <<m>> /\ Append(a \o b, m) = (a \o b) \o <<m>>
  BY AppendIsConcat, ConcatProperties
<1>2. <<m>> \in Seq(S)
  OBVIOUS
<1>3. QED
  BY <1>1, <1>2, ConcatAssociative

(* A sequence that is not empty is its head and its tail. *)
LEMMA HeadConcatTail ==
  ASSUME NEW S, NEW q \in Seq(S), q # <<>>
  PROVE  /\ Head(q) \in S /\ Tail(q) \in Seq(S) /\ <<Head(q)>> \in Seq(S)
         /\ <<Head(q)>> \o Tail(q) = q
         /\ Len(q) = Len(Tail(q)) + 1
<1>1. /\ Head(q) \in S /\ Tail(q) \in Seq(S) /\ Len(Tail(q)) = Len(q) - 1
      /\ \A i \in 1 .. Len(Tail(q)) : Tail(q)[i] = q[i+1]
  BY HeadTailProperties
<1>2. <<Head(q)>> \in Seq(S) /\ Len(<<Head(q)>>) = 1 /\ <<Head(q)>>[1] = Head(q)
  BY <1>1
<1>3. Len(q) \in Nat \ {0} /\ q[1] = Head(q)
  BY EmptySeq
<1>4. <<Head(q)>> \o Tail(q) = q
  BY <1>1, <1>2, <1>3, ConcatProperties, SeqEqual
<1>5. QED
  BY <1>1, <1>2, <1>3, <1>4

(* Taking the head of the second part moves it to the end of the first. *)
LEMMA AppendHead ==
  ASSUME NEW S, NEW a \in Seq(S), NEW q \in Seq(S), q # <<>>
  PROVE  Append(a, Head(q)) \o Tail(q) = a \o q
<1>1. Append(a, Head(q)) = a \o <<Head(q)>>
  BY HeadConcatTail, AppendIsConcat
<1>2. QED
  BY <1>1, HeadConcatTail, ConcatAssociative

-----------------------------------------------------------------------------
(* The elements of a sequence *)

(* The elements of the whole are those of its parts. *)
LEMMA ToSetConcat ==
  ASSUME NEW S, NEW a \in Seq(S), NEW b \in Seq(S)
  PROVE  ToSet(a \o b) = ToSet(a) \cup ToSet(b)
<1> DEFINE w == a \o b
<1>1. /\ Len(a) \in Nat /\ Len(b) \in Nat /\ DOMAIN a = 1..Len(a) /\ DOMAIN b = 1..Len(b)
      /\ w \in Seq(S) /\ Len(w) = Len(a) + Len(b) /\ DOMAIN w = 1..Len(w)
      /\ \A i \in 1..Len(a) + Len(b) : w[i] = IF i <= Len(a) THEN a[i] ELSE b[i - Len(a)]
  BY ConcatProperties, LenProperties
<1> HIDE DEF w
<1>2. ASSUME NEW i \in DOMAIN w
      PROVE  w[i] \in ToSet(a) \cup ToSet(b)
  <2>1. CASE i <= Len(a)
    BY <1>1, <1>2, <2>1 DEF ToSet
  <2>2. CASE i > Len(a)
    <3>1. i - Len(a) \in DOMAIN b /\ w[i] = b[i - Len(a)]
      BY <1>1, <1>2, <2>2
    <3>2. QED
      BY <3>1 DEF ToSet
  <2>3. QED
    BY <1>1, <1>2, <2>1, <2>2
<1>3. ASSUME NEW i \in DOMAIN a
      PROVE  a[i] \in ToSet(w)
  <2>1. i \in DOMAIN w /\ w[i] = a[i]
    BY <1>1, <1>3
  <2>2. QED
    BY <2>1 DEF ToSet
<1>4. ASSUME NEW i \in DOMAIN b
      PROVE  b[i] \in ToSet(w)
  <2>1. Len(a) + i \in DOMAIN w /\ w[Len(a) + i] = b[i]
    BY <1>1, <1>4
  <2>2. QED
    BY <2>1 DEF ToSet
<1>5. QED
  BY <1>2, <1>3, <1>4 DEF ToSet, w

(* Appending an element adds it to the elements. *)
LEMMA ToSetAppend ==
  ASSUME NEW S, NEW a \in Seq(S), NEW m \in S
  PROVE  ToSet(Append(a, m)) = ToSet(a) \cup {m}
<1> DEFINE last == <<m>>
<1>1. last \in Seq(S) /\ ToSet(last) = {m} /\ Append(a, m) = a \o last
  BY AppendIsConcat DEF ToSet
<1> HIDE DEF last
<1>2. QED
  BY <1>1, ToSetConcat

(* The elements of a sequence over S are in S. *)
LEMMA ToSetSubset ==
  ASSUME NEW S, NEW a \in Seq(S)
  PROVE  ToSet(a) \subseteq S
BY LenProperties DEF ToSet

(* The head is one element, the tail has the others. *)
LEMMA ToSetTail ==
  ASSUME NEW S, NEW q \in Seq(S), q # <<>>
  PROVE  ToSet(q) = {Head(q)} \cup ToSet(Tail(q))
<1> DEFINE first == <<Head(q)>>
<1>1. /\ first \in Seq(S) /\ ToSet(first) = {Head(q)}
      /\ Tail(q) \in Seq(S) /\ first \o Tail(q) = q
  BY HeadConcatTail DEF ToSet
<1> HIDE DEF first
<1>2. ToSet(first \o Tail(q)) = ToSet(first) \cup ToSet(Tail(q))
  BY ONLY <1>1, ToSetConcat, ZenonT(40)
<1>3. QED
  BY <1>1, <1>2

-----------------------------------------------------------------------------
(* Distinct elements *)

(* The whole has distinct elements exactly if both parts have and share none. *)
LEMMA InjectiveConcat ==
  ASSUME NEW S, NEW a \in Seq(S), NEW b \in Seq(S)
  PROVE  IsInjective(a \o b)
           <=> IsInjective(a) /\ IsInjective(b) /\ ToSet(a) \cap ToSet(b) = {}
<1> DEFINE w == a \o b
<1>1. /\ Len(a) \in Nat /\ Len(b) \in Nat /\ DOMAIN a = 1..Len(a) /\ DOMAIN b = 1..Len(b)
      /\ w \in Seq(S) /\ Len(w) = Len(a) + Len(b) /\ DOMAIN w = 1..Len(w)
      /\ \A i \in 1..Len(a) + Len(b) : w[i] = IF i <= Len(a) THEN a[i] ELSE b[i - Len(a)]
  BY ConcatProperties, LenProperties
<1> HIDE DEF w
<1>2. \A i \in DOMAIN a : i \in DOMAIN w /\ w[i] = a[i]
  BY <1>1
<1>3. \A i \in DOMAIN b : Len(a) + i \in DOMAIN w /\ w[Len(a) + i] = b[i]
  BY <1>1
<1>4. \A i \in DOMAIN w : \/ i \in DOMAIN a /\ w[i] = a[i]
                          \/ i > Len(a) /\ i - Len(a) \in DOMAIN b /\ w[i] = b[i - Len(a)]
  BY <1>1
<1>5. ASSUME IsInjective(w)
      PROVE  IsInjective(a) /\ IsInjective(b) /\ ToSet(a) \cap ToSet(b) = {}
  <2>1. IsInjective(a)
    BY <1>2, <1>5 DEF IsInjective
  <2>2. IsInjective(b)
    <3> SUFFICES ASSUME NEW i \in DOMAIN b, NEW j \in DOMAIN b, b[i] = b[j] PROVE i = j
      BY DEF IsInjective
    <3>1. Len(a) + i = Len(a) + j
      BY <1>3, <1>5 DEF IsInjective
    <3>2. QED
      BY <1>1, <3>1
  <2>3. ASSUME NEW i \in DOMAIN a, NEW j \in DOMAIN b, a[i] = b[j]
        PROVE  FALSE
    <3>1. i = Len(a) + j
      BY <1>2, <1>3, <1>5, <2>3 DEF IsInjective
    <3>2. QED
      BY <1>1, <3>1
  <2>4. QED
    BY <2>1, <2>2, <2>3 DEF ToSet
<1>6. ASSUME IsInjective(a), IsInjective(b), ToSet(a) \cap ToSet(b) = {}
      PROVE  IsInjective(w)
  <2> SUFFICES ASSUME NEW i \in DOMAIN w, NEW j \in DOMAIN w, w[i] = w[j] PROVE i = j
    BY DEF IsInjective
  <2>1. \A k \in DOMAIN a, l \in DOMAIN b : a[k] # b[l]
    BY <1>6 DEF ToSet
  <2>2. CASE i \in DOMAIN a /\ w[i] = a[i] /\ j \in DOMAIN a /\ w[j] = a[j]
    BY <1>6, <2>2 DEF IsInjective
  <2>3. CASE /\ i > Len(a) /\ i - Len(a) \in DOMAIN b /\ w[i] = b[i - Len(a)]
             /\ j > Len(a) /\ j - Len(a) \in DOMAIN b /\ w[j] = b[j - Len(a)]
    <3>1. i - Len(a) = j - Len(a)
      BY <1>6, <2>3 DEF IsInjective
    <3>2. QED
      BY <1>1, <3>1
  <2>4. QED
    BY <1>4, <2>1, <2>2, <2>3
<1>7. QED
  BY <1>5, <1>6 DEF w

(* Appending an element that is not there keeps them distinct. *)
LEMMA InjectiveAppend ==
  ASSUME NEW S, NEW a \in Seq(S), NEW m \in S, IsInjective(a), m \notin ToSet(a)
  PROVE  IsInjective(Append(a, m))
<1> DEFINE last == <<m>>
<1>1. /\ last \in Seq(S) /\ ToSet(last) = {m} /\ IsInjective(last)
      /\ Append(a, m) = a \o last
  BY AppendIsConcat DEF ToSet, IsInjective
<1> HIDE DEF last
<1>2. ToSet(a) \cap ToSet(last) = {}
  BY <1>1
<1>3. QED
  BY <1>1, <1>2, InjectiveConcat

(* The head of distinct elements is not in the tail. *)
LEMMA InjectiveTail ==
  ASSUME NEW S, NEW q \in Seq(S), q # <<>>, IsInjective(q)
  PROVE  IsInjective(Tail(q)) /\ Head(q) \notin ToSet(Tail(q))
<1> DEFINE first == <<Head(q)>>
<1>1. /\ first \in Seq(S) /\ ToSet(first) = {Head(q)}
      /\ Tail(q) \in Seq(S) /\ first \o Tail(q) = q
  BY HeadConcatTail DEF ToSet
<1> HIDE DEF first
<1>2. ToSet(first) \cap ToSet(Tail(q)) = {} /\ IsInjective(Tail(q))
  BY <1>1, InjectiveConcat, ZenonT(40)
<1>3. QED
  BY <1>1, <1>2

-----------------------------------------------------------------------------
(* Increasing numbers *)

(* Increasing numbers are distinct. *)
LEMMA IncreasingInjective ==
  ASSUME NEW a \in Seq(Nat), Increasing(a)
  PROVE  IsInjective(a)
<1>1. DOMAIN a = 1..Len(a) /\ Len(a) \in Nat /\ \A i \in DOMAIN a : a[i] \in Nat
  BY LenProperties
<1>2. QED
  BY <1>1 DEF Increasing, IsInjective

(* Appending a number above all others keeps them increasing. *)
LEMMA IncreasingAppend ==
  ASSUME NEW a \in Seq(Nat), NEW m \in Nat, Increasing(a), \A n \in ToSet(a) : n < m
  PROVE  Increasing(Append(a, m))
<1>1. /\ Len(a) \in Nat /\ DOMAIN a = 1..Len(a) /\ Append(a, m) \in Seq(Nat)
      /\ DOMAIN Append(a, m) = 1..Len(a) + 1 /\ Append(a, m)[Len(a) + 1] = m
      /\ \A i \in 1..Len(a) : Append(a, m)[i] = a[i]
  BY AppendProperties, LenProperties
<1>2. \A i \in 1..Len(a) : a[i] < m
  BY <1>1 DEF ToSet
<1>3. QED
  BY <1>1, <1>2 DEF Increasing

(* What is increasing as a whole is so in its first part.                  *)
LEMMA IncreasingPrefix ==
  ASSUME NEW a \in Seq(Nat), NEW b \in Seq(Nat), Increasing(a \o b)
  PROVE  Increasing(a)
<1> DEFINE w == a \o b
<1>1. /\ Len(a) \in Nat /\ Len(b) \in Nat /\ DOMAIN a = 1..Len(a)
      /\ w \in Seq(Nat) /\ Len(w) = Len(a) + Len(b) /\ DOMAIN w = 1..Len(w)
      /\ \A i \in 1..Len(a) + Len(b) : w[i] = IF i <= Len(a) THEN a[i] ELSE b[i - Len(a)]
  BY ConcatProperties, LenProperties
<1> HIDE DEF w
<1>2. \A i \in DOMAIN a : i \in DOMAIN w /\ w[i] = a[i]
  BY <1>1
<1>3. QED
  BY <1>2 DEF Increasing, w

(* The last elements of a sequence are some of its elements, in its order. *)
LEMMA IncreasingSuffix ==
  ASSUME NEW a \in Seq(Nat), NEW m \in Nat \ {0}
  PROVE  LET s == SubSeq(a, m, Len(a)) IN
         /\ s \in Seq(Nat) /\ ToSet(s) \subseteq ToSet(a)
         /\ Len(s) = IF m <= Len(a) THEN Len(a) - m + 1 ELSE 0
         /\ Increasing(a) => Increasing(s)
<1> DEFINE s == SubSeq(a, m, Len(a))
<1>1. Len(a) \in Nat /\ DOMAIN a = 1..Len(a) /\ \A i \in 1..Len(a) : a[i] \in Nat
  BY LenProperties, ElementOfSeq
<1>2. /\ m \in Int /\ Len(a) \in Int
      /\ \A i \in m..Len(a) : a[i] \in Nat
  BY <1>1
<1>3. /\ s \in Seq(Nat) /\ Len(s) = IF m <= Len(a) THEN Len(a) - m + 1 ELSE 0
      /\ \A i \in 1..Len(a) - m + 1 : s[i] = a[m + i - 1]
  BY ONLY <1>2, SubSeqProperties
<1>4. DOMAIN s = 1..Len(s) /\ Len(s) \in Nat
  BY <1>3, LenProperties
<1> HIDE DEF s
<1>5. \A i \in DOMAIN s : m + i - 1 \in DOMAIN a /\ s[i] = a[m + i - 1]
  <2>1. CASE m <= Len(a)
    <3>1. \A i \in 1..Len(a) - m + 1 : m + i - 1 \in 1..Len(a)
      BY <1>1
    <3>2. Len(s) = Len(a) - m + 1
      BY <1>3, <2>1
    <3>3. QED
      BY <1>1, <1>3, <1>4, <3>1, <3>2
  <2>2. CASE ~(m <= Len(a))
    <3>1. Len(s) = 0
      BY <1>3, <2>2
    <3>2. QED
      BY <1>4, <3>1
  <2>3. QED
    BY <2>1, <2>2
<1>6. ToSet(s) \subseteq ToSet(a)
  BY <1>5 DEF ToSet
<1>7. ASSUME Increasing(a), NEW i \in DOMAIN s, NEW j \in DOMAIN s, i < j
      PROVE  s[i] < s[j]
  <2>1. m + i - 1 < m + j - 1
    BY <1>4, <1>7
  <2>2. QED
    BY <1>5, <1>7, <2>1 DEF Increasing
<1>8. Increasing(a) => Increasing(s)
  BY <1>7 DEF Increasing
<1>9. QED
  BY <1>3, <1>6, <1>8 DEF s

-----------------------------------------------------------------------------
(* A set of naturals has a smallest.                                       *)
LEMMA Smallest ==
  ASSUME NEW S, S \subseteq Nat, S # {}
  PROVE  \E k \in S : \A j \in S : k <= j
<1>1. PICK R : R = OpToRel(<,Nat)
  BY Zenon
<1>2. IsWellFoundedOn(R, Nat)
  BY <1>1, NatLessThanWellFounded, Zenon
<1>3. \A x, y \in Nat : <<x, y>> \in R <=> x < y
  BY <1>1 DEF OpToRel
<1>4. PICK k \in S : \A y \in S : ~(<<y, k>> \in R)
  BY <1>2, WFMin
<1>5. ASSUME NEW j \in S
      PROVE  k <= j
  <2>1. k \in Nat /\ j \in Nat
    OBVIOUS
  <2>2. ~(j < k)
    BY <1>3, <1>4, <2>1
  <2>3. QED
    BY ONLY <2>1, <2>2
<1>6. QED
  BY <1>5
=============================================================================

---------------------------- MODULE DeliveryProofs ----------------------------
(***************************************************************************)
(* Theorems about TopicStore, for any number of goroutines, connections,   *)
(* topics, entries and calls, and about Dispatch, for any number of        *)
(* connections, callers of Pause and Resume, messages and pauses: how a    *)
(* message gets to its subscribers and how it is kept while they pause.    *)
(***************************************************************************)
EXTENDS TopicStore, Dispatch, SequenceLemmas

-----------------------------------------------------------------------------
(* The topic store *)

(* What the fields of a call hold while it is at work. *)
CallInv ==
  \A p \in Procs :
    /\ In(p, "collect") => call[p].todo \subseteq Topics
    /\ In(p, "deliver") => call[p].todo \subseteq Clients
    /\ call[p].at \in {"publish", "sticky", "deliver"} => call[p].msg \in published
    /\ call[p].at \in {"subscribe", "unsubscribe", "recheck", "clear", "sticky"}
         => call[p].topic \in Topics
    /\ call[p].at \in {"subscribe", "unsubscribe", "collect", "leave"} \/ call[p].found # {}
         => call[p].conn \in Clients

(* A message belongs to one call, nobody has it before the call's snapshot *)
(* of the subscribers, and whoever stands in the snapshot has subscribed   *)
(* once more than the message was written to it.                           *)
Carries(p) == call[p].at \in {"publish", "sticky", "deliver"}
Unseen(m) == (\A e \in Entries : retained[e] # m) /\ (\A c \in Clients : offered[c][m] = 0)

MsgInv ==
  /\ \A p, q \in Procs : Carries(p) /\ Carries(q) /\ call[p].msg = call[q].msg => p = q
  /\ \A m \in Msgs \ published : Unseen(m)
  /\ \A p \in Procs : call[p].at \in {"publish", "sticky"} => Unseen(call[p].msg)
  /\ \A p \in Procs : In(p, "deliver") =>
       \A c \in call[p].todo : offered[c][call[p].msg] < joins[c]
  /\ \A e \in Entries : \A c \in subs[e] : joins[c] > 0
  /\ \A c \in Clients, m \in Msgs : offered[c][m] <= joins[c]

(* An entry stands for one topic for ever, and is made without subscribers. *)
EntryInv ==
  /\ \A t, u \in Topics : topics[t] = topics[u] /\ topics[t] # None => t = u
  /\ \A p \in Procs, t \in Topics : topics[t] # None /\ topics[t] = call[p].entry => t = call[p].topic
  /\ \A e \in Entries \ made : subs[e] = {}

(* While a call that will mark its connection absent is alone, nobody puts *)
(* the connection back: neither under the entry the call works on nor      *)
(* under one that took its place.                                          *)
AbsentInv ==
  /\ \A p, q \in Procs : ~(In(p, "subscribe") /\ call[q].alone /\ call[q].conn = call[p].conn)
  /\ \A p \in Procs : In(p, "subscribe") => <<call[p].conn, call[p].topic>> \notin absent
  /\ \A p \in Procs : In(p, "unsubscribe") /\ call[p].alone =>
       LET now == topics[call[p].topic] IN
       now \notin {None, call[p].entry} => call[p].conn \notin subs[now]

(* The first half of StickyReachesAll; the second one is part of MsgInv. *)
RetainedInv ==
  \A e \in Entries : retained[e] # None =>
    \A c \in subs[e] :
      \/ offered[c][retained[e]] > 0
      \/ \E p \in Procs : In(p, "deliver") /\ call[p].msg = retained[e] /\ c \in call[p].todo

StoreInv ==
  StoreTypeOK /\ CallInv /\ MsgInv /\ EntryInv /\ RetainedInv /\ AbsentInv /\ StaysUnsubscribed

-----------------------------------------------------------------------------
(* Calls *)

(* A goroutine that is in no call works on nothing. *)
LEMMA IdleCall ==
  /\ \A es : Idle \in CallsOn(es)
  /\ Idle.at = "idle" /\ Idle.conn = None /\ Idle.entry = None /\ Idle.found = {}
  /\ Idle.alone = FALSE
BY DEF Idle, CallsOn, Places

(* The fields of a call stay in their sets. *)
LEMMA CallFields ==
  ASSUME NEW es, NEW k \in CallsOn(es)
  PROVE  /\ k.at \in Places /\ k.conn \in Clients \cup {None} /\ k.topic \in Topics \cup {None}
         /\ k.msg \in Msgs \cup {None} /\ k.entry \in es \cup {None}
         /\ k.todo \in SUBSET (Clients \cup Topics) /\ k.found \in SUBSET Topics
         /\ k.alone \in BOOLEAN
BY DEF CallsOn

(* A call may work on any of the entries, once more are made. *)
LEMMA MoreEntries == ASSUME NEW es, NEW fs, es \subseteq fs PROVE CallsOn(es) \subseteq CallsOn(fs)
BY DEF CallsOn

(* A step of one call leaves the others as they were. *)
LEMMA OneCall ==
  ASSUME NEW p \in Procs, call \in [Procs -> CallsOn(made)], made \subseteq made',
         NEW r \in CallsOn(made'), call' = [call EXCEPT ![p] = r]
  PROVE  /\ call' \in [Procs -> CallsOn(made')]
         /\ call'[p] = r /\ \A q \in Procs \ {p} : call'[q] = call[q]
BY MoreEntries

(* What is left of a call that has left one topic is a call. *)
LEMMA LeftCall ==
  ASSUME NEW p \in Procs, call[p] \in CallsOn(made)
  PROVE  /\ Left(p) \in CallsOn(made)
         /\ \/ Left(p) = Idle
            \/ /\ Left(p).at = "leave" /\ Left(p).conn = call[p].conn /\ Left(p).entry = None
               /\ Left(p).found = call[p].found /\ call[p].found # {}
               /\ Left(p).alone = call[p].alone
<1>1. CASE call[p].found = {}
  BY <1>1, IdleCall DEF Left
<1>2. CASE call[p].found # {}
  BY <1>2 DEF Left, CallsOn, Places
<1>3. QED
  BY <1>1, <1>2

(* Writing a message once to a connection adds one to what it was offered. *)
LEMMA OneMore ==
  ASSUME offered \in [Clients -> [Msgs -> Nat]], NEW c \in Clients, NEW m \in Msgs,
         offered' = [offered EXCEPT ![c][m] = @ + 1]
  PROVE  /\ offered' \in [Clients -> [Msgs -> Nat]]
         /\ \A d \in Clients, n \in Msgs :
              offered'[d][n] = IF d = c /\ n = m THEN offered[d][n] + 1 ELSE offered[d][n]
OBVIOUS

(* The entry of a topic is the one that is there, or a fresh one. *)
FoundOrMade(t, e) ==
  /\ e \in made' /\ made \subseteq made' /\ made' \subseteq Entries
  /\ topics' \in [Topics -> made' \cup {None}] /\ topics'[t] = e
  /\ \A u \in Topics \ {t} : topics'[u] = topics[u]
  /\ topics[t] = e \/ (topics[t] = None /\ e \notin made)

(* FindOrMake leaves the entry that was there, or a fresh one. *)
LEMMA FoundOrMadeEntry ==
  ASSUME StoreTypeOK, NEW t \in Topics, NEW e \in Entries, FindOrMake(t, e)
  PROVE  FoundOrMade(t, e)
<1>1. CASE topics[t] # None
  <2>1. e = topics[t] /\ topics' = topics /\ made' = made
    BY <1>1 DEF FindOrMake
  <2>2. e \in made /\ topics \in [Topics -> made \cup {None}] /\ made \subseteq Entries
    BY <1>1, <2>1 DEF StoreTypeOK
  <2>3. topics' \in [Topics -> made' \cup {None}]
    BY <2>1, <2>2
  <2>4. QED
    BY <2>1, <2>2, <2>3 DEF FoundOrMade
<1>2. CASE topics[t] = None
  <2>1. made # Entries /\ e = (CHOOSE new \in Entries \ made : TRUE) /\ made \subseteq Entries
    BY <1>2 DEF FindOrMake, StoreTypeOK
  <2>2. e \in Entries \ made
    BY <2>1
  <2>3. topics' = [topics EXCEPT ![t] = e] /\ made' = made \cup {e}
    BY <1>2 DEF FindOrMake
  <2>4. QED
    BY <1>2, <2>2, <2>3 DEF FoundOrMade, StoreTypeOK
<1>3. QED
  BY <1>1, <1>2

(* Whether the entry was found or made, it keeps standing for one topic. *)
LEMMA KeepEntry ==
  ASSUME StoreTypeOK, EntryInv, StaysUnsubscribed, NEW p \in Procs, NEW t \in Topics, NEW e \in Entries,
         FoundOrMade(t, e), subs' = subs, call'[p].entry = e, call'[p].topic = t,
         \A q \in Procs \ {p} : call'[q].entry = call[q].entry /\ call'[q].topic = call[q].topic
  PROVE  EntryInv' /\ (absent' \subseteq absent => StaysUnsubscribed')
<1>1. /\ e # None /\ \A q \in Procs : call[q].entry \in made \cup {None}
      /\ \A u \in Topics : topics[u] \in made \cup {None}
  BY StoreAssumption, CallFields DEF StoreTypeOK
<1>2. \A u, v \in Topics : topics'[u] = topics'[v] /\ topics'[u] # None => u = v
  BY <1>1 DEF EntryInv, FoundOrMade
<1>3. \A q \in Procs, u \in Topics :
        topics'[u] # None /\ topics'[u] = call'[q].entry => u = call'[q].topic
  <2> SUFFICES ASSUME NEW q \in Procs, NEW u \in Topics, topics'[u] # None,
                      topics'[u] = call'[q].entry
               PROVE  u = call'[q].topic
    OBVIOUS
  <2>1. CASE q = p
    BY <1>2, <2>1 DEF FoundOrMade
  <2>2. CASE q # p /\ topics'[u] = topics[u]
    <3>1. topics[u] # None /\ topics[u] = call[q].entry /\ call'[q].topic = call[q].topic
      BY <2>2
    <3>2. QED
      BY <3>1 DEF EntryInv
  <2>3. CASE q # p /\ topics'[u] # topics[u]
    BY <1>1, <2>3 DEF FoundOrMade
  <2>4. QED
    BY <2>1, <2>2, <2>3
<1>4. \A f \in Entries \ made' : subs'[f] = {}
  BY DEF EntryInv, FoundOrMade
<1>5. absent' \subseteq absent => StaysUnsubscribed'
  BY <1>1 DEF StaysUnsubscribed, FoundOrMade, EntryInv
<1>6. QED
  BY <1>2, <1>3, <1>4, <1>5 DEF EntryInv

(* A fresh entry has nobody under it. *)
LEMMA KeepAbsent ==
  ASSUME StoreTypeOK, EntryInv, AbsentInv, NEW t \in Topics, NEW e \in Entries, FoundOrMade(t, e),
         NEW u \in Procs, In(u, "unsubscribe"), call[u].alone, call[u].topic \in Topics,
         topics'[call[u].topic] \notin {None, call[u].entry}
  PROVE  call[u].conn \notin subs[topics'[call[u].topic]]
BY DEF StoreTypeOK, EntryInv, AbsentInv, FoundOrMade, In

-----------------------------------------------------------------------------
(* Every action keeps the invariant. *)

(* Subscribe: the connection joins, and gets what is retained. *)
LEMMA KeepSubscribeJoin ==
  ASSUME StoreInv, NEW p \in Procs, SubscribeJoin(p)
  PROVE  StoreInv'
<1> USE StoreAssumption DEF StoreInv, In
<1> DEFINE c == call[p].conn
           e == call[p].entry
<1>1. call \in [Procs -> CallsOn(made)] /\ call[p] \in CallsOn(made)
  BY DEF StoreTypeOK
<1>2. /\ call' = [call EXCEPT ![p] = Idle] /\ made' = made
      /\ In(p, "subscribe") /\ UNCHANGED <<begun, topics, retained, published, absent>>
  BY DEF SubscribeJoin
<1>3. /\ c \in Clients /\ e \in made /\ e \in Entries /\ call[p].topic \in Topics
      /\ <<c, call[p].topic>> \notin absent
  BY <1>1, <1>2, CallFields DEF CallInv, StoreTypeOK, AbsentInv
<1>4. /\ call' \in [Procs -> CallsOn(made')]
      /\ call'[p] = Idle /\ \A q \in Procs \ {p} : call'[q] = call[q]
  BY <1>1, <1>2, IdleCall, OneCall
<1>5. CASE c \in subs[e]
  <2>1. UNCHANGED <<subs, joins, offered>>
    BY <1>5 DEF SubscribeJoin
  <2>2. QED
    BY <1>1, <1>2, <1>4, <2>1, CallFields, IdleCall DEF StoreTypeOK, CallInv, MsgInv, EntryInv,
      RetainedInv, AbsentInv, StaysUnsubscribed, Carries, Unseen
<1>6. CASE c \notin subs[e]
  <2>1. subs' = [subs EXCEPT ![e] = @ \cup {c}] /\ joins' = [joins EXCEPT ![c] = @ + 1]
    BY <1>6 DEF SubscribeJoin
  <2>2. /\ joins' \in [Clients -> Nat] /\ joins'[c] = joins[c] + 1 /\ joins[c] \in Nat
        /\ \A d \in Clients \ {c} : joins'[d] = joins[d]
    BY <1>3, <2>1 DEF StoreTypeOK
  <2>3. /\ subs' \in [Entries -> SUBSET Clients] /\ subs'[e] = subs[e] \cup {c}
        /\ \A f \in Entries \ {e} : subs'[f] = subs[f]
    BY <1>3, <2>1 DEF StoreTypeOK
  <2>4. /\ offered' \in [Clients -> [Msgs -> Nat]]
        /\ \A d \in Clients, m \in Msgs :
             offered'[d][m] = IF d = c /\ m = retained[e] THEN offered[d][m] + 1 ELSE offered[d][m]
    <3>1. CASE retained[e] = None
      BY <1>3, <1>6, <3>1 DEF SubscribeJoin, StoreTypeOK
    <3>2. CASE retained[e] # None
      <4>1. retained[e] \in Msgs
        BY <1>3, <3>2 DEF StoreTypeOK
      <4>2. offered' = [offered EXCEPT ![c][retained[e]] = @ + 1]
        BY <1>6, <3>2 DEF SubscribeJoin
      <4>3. QED
        BY <1>3, <4>1, <4>2, OneMore, SMTT(40) DEF StoreTypeOK
    <3>3. QED
      BY <3>1, <3>2
  <2> HIDE DEF c, e
  <2>5. StoreTypeOK' /\ CallInv'
    BY <1>2, <1>4, <2>2, <2>3, <2>4, CallFields, IdleCall DEF StoreTypeOK, CallInv
  <2>6. MsgInv'
    <3>1. \A q \in Procs : call'[q].at \in {"publish", "sticky", "deliver"} => q # p
      BY <1>4, IdleCall
    <3>2. \A d \in Clients : joins'[d] >= joins[d] /\ joins[d] \in Nat /\ joins'[d] \in Nat
      BY <2>2 DEF StoreTypeOK
    <3>3. \A q \in Procs : call'[q].at = "deliver" =>
            \A d \in call'[q].todo : offered'[d][call'[q].msg] < joins'[d]
      <4> SUFFICES ASSUME NEW q \in Procs, call'[q].at = "deliver", NEW d \in call'[q].todo
                   PROVE  offered'[d][call'[q].msg] < joins'[d]
        OBVIOUS
      <4>1. call'[q] = call[q] /\ d \in Clients /\ call[q].msg \in Msgs
        BY <1>4, <3>1 DEF CallInv, StoreTypeOK
      <4>2. offered[d][call[q].msg] \in Nat /\ offered[d][call[q].msg] < joins[d]
        BY <4>1 DEF MsgInv, StoreTypeOK
      <4>3. QED
        BY <2>2, <2>4, <3>2, <4>1, <4>2
    <3>4. \A d \in Clients, m \in Msgs : offered'[d][m] <= joins'[d]
      <4> SUFFICES ASSUME NEW d \in Clients, NEW m \in Msgs PROVE offered'[d][m] <= joins'[d]
        OBVIOUS
      <4>1. offered[d][m] \in Nat /\ offered[d][m] <= joins[d] /\ joins[d] \in Nat
        BY DEF MsgInv, StoreTypeOK
      <4>2. QED
        BY <2>2, <2>4, <4>1
    <3>5. \A m \in Msgs : Unseen(m) => Unseen(m)'
      BY <1>2, <1>3, <2>4 DEF Unseen
    <3>6. \A f \in Entries : \A d \in subs'[f] : joins'[d] > 0
      BY <1>3, <2>2, <2>3, <3>2 DEF MsgInv, StoreTypeOK
    <3>7. \A q \in Procs : q # p /\ Carries(q) => call[q].msg \in Msgs
      BY DEF CallInv, Carries, StoreTypeOK
    <3>8. QED
      BY <1>2, <1>4, <3>1, <3>3, <3>4, <3>5, <3>6, <3>7 DEF MsgInv, Carries
  <2>7. EntryInv'
    BY <1>2, <1>3, <1>4, <2>3, IdleCall DEF EntryInv, StoreTypeOK
  <2>8. RetainedInv'
    <3> SUFFICES ASSUME NEW f \in Entries, retained[f] # None, NEW d \in subs'[f]
                 PROVE  \/ offered'[d][retained[f]] > 0
                        \/ \E q \in Procs : /\ call'[q].at = "deliver" /\ call'[q].msg = retained[f]
                                            /\ d \in call'[q].todo
      BY <1>2 DEF RetainedInv
    <3>1. d \in Clients /\ retained[f] \in Msgs /\ offered[d][retained[f]] \in Nat
      BY <2>3 DEF StoreTypeOK
    <3>2. CASE f = e /\ d = c
      BY <2>4, <3>1, <3>2
    <3>3. CASE d \in subs[f]
      <4>1. CASE offered[d][retained[f]] > 0
        BY <2>4, <3>1, <4>1
      <4>2. ASSUME NEW q \in Procs, In(q, "deliver"), call[q].msg = retained[f], d \in call[q].todo
            PROVE  call'[q] = call[q]
        BY <1>2, <1>4, <4>2
      <4>3. QED
        BY <3>3, <4>1, <4>2 DEF RetainedInv
    <3>4. QED
      BY <2>3, <3>2, <3>3
  <2>9. AbsentInv'
    <3>1. ASSUME NEW u \in Procs, call'[u].at = "unsubscribe", call'[u].alone
          PROVE  /\ call'[u] = call[u] /\ call[u].conn # c /\ call[u].topic \in Topics
                 /\ call[u].conn \in Clients
      BY <1>2, <1>4, <3>1, IdleCall DEF AbsentInv, CallInv, c
    <3>2. ASSUME NEW u \in Procs, call'[u].at = "unsubscribe", call'[u].alone,
                 topics'[call'[u].topic] \notin {None, call'[u].entry}
          PROVE  call'[u].conn \notin subs'[topics'[call'[u].topic]]
      <4>1. topics[call[u].topic] \in Entries /\ call[u].conn \notin subs[topics[call[u].topic]]
        BY <1>2, <3>1, <3>2 DEF AbsentInv, StoreTypeOK
      <4>2. QED
        BY <1>2, <2>3, <3>1, <3>2, <4>1
    <3>3. QED
      BY <1>2, <1>4, <3>2, IdleCall DEF AbsentInv
  <2>10. StaysUnsubscribed'
    <3> SUFFICES ASSUME NEW d \in Clients, NEW t \in Topics, <<d, t>> \in absent, topics[t] # None,
                        d \in subs'[topics[t]]
                 PROVE  FALSE
      BY <1>2 DEF StaysUnsubscribed
    <3>1. d \notin subs[topics[t]] /\ topics[t] \in Entries
      BY DEF StaysUnsubscribed, StoreTypeOK
    <3>2. topics[t] = e /\ d = c
      BY <2>3, <3>1
    <3>3. t = call[p].topic
      BY <3>2 DEF EntryInv, e
    <3>4. QED
      BY <1>3, <3>2, <3>3 DEF c
  <2>11. QED
    BY <2>5, <2>6, <2>7, <2>8, <2>9, <2>10
<1>7. QED
  BY <1>5, <1>6

(* Unsubscribe finds the entry. *)
LEMMA KeepUnsubscribeEnter ==
  ASSUME StoreInv, NEW p \in Procs, NEW c \in Clients, NEW t \in Topics, UnsubscribeEnter(p, c, t)
  PROVE  StoreInv'
<1> USE StoreAssumption DEF StoreInv, In
<1> DEFINE r == [Idle EXCEPT !.at = "unsubscribe", !.conn = c, !.topic = t,
                            !.entry = topics[t], !.alone = ~Subscribing(c)]
<1>1. call \in [Procs -> CallsOn(made)] /\ call[p] \in CallsOn(made)
  BY DEF StoreTypeOK
<1>2. /\ call' = [call EXCEPT ![p] = r] /\ made' = made
      /\ In(p, "idle") /\ begun < MaxCalls /\ begun' = begun + 1
      /\ UNCHANGED <<topics, subs, retained, published, offered, joins, absent>>
      /\ topics[t] # None
  BY DEF UnsubscribeEnter, Begins
<1>3. /\ r \in CallsOn(made')
      /\ r.at = "unsubscribe" /\ r.conn = c /\ r.topic = t /\ r.entry = topics[t] /\ r.found = {}
      /\ r.alone = ~Subscribing(c) /\ topics[t] # None
  BY <1>1, <1>2 DEF StoreTypeOK, CallInv, CallsOn, Idle, Places, Subscribing, UnsubscribeEnter
<1> HIDE DEF r
<1>4. /\ call' \in [Procs -> CallsOn(made')]
      /\ call'[p] = r /\ \A q \in Procs \ {p} : call'[q] = call[q]
  BY <1>1, <1>2, <1>3, OneCall
<1>5. StoreTypeOK'
  BY <1>1, <1>2, <1>3, <1>4, CallFields, IdleCall DEF StoreTypeOK, CallInv
<1>6. CallInv'
  BY <1>1, <1>2, <1>3, <1>4, CallFields, IdleCall DEF StoreTypeOK, CallInv
<1>7. MsgInv'
  BY <1>1, <1>2, <1>3, <1>4, CallFields, IdleCall DEF StoreTypeOK, CallInv, MsgInv, Carries, Unseen
<1>8. EntryInv'
  BY <1>1, <1>2, <1>3, <1>4, CallFields, IdleCall DEF StoreTypeOK, CallInv, EntryInv
<1>9. RetainedInv'
  BY <1>1, <1>2, <1>3, <1>4, CallFields, IdleCall DEF StoreTypeOK, CallInv, RetainedInv
<1>10. AbsentInv'
  BY <1>1, <1>2, <1>3, <1>4, CallFields, IdleCall DEF StoreTypeOK, CallInv, EntryInv, AbsentInv, Subscribing
<1>11. StaysUnsubscribed'
  BY <1>1, <1>2, <1>3, <1>4, CallFields, IdleCall DEF StoreTypeOK, EntryInv, AbsentInv, StaysUnsubscribed
<1>12. QED
  BY <1>5, <1>6, <1>7, <1>8, <1>9, <1>10, <1>11

(* UnsubscribeAll takes the read lock. *)
LEMMA KeepCollectBegin ==
  ASSUME StoreInv, NEW p \in Procs, NEW c \in Clients, CollectBegin(p, c)
  PROVE  StoreInv'
<1> USE StoreAssumption DEF StoreInv, In
<1> DEFINE r == [Idle EXCEPT !.at = "collect", !.conn = c, !.alone = ~Subscribing(c),
                            !.todo = {t \in Topics : topics[t] # None}]
<1>1. call \in [Procs -> CallsOn(made)] /\ call[p] \in CallsOn(made)
  BY DEF StoreTypeOK
<1>2. /\ call' = [call EXCEPT ![p] = r] /\ made' = made
      /\ In(p, "idle") /\ begun < MaxCalls /\ begun' = begun + 1
      /\ UNCHANGED <<topics, subs, retained, published, offered, joins, absent>>
  BY DEF CollectBegin, Begins
<1>3. /\ r \in CallsOn(made')
      /\ r.at = "collect" /\ r.conn = c /\ r.entry = None /\ r.found = {} /\ r.todo \subseteq Topics
      /\ r.alone = ~Subscribing(c)
  BY <1>1, <1>2 DEF StoreTypeOK, CallInv, CallsOn, Idle, Places, Subscribing
<1> HIDE DEF r
<1>4. /\ call' \in [Procs -> CallsOn(made')]
      /\ call'[p] = r /\ \A q \in Procs \ {p} : call'[q] = call[q]
  BY <1>1, <1>2, <1>3, OneCall
<1>5. StoreTypeOK'
  BY <1>1, <1>2, <1>3, <1>4, CallFields, IdleCall DEF StoreTypeOK, CallInv
<1>6. CallInv'
  BY <1>1, <1>2, <1>3, <1>4, CallFields, IdleCall DEF StoreTypeOK, CallInv
<1>7. MsgInv'
  BY <1>1, <1>2, <1>3, <1>4, CallFields, IdleCall DEF StoreTypeOK, CallInv, MsgInv, Carries, Unseen
<1>8. EntryInv'
  BY <1>1, <1>2, <1>3, <1>4, CallFields, IdleCall DEF StoreTypeOK, CallInv, EntryInv
<1>9. RetainedInv'
  BY <1>1, <1>2, <1>3, <1>4, CallFields, IdleCall DEF StoreTypeOK, CallInv, RetainedInv
<1>10. AbsentInv'
  BY <1>1, <1>2, <1>3, <1>4, CallFields, IdleCall DEF StoreTypeOK, CallInv, EntryInv, AbsentInv, Subscribing
<1>11. StaysUnsubscribed'
  BY <1>1, <1>2, <1>3, <1>4, CallFields, IdleCall DEF StoreTypeOK, EntryInv, AbsentInv, StaysUnsubscribed
<1>12. QED
  BY <1>5, <1>6, <1>7, <1>8, <1>9, <1>10, <1>11

(* ClearRetained finds the entry. *)
LEMMA KeepClearEnter ==
  ASSUME StoreInv, NEW p \in Procs, NEW t \in Topics, ClearEnter(p, t)
  PROVE  StoreInv'
<1> USE StoreAssumption DEF StoreInv, In
<1> DEFINE r == [Idle EXCEPT !.at = "clear", !.topic = t, !.entry = topics[t]]
<1>1. call \in [Procs -> CallsOn(made)] /\ call[p] \in CallsOn(made)
  BY DEF StoreTypeOK
<1>2. /\ call' = [call EXCEPT ![p] = r] /\ made' = made
      /\ In(p, "idle") /\ begun < MaxCalls /\ begun' = begun + 1
      /\ UNCHANGED <<topics, subs, retained, published, offered, joins, absent>>
      /\ topics[t] # None
  BY DEF ClearEnter, Begins
<1>3. /\ r \in CallsOn(made')
      /\ r.at = "clear" /\ r.conn = None /\ r.topic = t /\ r.entry = topics[t] /\ r.found = {} /\ ~r.alone
      /\ topics[t] # None
  BY <1>1, <1>2 DEF StoreTypeOK, CallInv, CallsOn, Idle, Places, ClearEnter
<1> HIDE DEF r
<1>4. /\ call' \in [Procs -> CallsOn(made')]
      /\ call'[p] = r /\ \A q \in Procs \ {p} : call'[q] = call[q]
  BY <1>1, <1>2, <1>3, OneCall
<1>5. QED
  BY <1>1, <1>2, <1>3, <1>4, CallFields, IdleCall DEF StoreTypeOK, CallInv, MsgInv, EntryInv, RetainedInv, AbsentInv,
    StaysUnsubscribed, Carries, Unseen

(* Publish finds the entry. *)
LEMMA KeepPublishEnter ==
  ASSUME StoreInv, NEW p \in Procs, NEW t \in Topics, NEW m \in Msgs, PublishEnter(p, t, m)
  PROVE  StoreInv'
<1> USE StoreAssumption DEF StoreInv, In
<1> DEFINE r == [Idle EXCEPT !.at = "publish", !.topic = t, !.msg = m, !.entry = topics[t]]
<1>1. call \in [Procs -> CallsOn(made)] /\ call[p] \in CallsOn(made)
  BY DEF StoreTypeOK
<1>2. /\ call' = [call EXCEPT ![p] = r] /\ made' = made
      /\ In(p, "idle") /\ begun < MaxCalls /\ begun' = begun + 1
      /\ UNCHANGED <<topics, subs, retained, offered, joins, absent>>
      /\ topics[t] # None /\ m \notin published /\ published' = published \cup {m}
  BY DEF PublishEnter, Begins
<1>3. /\ r \in CallsOn(made')
      /\ r.at = "publish" /\ r.conn = None /\ r.topic = t /\ r.entry = topics[t] /\ r.found = {} /\ ~r.alone
      /\ r.msg = m /\ topics[t] # None
  BY <1>1, <1>2 DEF StoreTypeOK, CallInv, CallsOn, Idle, Places, PublishEnter
<1> HIDE DEF r
<1>4. /\ call' \in [Procs -> CallsOn(made')]
      /\ call'[p] = r /\ \A q \in Procs \ {p} : call'[q] = call[q]
  BY <1>1, <1>2, <1>3, OneCall
<1>5. StoreTypeOK'
  BY <1>1, <1>2, <1>3, <1>4, CallFields, IdleCall DEF StoreTypeOK, CallInv
<1>6. CallInv'
  BY <1>1, <1>2, <1>3, <1>4, CallFields, IdleCall DEF StoreTypeOK, CallInv
<1>7. MsgInv'
  BY <1>1, <1>2, <1>3, <1>4, CallFields, IdleCall DEF StoreTypeOK, CallInv, MsgInv, Carries, Unseen
<1>8. EntryInv'
  BY <1>1, <1>2, <1>3, <1>4, CallFields, IdleCall DEF StoreTypeOK, CallInv, EntryInv
<1>9. RetainedInv'
  BY <1>1, <1>2, <1>3, <1>4, CallFields, IdleCall DEF StoreTypeOK, CallInv, RetainedInv
<1>10. AbsentInv'
  BY <1>1, <1>2, <1>3, <1>4, CallFields, IdleCall DEF StoreTypeOK, CallInv, EntryInv, AbsentInv, Subscribing
<1>11. StaysUnsubscribed'
  BY <1>1, <1>2, <1>3, <1>4, CallFields, IdleCall DEF StoreTypeOK, EntryInv, AbsentInv, StaysUnsubscribed
<1>12. QED
  BY <1>5, <1>6, <1>7, <1>8, <1>9, <1>10, <1>11

(* Unsubscribe takes the connection out of the entry. *)
LEMMA KeepUnsubscribeRemove ==
  ASSUME StoreInv, NEW p \in Procs, UnsubscribeRemove(p)
  PROVE  StoreInv'
<1> USE StoreAssumption DEF StoreInv, In
<1> DEFINE r == IF subs'[call[p].entry] = {} THEN [call[p] EXCEPT !.at = "recheck"] ELSE Left(p)
<1>1. call \in [Procs -> CallsOn(made)] /\ call[p] \in CallsOn(made)
  BY DEF StoreTypeOK
<1>2. /\ call' = [call EXCEPT ![p] = r] /\ made' = made
      /\ In(p, "unsubscribe")
      /\ subs' = [subs EXCEPT ![call[p].entry] = @ \ {call[p].conn}]
      /\ absent' = IF call[p].alone THEN absent \cup {<<call[p].conn, call[p].topic>>} ELSE absent
      /\ UNCHANGED <<begun, topics, retained, published, offered, joins>>
  BY DEF UnsubscribeRemove, MarkAbsent
<1>3. /\ r \in CallsOn(made')
      /\ \/ r = Idle
         \/ /\ r.at = "leave" /\ r.conn = call[p].conn /\ r.entry = None
            /\ r.found = call[p].found /\ call[p].found # {} /\ r.alone = call[p].alone
         \/ r.at = "recheck" /\ r.conn = call[p].conn /\ r.entry = call[p].entry
            /\ r.topic = call[p].topic /\ r.found = call[p].found /\ r.alone = call[p].alone
  BY <1>1, <1>2, LeftCall DEF CallsOn, Places
<1> HIDE DEF r
<1>4. /\ call' \in [Procs -> CallsOn(made')]
      /\ call'[p] = r /\ \A q \in Procs \ {p} : call'[q] = call[q]
  BY <1>1, <1>2, <1>3, OneCall
<1>5. StoreTypeOK'
  BY <1>1, <1>2, <1>3, <1>4, CallFields, IdleCall DEF StoreTypeOK, CallInv
<1>6. CallInv'
  BY <1>1, <1>2, <1>3, <1>4, CallFields, IdleCall DEF StoreTypeOK, CallInv
<1>7. MsgInv'
  BY <1>1, <1>2, <1>3, <1>4, CallFields, IdleCall DEF StoreTypeOK, CallInv, MsgInv, Carries, Unseen
<1>8. EntryInv'
  BY <1>1, <1>2, <1>3, <1>4, CallFields, IdleCall DEF StoreTypeOK, CallInv, EntryInv
<1>9. RetainedInv'
  BY <1>1, <1>2, <1>3, <1>4, CallFields, IdleCall DEF StoreTypeOK, CallInv, RetainedInv
<1>10. AbsentInv'
  BY <1>1, <1>2, <1>3, <1>4, CallFields, IdleCall DEF StoreTypeOK, CallInv, EntryInv, AbsentInv, Subscribing
<1>11. StaysUnsubscribed'
  BY <1>1, <1>2, <1>3, <1>4, CallFields, IdleCall DEF StoreTypeOK, EntryInv, AbsentInv, StaysUnsubscribed
<1>12. QED
  BY <1>5, <1>6, <1>7, <1>8, <1>9, <1>10, <1>11

(* The topic of an empty entry is deleted. *)
LEMMA KeepRecheck ==
  ASSUME StoreInv, NEW p \in Procs, Recheck(p)
  PROVE  StoreInv'
<1> USE StoreAssumption DEF StoreInv, In
<1> DEFINE r == Left(p)
<1>1. call \in [Procs -> CallsOn(made)] /\ call[p] \in CallsOn(made)
  BY DEF StoreTypeOK
<1>2. /\ call' = [call EXCEPT ![p] = r] /\ made' = made
      /\ In(p, "recheck")
      /\ topics' = topics \/ topics' = [topics EXCEPT ![call[p].topic] = None]
      /\ UNCHANGED <<begun, subs, retained, published, offered, joins, absent>>
  BY DEF Recheck
<1>3. /\ r \in CallsOn(made')
      /\ \/ r = Idle
         \/ /\ r.at = "leave" /\ r.conn = call[p].conn /\ r.entry = None
            /\ r.found = call[p].found /\ call[p].found # {} /\ r.alone = call[p].alone
  BY <1>1, <1>2, LeftCall
<1> HIDE DEF r
<1>4. /\ call' \in [Procs -> CallsOn(made')]
      /\ call'[p] = r /\ \A q \in Procs \ {p} : call'[q] = call[q]
  BY <1>1, <1>2, <1>3, OneCall
<1>5. StoreTypeOK'
  BY <1>1, <1>2, <1>3, <1>4, CallFields, IdleCall DEF StoreTypeOK, CallInv
<1>6. CallInv'
  BY <1>1, <1>2, <1>3, <1>4, CallFields, IdleCall DEF StoreTypeOK, CallInv
<1>7. MsgInv'
  BY <1>1, <1>2, <1>3, <1>4, CallFields, IdleCall DEF StoreTypeOK, CallInv, MsgInv, Carries, Unseen
<1>8. EntryInv'
  BY <1>1, <1>2, <1>3, <1>4, CallFields, IdleCall DEF StoreTypeOK, CallInv, EntryInv
<1>9. RetainedInv'
  BY <1>1, <1>2, <1>3, <1>4, CallFields, IdleCall DEF StoreTypeOK, CallInv, RetainedInv
<1>10. AbsentInv'
  BY <1>1, <1>2, <1>3, <1>4, CallFields, IdleCall DEF StoreTypeOK, CallInv, EntryInv, AbsentInv, Subscribing
<1>11. StaysUnsubscribed'
  BY <1>1, <1>2, <1>3, <1>4, CallFields, IdleCall DEF StoreTypeOK, EntryInv, AbsentInv, StaysUnsubscribed
<1>12. QED
  BY <1>5, <1>6, <1>7, <1>8, <1>9, <1>10, <1>11

(* UnsubscribeAll has looked at every topic. *)
LEMMA KeepCollectEnd ==
  ASSUME StoreInv, NEW p \in Procs, CollectEnd(p)
  PROVE  StoreInv'
<1> USE StoreAssumption DEF StoreInv, In
<1> DEFINE r == Left(p)
<1>1. call \in [Procs -> CallsOn(made)] /\ call[p] \in CallsOn(made)
  BY DEF StoreTypeOK
<1>2. /\ call' = [call EXCEPT ![p] = r] /\ made' = made
      /\ In(p, "collect")
      /\ UNCHANGED <<begun, topics, subs, retained, published, offered, joins, absent>>
  BY DEF CollectEnd
<1>3. /\ r \in CallsOn(made')
      /\ \/ r = Idle
         \/ /\ r.at = "leave" /\ r.conn = call[p].conn /\ r.entry = None
            /\ r.found = call[p].found /\ call[p].found # {} /\ r.alone = call[p].alone
  BY <1>1, <1>2, LeftCall
<1> HIDE DEF r
<1>4. /\ call' \in [Procs -> CallsOn(made')]
      /\ call'[p] = r /\ \A q \in Procs \ {p} : call'[q] = call[q]
  BY <1>1, <1>2, <1>3, OneCall
<1>5. StoreTypeOK'
  BY <1>1, <1>2, <1>3, <1>4, CallFields, IdleCall DEF StoreTypeOK, CallInv
<1>6. CallInv'
  BY <1>1, <1>2, <1>3, <1>4, CallFields, IdleCall DEF StoreTypeOK, CallInv
<1>7. MsgInv'
  BY <1>1, <1>2, <1>3, <1>4, CallFields, IdleCall DEF StoreTypeOK, CallInv, MsgInv, Carries, Unseen
<1>8. EntryInv'
  BY <1>1, <1>2, <1>3, <1>4, CallFields, IdleCall DEF StoreTypeOK, CallInv, EntryInv
<1>9. RetainedInv'
  BY <1>1, <1>2, <1>3, <1>4, CallFields, IdleCall DEF StoreTypeOK, CallInv, RetainedInv
<1>10. AbsentInv'
  BY <1>1, <1>2, <1>3, <1>4, CallFields, IdleCall DEF StoreTypeOK, CallInv, EntryInv, AbsentInv, Subscribing
<1>11. StaysUnsubscribed'
  BY <1>1, <1>2, <1>3, <1>4, CallFields, IdleCall DEF StoreTypeOK, EntryInv, AbsentInv, StaysUnsubscribed
<1>12. QED
  BY <1>5, <1>6, <1>7, <1>8, <1>9, <1>10, <1>11

(* ClearRetained clears the entry. *)
LEMMA KeepClearRetained ==
  ASSUME StoreInv, NEW p \in Procs, ClearRetained(p)
  PROVE  StoreInv'
<1> USE StoreAssumption DEF StoreInv, In
<1> DEFINE r == IF subs[call[p].entry] = {} THEN [call[p] EXCEPT !.at = "recheck"] ELSE Idle
<1>1. call \in [Procs -> CallsOn(made)] /\ call[p] \in CallsOn(made)
  BY DEF StoreTypeOK
<1>2. /\ call' = [call EXCEPT ![p] = r] /\ made' = made
      /\ In(p, "clear")
      /\ retained' = [retained EXCEPT ![call[p].entry] = None]
      /\ UNCHANGED <<begun, topics, subs, published, offered, joins, absent>>
  BY DEF ClearRetained
<1>3. /\ r \in CallsOn(made')
      /\ \/ r = Idle
         \/ r.at = "recheck" /\ r.conn = call[p].conn /\ r.entry = call[p].entry
            /\ r.topic = call[p].topic /\ r.found = call[p].found /\ r.alone = call[p].alone
  BY <1>1, <1>2, IdleCall DEF CallsOn, Places
<1> HIDE DEF r
<1>4. /\ call' \in [Procs -> CallsOn(made')]
      /\ call'[p] = r /\ \A q \in Procs \ {p} : call'[q] = call[q]
  BY <1>1, <1>2, <1>3, OneCall
<1>5. StoreTypeOK'
  BY <1>1, <1>2, <1>3, <1>4, CallFields, IdleCall DEF StoreTypeOK, CallInv
<1>6. CallInv'
  BY <1>1, <1>2, <1>3, <1>4, CallFields, IdleCall DEF StoreTypeOK, CallInv
<1>7. MsgInv'
  BY <1>1, <1>2, <1>3, <1>4, CallFields, IdleCall DEF StoreTypeOK, CallInv, MsgInv, Carries, Unseen
<1>8. EntryInv'
  BY <1>1, <1>2, <1>3, <1>4, CallFields, IdleCall DEF StoreTypeOK, CallInv, EntryInv
<1>9. RetainedInv'
  BY <1>1, <1>2, <1>3, <1>4, CallFields, IdleCall DEF StoreTypeOK, CallInv, RetainedInv
<1>10. AbsentInv'
  BY <1>1, <1>2, <1>3, <1>4, CallFields, IdleCall DEF StoreTypeOK, CallInv, EntryInv, AbsentInv, Subscribing
<1>11. StaysUnsubscribed'
  BY <1>1, <1>2, <1>3, <1>4, CallFields, IdleCall DEF StoreTypeOK, EntryInv, AbsentInv, StaysUnsubscribed
<1>12. QED
  BY <1>5, <1>6, <1>7, <1>8, <1>9, <1>10, <1>11

(* Publish copies the subscribers. *)
LEMMA KeepPublishSnapshot ==
  ASSUME StoreInv, NEW p \in Procs, PublishSnapshot(p)
  PROVE  StoreInv'
<1> USE StoreAssumption DEF StoreInv, In
<1> DEFINE r == IF subs[call[p].entry] = {} THEN Idle
                 ELSE [call[p] EXCEPT !.at = "deliver", !.todo = subs[call[p].entry]]
<1>1. call \in [Procs -> CallsOn(made)] /\ call[p] \in CallsOn(made)
  BY DEF StoreTypeOK
<1>2. /\ call' = [call EXCEPT ![p] = r] /\ made' = made
      /\ In(p, "publish")
      /\ UNCHANGED <<begun, topics, subs, retained, published, offered, joins, absent>>
  BY DEF PublishSnapshot, FanOut
<1>3. /\ r \in CallsOn(made')
      /\ \/ r = Idle /\ subs[call[p].entry] = {}
         \/ /\ r.at = "deliver" /\ r.conn = call[p].conn /\ r.entry = call[p].entry /\ r.msg = call[p].msg
            /\ r.topic = call[p].topic /\ r.found = call[p].found /\ r.alone = call[p].alone
            /\ r.todo = subs[call[p].entry]
  BY <1>1, <1>2, IdleCall, ZenonT(40) DEF StoreTypeOK, CallsOn, Places
<1> HIDE DEF r
<1>4. /\ call' \in [Procs -> CallsOn(made')]
      /\ call'[p] = r /\ \A q \in Procs \ {p} : call'[q] = call[q]
  BY <1>1, <1>2, <1>3, OneCall
<1>5. StoreTypeOK'
  BY <1>1, <1>2, <1>3, <1>4, CallFields, IdleCall DEF StoreTypeOK, CallInv
<1>6. CallInv'
  BY <1>1, <1>2, <1>3, <1>4, CallFields, IdleCall DEF StoreTypeOK, CallInv
<1>7. MsgInv'
  BY <1>1, <1>2, <1>3, <1>4, CallFields, IdleCall DEF StoreTypeOK, CallInv, MsgInv, Carries, Unseen
<1>8. EntryInv'
  BY <1>1, <1>2, <1>3, <1>4, CallFields, IdleCall DEF StoreTypeOK, CallInv, EntryInv
<1>9. RetainedInv'
  BY <1>1, <1>2, <1>3, <1>4, CallFields, IdleCall DEF StoreTypeOK, CallInv, RetainedInv
<1>10. AbsentInv'
  BY <1>1, <1>2, <1>3, <1>4, CallFields, IdleCall DEF StoreTypeOK, CallInv, EntryInv, AbsentInv, Subscribing
<1>11. StaysUnsubscribed'
  BY <1>1, <1>2, <1>3, <1>4, CallFields, IdleCall DEF StoreTypeOK, EntryInv, AbsentInv, StaysUnsubscribed
<1>12. QED
  BY <1>5, <1>6, <1>7, <1>8, <1>9, <1>10, <1>11

(* PublishSticky retains the message and copies the subscribers. *)
LEMMA KeepStickySnapshot ==
  ASSUME StoreInv, NEW p \in Procs, StickySnapshot(p)
  PROVE  StoreInv'
<1> USE StoreAssumption DEF StoreInv, In
<1> DEFINE r == IF subs[call[p].entry] = {} THEN Idle
                 ELSE [call[p] EXCEPT !.at = "deliver", !.todo = subs[call[p].entry]]
<1>1. call \in [Procs -> CallsOn(made)] /\ call[p] \in CallsOn(made)
  BY DEF StoreTypeOK
<1>2. /\ call' = [call EXCEPT ![p] = r] /\ made' = made
      /\ In(p, "sticky")
      /\ retained' = [retained EXCEPT ![call[p].entry] = call[p].msg]
      /\ UNCHANGED <<begun, topics, subs, published, offered, joins, absent>>
  BY DEF StickySnapshot, FanOut
<1>3. /\ r \in CallsOn(made')
      /\ \/ r = Idle /\ subs[call[p].entry] = {}
         \/ /\ r.at = "deliver" /\ r.conn = call[p].conn /\ r.entry = call[p].entry /\ r.msg = call[p].msg
            /\ r.topic = call[p].topic /\ r.found = call[p].found /\ r.alone = call[p].alone
            /\ r.todo = subs[call[p].entry]
  BY <1>1, <1>2, IdleCall, ZenonT(40) DEF StoreTypeOK, CallsOn, Places
<1> HIDE DEF r
<1>4. /\ call' \in [Procs -> CallsOn(made')]
      /\ call'[p] = r /\ \A q \in Procs \ {p} : call'[q] = call[q]
  BY <1>1, <1>2, <1>3, OneCall
<1>5. StoreTypeOK'
  BY <1>1, <1>2, <1>3, <1>4, CallFields, IdleCall DEF StoreTypeOK, CallInv
<1>6. CallInv'
  BY <1>1, <1>2, <1>3, <1>4, CallFields, IdleCall DEF StoreTypeOK, CallInv
<1>7. MsgInv'
  BY <1>1, <1>2, <1>3, <1>4, CallFields, IdleCall DEF StoreTypeOK, CallInv, MsgInv, Carries, Unseen
<1>8. EntryInv'
  BY <1>1, <1>2, <1>3, <1>4, CallFields, IdleCall DEF StoreTypeOK, CallInv, EntryInv
<1>9. RetainedInv'
  BY <1>1, <1>2, <1>3, <1>4, CallFields, IdleCall DEF StoreTypeOK, CallInv, RetainedInv
<1>10. AbsentInv'
  BY <1>1, <1>2, <1>3, <1>4, CallFields, IdleCall DEF StoreTypeOK, CallInv, EntryInv, AbsentInv, Subscribing
<1>11. StaysUnsubscribed'
  BY <1>1, <1>2, <1>3, <1>4, CallFields, IdleCall DEF StoreTypeOK, EntryInv, AbsentInv, StaysUnsubscribed
<1>12. QED
  BY <1>5, <1>6, <1>7, <1>8, <1>9, <1>10, <1>11

(* UnsubscribeAll looks at one topic. *)
LEMMA KeepCollectOne ==
  ASSUME StoreInv, NEW p \in Procs, CollectOne(p)
  PROVE  StoreInv'
<1> USE StoreAssumption DEF StoreInv, In
<1>1. call \in [Procs -> CallsOn(made)] /\ call[p] \in CallsOn(made)
  BY DEF StoreTypeOK
<1>2. PICK t \in call[p].todo :
      /\ call' = [call EXCEPT ![p] = [call[p] EXCEPT !.todo = @ \ {t},
                            !.found = IF call[p].conn \in subs[topics[t]] THEN @ \cup {t} ELSE @]]
      /\ made' = made
      /\ In(p, "collect")
      /\ UNCHANGED <<begun, topics, subs, retained, published, offered, joins, absent>>
  BY DEF CollectOne
<1> DEFINE r == [call[p] EXCEPT !.todo = @ \ {t},
                            !.found = IF call[p].conn \in subs[topics[t]] THEN @ \cup {t} ELSE @]
<1>3. /\ r \in CallsOn(made')
      /\ r.at = "collect" /\ r.conn = call[p].conn /\ r.entry = call[p].entry /\ r.topic = call[p].topic
      /\ r.todo \subseteq call[p].todo /\ r.alone = call[p].alone
  BY <1>1, <1>2 DEF CallInv, CallsOn
<1>4. call' = [call EXCEPT ![p] = r]
  BY <1>2
<1> HIDE DEF r
<1>5. /\ call' \in [Procs -> CallsOn(made')]
      /\ call'[p] = r /\ \A q \in Procs \ {p} : call'[q] = call[q]
  BY <1>1, <1>2, <1>3, <1>4, OneCall
<1>6. StoreTypeOK'
  BY <1>1, <1>2, <1>3, <1>5, CallFields, IdleCall DEF StoreTypeOK, CallInv
<1>7. CallInv'
  BY <1>1, <1>2, <1>3, <1>5, CallFields, IdleCall DEF StoreTypeOK, CallInv
<1>8. MsgInv'
  BY <1>1, <1>2, <1>3, <1>5, CallFields, IdleCall DEF StoreTypeOK, CallInv, MsgInv, Carries, Unseen
<1>9. EntryInv'
  BY <1>1, <1>2, <1>3, <1>5, CallFields, IdleCall DEF StoreTypeOK, CallInv, EntryInv
<1>10. RetainedInv'
  BY <1>1, <1>2, <1>3, <1>5, CallFields, IdleCall DEF StoreTypeOK, CallInv, RetainedInv
<1>11. AbsentInv'
  BY <1>1, <1>2, <1>3, <1>5, CallFields, IdleCall, SMTT(40) DEF StoreTypeOK, CallInv, EntryInv, AbsentInv, Subscribing
<1>12. StaysUnsubscribed'
  BY <1>1, <1>2, <1>3, <1>5, CallFields, IdleCall DEF StoreTypeOK, EntryInv, AbsentInv, StaysUnsubscribed
<1>13. QED
  BY <1>6, <1>7, <1>8, <1>9, <1>10, <1>11, <1>12

(* Publish and PublishSticky write to one of the connections. *)
LEMMA KeepDeliver ==
  ASSUME StoreInv, NEW p \in Procs, Deliver(p)
  PROVE  StoreInv'
<1> USE StoreAssumption DEF StoreInv, In
<1>1. call \in [Procs -> CallsOn(made)] /\ call[p] \in CallsOn(made)
  BY DEF StoreTypeOK
<1>2. PICK c \in call[p].todo :
      /\ call' = [call EXCEPT ![p] = IF call[p].todo = {c} THEN Idle
                                      ELSE [call[p] EXCEPT !.todo = @ \ {c}]]
      /\ made' = made
      /\ In(p, "deliver")
      /\ offered' = [offered EXCEPT ![c][call[p].msg] = @ + 1]
      /\ UNCHANGED <<begun, topics, subs, retained, published, joins, absent>>
  BY DEF Deliver
<1> DEFINE r == IF call[p].todo = {c} THEN Idle
                                      ELSE [call[p] EXCEPT !.todo = @ \ {c}]
<1>3. /\ r \in CallsOn(made')
      /\ \/ r = Idle /\ call[p].todo = {c}
         \/ /\ r.at = "deliver" /\ r.conn = call[p].conn /\ r.entry = call[p].entry /\ r.msg = call[p].msg
            /\ r.topic = call[p].topic /\ r.found = call[p].found /\ r.alone = call[p].alone
            /\ r.todo = call[p].todo \ {c}
  BY <1>1, <1>2, IdleCall DEF CallInv, CallsOn
<1>4. call' = [call EXCEPT ![p] = r]
  BY <1>2
<1> HIDE DEF r
<1>5. /\ call' \in [Procs -> CallsOn(made')]
      /\ call'[p] = r /\ \A q \in Procs \ {p} : call'[q] = call[q]
  BY <1>1, <1>2, <1>3, <1>4, OneCall
<1>6. StoreTypeOK'
  BY <1>1, <1>2, <1>3, <1>5, CallFields, IdleCall DEF StoreTypeOK, CallInv
<1>7. CallInv'
  BY <1>1, <1>2, <1>3, <1>5, CallFields, IdleCall DEF StoreTypeOK, CallInv
<1>8. MsgInv'
  BY <1>1, <1>2, <1>3, <1>5, CallFields, IdleCall, SMTT(40) DEF StoreTypeOK, CallInv, MsgInv, Carries, Unseen
<1>9. EntryInv'
  BY <1>1, <1>2, <1>3, <1>5, CallFields, IdleCall DEF StoreTypeOK, CallInv, EntryInv
<1>10. RetainedInv'
  BY <1>1, <1>2, <1>3, <1>5, CallFields, IdleCall DEF StoreTypeOK, CallInv, RetainedInv
<1>11. AbsentInv'
  <2>1. \A u, v \in Procs : ~(call'[u].at = "subscribe" /\ call'[v].alone /\ call'[v].conn = call'[u].conn)
    BY <1>1, <1>2, <1>3, <1>5, CallFields, IdleCall DEF AbsentInv
  <2>2. \A u \in Procs : call'[u].at = "subscribe" => <<call'[u].conn, call'[u].topic>> \notin absent'
    BY <1>1, <1>2, <1>3, <1>5, CallFields, IdleCall DEF AbsentInv
  <2>3. ASSUME NEW u \in Procs, call'[u].at = "unsubscribe", call'[u].alone
        PROVE  topics'[call'[u].topic] \notin {None, call'[u].entry}
                 => call'[u].conn \notin subs'[topics'[call'[u].topic]]
    <3>1. CASE u = p
      BY <1>1, <1>2, <1>3, <1>5, CallFields, IdleCall, <2>3, <3>1 DEF AbsentInv
    <3>2. CASE u # p
      BY <1>1, <1>2, <1>3, <1>5, CallFields, IdleCall, <2>3, <3>2 DEF AbsentInv
    <3>3. QED
      BY <3>1, <3>2
  <2>4. QED
    BY <2>1, <2>2, <2>3 DEF AbsentInv
<1>12. StaysUnsubscribed'
  BY <1>1, <1>2, <1>3, <1>5, CallFields, IdleCall DEF StoreTypeOK, EntryInv, AbsentInv, StaysUnsubscribed
<1>13. QED
  BY <1>6, <1>7, <1>8, <1>9, <1>10, <1>11, <1>12

(* UnsubscribeAll goes on to the next topic it found. *)
LEMMA KeepLeaveNext ==
  ASSUME StoreInv, NEW p \in Procs, LeaveNext(p)
  PROVE  StoreInv'
<1> USE StoreAssumption DEF StoreInv, In
<1>1. call \in [Procs -> CallsOn(made)] /\ call[p] \in CallsOn(made)
  BY DEF StoreTypeOK
<1>2. PICK t \in call[p].found :
      /\ \E rest : /\ rest = [call[p] EXCEPT !.found = @ \ {t}]
                   /\ call' = [call EXCEPT ![p] =
                        IF topics[t] # None
                        THEN [rest EXCEPT !.at = "unsubscribe", !.topic = t, !.entry = topics[t]]
                        ELSE IF rest.found = {} THEN Idle ELSE rest]
      /\ In(p, "leave") /\ made' = made
      /\ UNCHANGED <<begun, topics, subs, retained, published, offered, joins, absent>>
  BY DEF LeaveNext
<1>3. PICK rest :
      /\ rest = [call[p] EXCEPT !.found = @ \ {t}]
      /\ call' = [call EXCEPT ![p] =
           IF topics[t] # None
           THEN [rest EXCEPT !.at = "unsubscribe", !.topic = t, !.entry = topics[t]]
           ELSE IF rest.found = {} THEN Idle ELSE rest]
  BY <1>2
<1>4. /\ t \in Topics /\ rest \in CallsOn(made) /\ rest.at = "leave" /\ rest.conn = call[p].conn
      /\ rest.entry = call[p].entry /\ rest.topic = call[p].topic /\ rest.alone = call[p].alone
      /\ call[p].conn \in Clients
  BY <1>1, <1>2, <1>3 DEF CallsOn, CallInv
<1> DEFINE next == [rest EXCEPT !.at = "unsubscribe", !.topic = t, !.entry = topics[t]]
<1>5. ASSUME topics[t] # None
      PROVE  /\ next \in CallsOn(made) /\ next.at = "unsubscribe" /\ next.conn = call[p].conn
             /\ next.topic = t /\ next.entry = topics[t] /\ next.alone = call[p].alone
  BY <1>4, <1>5 DEF StoreTypeOK, CallsOn, Places
<1> HIDE DEF next
<1>6. PICK r \in CallsOn(made') :
      /\ call' = [call EXCEPT ![p] = r]
      /\ \/ r = Idle
         \/ /\ r.at = "leave" /\ r.conn = call[p].conn /\ r.entry = call[p].entry
            /\ r.topic = call[p].topic /\ r.alone = call[p].alone
         \/ /\ r.at = "unsubscribe" /\ r.conn = call[p].conn /\ r.topic = t /\ topics[t] # None
            /\ r.entry = topics[t] /\ r.alone = call[p].alone
  <2>1. CASE topics[t] # None
    BY <1>2, <1>3, <1>5, <2>1 DEF next
  <2>2. CASE topics[t] = None
    BY <1>2, <1>3, <1>4, <2>2, IdleCall
  <2>3. QED
    BY <2>1, <2>2
<1>7. /\ call' \in [Procs -> CallsOn(made')]
      /\ call'[p] = r /\ \A q \in Procs \ {p} : call'[q] = call[q]
  BY <1>1, <1>2, <1>6, OneCall
<1>8. StoreTypeOK'
  BY <1>1, <1>2, <1>4, <1>6, <1>7, CallFields, IdleCall DEF StoreTypeOK, CallInv
<1>9. CallInv'
  BY <1>1, <1>2, <1>4, <1>6, <1>7, CallFields, IdleCall DEF StoreTypeOK, CallInv
<1>10. MsgInv'
  BY <1>1, <1>2, <1>4, <1>6, <1>7, CallFields, IdleCall, SMTT(40) DEF StoreTypeOK, CallInv, MsgInv, Carries, Unseen
<1>11. EntryInv'
  BY <1>1, <1>2, <1>4, <1>6, <1>7, CallFields, IdleCall DEF StoreTypeOK, CallInv, EntryInv
<1>12. RetainedInv'
  BY <1>1, <1>2, <1>4, <1>6, <1>7, CallFields, IdleCall DEF StoreTypeOK, CallInv, RetainedInv
<1>13. AbsentInv'
  <2>1. \A u, v \in Procs : ~(call'[u].at = "subscribe" /\ call'[v].alone /\ call'[v].conn = call'[u].conn)
    BY <1>1, <1>2, <1>4, <1>6, <1>7, CallFields, IdleCall DEF AbsentInv
  <2>2. \A u \in Procs : call'[u].at = "subscribe" => <<call'[u].conn, call'[u].topic>> \notin absent'
    BY <1>1, <1>2, <1>4, <1>6, <1>7, CallFields, IdleCall DEF AbsentInv
  <2>3. ASSUME NEW u \in Procs, call'[u].at = "unsubscribe", call'[u].alone
        PROVE  topics'[call'[u].topic] \notin {None, call'[u].entry}
                 => call'[u].conn \notin subs'[topics'[call'[u].topic]]
    <3>1. CASE u = p
      BY <1>1, <1>2, <1>4, <1>6, <1>7, CallFields, IdleCall, <2>3, <3>1 DEF AbsentInv
    <3>2. CASE u # p
      BY <1>1, <1>2, <1>4, <1>6, <1>7, CallFields, IdleCall, <2>3, <3>2 DEF AbsentInv
    <3>3. QED
      BY <3>1, <3>2
  <2>4. QED
    BY <2>1, <2>2, <2>3 DEF AbsentInv
<1>14. StaysUnsubscribed'
  BY <1>1, <1>2, <1>4, <1>6, <1>7, CallFields, IdleCall DEF StoreTypeOK, EntryInv, AbsentInv, StaysUnsubscribed
<1>15. QED
  BY <1>8, <1>9, <1>10, <1>11, <1>12, <1>13, <1>14

(* Subscribe finds or makes the entry; calls of the connection that are    *)
(* under way are no longer alone.                                          *)
LEMMA KeepSubscribeEnter ==
  ASSUME StoreInv, NEW p \in Procs, NEW c \in Clients, NEW t \in Topics, SubscribeEnter(p, c, t)
  PROVE  StoreInv'
<1> USE StoreAssumption DEF StoreInv, In
<1>1. call \in [Procs -> CallsOn(made)] /\ call[p] \in CallsOn(made)
  BY DEF StoreTypeOK
<1>2. PICK e \in Entries :
      /\ FindOrMake(t, e)
      /\ call' = [q \in Procs |->
           IF q = p THEN [Idle EXCEPT !.at = "subscribe", !.conn = c, !.topic = t, !.entry = e]
           ELSE IF call[q].conn = c THEN [call[q] EXCEPT !.alone = FALSE]
           ELSE call[q]]
  BY DEF SubscribeEnter
<1>3. /\ In(p, "idle") /\ begun < MaxCalls /\ begun' = begun + 1
      /\ absent' = absent \ {<<c, t>>} /\ UNCHANGED <<subs, retained, published, offered, joins>>
  BY DEF SubscribeEnter, Begins
<1>4. FoundOrMade(t, e)
  BY <1>1, <1>2, FoundOrMadeEntry
<1> DEFINE mine == [Idle EXCEPT !.at = "subscribe", !.conn = c, !.topic = t, !.entry = e]
<1>5. /\ mine \in CallsOn(made') /\ mine.at = "subscribe" /\ mine.conn = c /\ mine.topic = t
      /\ mine.entry = e /\ mine.found = {} /\ mine.alone = FALSE
  BY <1>4 DEF FoundOrMade, CallsOn, Idle, Places
<1>6. call'[p] = mine
  BY <1>2
<1>7. ASSUME NEW q \in Procs \ {p}
      PROVE  /\ call'[q] \in CallsOn(made') /\ call'[q].at = call[q].at /\ call'[q].conn = call[q].conn
             /\ call'[q].topic = call[q].topic /\ call'[q].msg = call[q].msg
             /\ call'[q].entry = call[q].entry /\ call'[q].todo = call[q].todo
             /\ call'[q].found = call[q].found
             /\ call'[q].alone => call[q].alone /\ call[q].conn # c
  <2>1. call[q] \in CallsOn(made) /\ made \subseteq made'
    BY <1>1, <1>4 DEF FoundOrMade
  <2>2. CASE call[q].conn = c
    <3>1. call'[q] = [call[q] EXCEPT !.alone = FALSE]
      BY <1>2, <2>2
    <3>2. call[q] \in CallsOn(made')
      BY <2>1, MoreEntries
    <3>3. QED
      BY <3>1, <3>2 DEF CallsOn
  <2>3. CASE call[q].conn # c
    <3>1. call'[q] = call[q]
      BY <1>2, <2>3
    <3>2. QED
      BY <2>1, <2>3, <3>1, MoreEntries
  <2>4. QED
    BY <2>2, <2>3
<1>8. call' \in [Procs -> CallsOn(made')]
  <2>1. \A q \in Procs : call'[q] \in CallsOn(made')
    BY <1>5, <1>6, <1>7
  <2>2. DOMAIN call' = Procs /\ call' = [q \in Procs |-> call'[q]]
    BY <1>2
  <2>3. QED
    BY <2>1, <2>2
<1> HIDE DEF mine
<1>9. StoreTypeOK' /\ CallInv'
  <2>1. StoreTypeOK'
    <3>1. e # None /\ begun + 1 \in 0..MaxCalls /\ absent' \in SUBSET (Clients \X Topics)
      BY <1>3 DEF StoreTypeOK
    <3>2. \A q \in Procs : call'[q].at \notin {"idle", "collect", "leave"} => call'[q].entry # None
      BY <1>5, <1>6, <1>7, <3>1 DEF StoreTypeOK
    <3>3. QED
      BY <1>3, <1>4, <1>8, <3>1, <3>2 DEF StoreTypeOK, FoundOrMade
  <2>2. CallInv'
    BY <1>3, <1>5, <1>6, <1>7 DEF CallInv
  <2>3. QED
    BY <2>1, <2>2
<1>10. MsgInv'
  BY <1>3, <1>5, <1>6, <1>7 DEF MsgInv, Carries, Unseen
<1>11. EntryInv' /\ StaysUnsubscribed'
  BY <1>3, <1>4, <1>5, <1>6, <1>7, KeepEntry
<1>12. RetainedInv'
  BY <1>3, <1>5, <1>6, <1>7 DEF RetainedInv
<1>13. AbsentInv'
  <2>1. \A u, v \in Procs : ~(call'[u].at = "subscribe" /\ call'[v].alone /\ call'[v].conn = call'[u].conn)
    BY <1>5, <1>6, <1>7 DEF AbsentInv
  <2>2. \A u \in Procs : call'[u].at = "subscribe" => <<call'[u].conn, call'[u].topic>> \notin absent'
    BY <1>3, <1>5, <1>6, <1>7 DEF AbsentInv
  <2>3. ASSUME NEW u \in Procs, call'[u].at = "unsubscribe", call'[u].alone,
               topics'[call'[u].topic] \notin {None, call'[u].entry}
        PROVE  call'[u].conn \notin subs'[topics'[call'[u].topic]]
    <3>1. u # p /\ call[u].alone /\ call[u].at = "unsubscribe" /\ call[u].topic \in Topics
      BY <1>5, <1>6, <1>7, <2>3 DEF CallInv
    <3>2. QED
      BY <1>3, <1>7, <2>3, <3>1, KeepAbsent, <1>4
  <2>4. QED
    BY <2>1, <2>2, <2>3 DEF AbsentInv
<1>14. QED
  BY <1>9, <1>10, <1>11, <1>12, <1>13

(* PublishSticky finds or makes the entry. *)
LEMMA KeepStickyEnter ==
  ASSUME StoreInv, NEW p \in Procs, NEW t \in Topics, NEW m \in Msgs, StickyEnter(p, t, m)
  PROVE  StoreInv'
<1> USE StoreAssumption DEF StoreInv, In
<1>1. call \in [Procs -> CallsOn(made)] /\ call[p] \in CallsOn(made)
  BY DEF StoreTypeOK
<1>2. PICK e \in Entries :
      /\ FindOrMake(t, e)
      /\ call' = [call EXCEPT ![p] = [Idle EXCEPT !.at = "sticky", !.topic = t, !.msg = m, !.entry = e]]
  BY DEF StickyEnter
<1>3. /\ In(p, "idle") /\ begun < MaxCalls /\ begun' = begun + 1
      /\ m \notin published /\ published' = published \cup {m}
      /\ UNCHANGED <<subs, retained, offered, joins, absent>>
  BY DEF StickyEnter, Begins
<1>4. FoundOrMade(t, e)
  BY <1>1, <1>2, FoundOrMadeEntry
<1> DEFINE mine == [Idle EXCEPT !.at = "sticky", !.topic = t, !.msg = m, !.entry = e]
<1>5. /\ mine \in CallsOn(made') /\ mine.at = "sticky" /\ mine.conn = None /\ mine.topic = t
      /\ mine.entry = e /\ mine.found = {} /\ mine.alone = FALSE /\ mine.msg = m
  BY <1>4 DEF FoundOrMade, CallsOn, Idle, Places
<1>6. call' = [call EXCEPT ![p] = mine] /\ made \subseteq made'
  BY <1>2, <1>4 DEF FoundOrMade
<1> HIDE DEF mine
<1>7. /\ call' \in [Procs -> CallsOn(made')]
      /\ call'[p] = mine /\ \A q \in Procs \ {p} : call'[q] = call[q]
  BY <1>1, <1>5, <1>6, OneCall
<1>8. StoreTypeOK' /\ CallInv'
  <2>1. StoreTypeOK'
    <3>1. e # None /\ begun + 1 \in 0..MaxCalls
      BY <1>3 DEF StoreTypeOK
    <3>2. QED
      BY <1>3, <1>4, <1>5, <1>7, <3>1 DEF StoreTypeOK, FoundOrMade
  <2>2. CallInv'
    BY <1>3, <1>5, <1>7 DEF CallInv
  <2>3. QED
    BY <2>1, <2>2
<1>9. MsgInv'
  <2>1. \A q \in Procs : Carries(q) => call[q].msg # m
    BY <1>3 DEF CallInv, Carries
  <2>2. \A n \in Msgs : Unseen(n) => Unseen(n)'
    BY <1>3 DEF Unseen
  <2>3. Unseen(m)
    BY <1>3 DEF MsgInv
  <2>4. \A q \in Procs : Carries(q) => call[q].msg \in Msgs
    BY DEF CallInv, StoreTypeOK, Carries
  <2>5. QED
    BY <1>3, <1>5, <1>7, <2>1, <2>2, <2>3, <2>4 DEF MsgInv, Carries
<1>10. EntryInv' /\ StaysUnsubscribed'
  BY <1>3, <1>4, <1>5, <1>7, KeepEntry
<1>11. RetainedInv'
  BY <1>3, <1>5, <1>7 DEF RetainedInv
<1>12. AbsentInv'
  <2>1. ASSUME NEW u \in Procs, call'[u].at = "unsubscribe", call'[u].alone,
               topics'[call'[u].topic] \notin {None, call'[u].entry}
        PROVE  call'[u].conn \notin subs'[topics'[call'[u].topic]]
    <3>1. u # p /\ call'[u] = call[u] /\ call[u].topic \in Topics
      BY <1>5, <1>7, <2>1 DEF CallInv
    <3>2. QED
      BY <1>3, <1>4, <2>1, <3>1, KeepAbsent
  <2>2. QED
    BY <1>3, <1>5, <1>7, <2>1 DEF AbsentInv
<1>13. QED
  BY <1>8, <1>9, <1>10, <1>11, <1>12

-----------------------------------------------------------------------------
(* The theorems *)

(* The store keeps its inductive invariant. *)
THEOREM StoreInductive == StoreSpec => []StoreInv
<1>1. StoreInit => StoreInv
  <2> SUFFICES ASSUME StoreInit PROVE StoreInv
    OBVIOUS
  <2>1. Idle \in CallsOn(made) /\ Idle.at = "idle" /\ Idle.found = {}
    BY DEF CallsOn, Idle, Places
  <2>2. call \in [Procs -> CallsOn(made)] /\ \A p \in Procs : call[p] = Idle
    BY <2>1 DEF StoreInit
  <2>3. StoreTypeOK
    BY <2>1, <2>2, StoreAssumption DEF StoreInit, StoreTypeOK
  <2>4. CallInv /\ MsgInv /\ EntryInv /\ RetainedInv /\ AbsentInv /\ StaysUnsubscribed
    BY <2>1, <2>2, StoreAssumption
      DEF StoreInit, CallInv, MsgInv, EntryInv, RetainedInv, AbsentInv, StaysUnsubscribed,
          Carries, Unseen, In
  <2>5. QED
    BY <2>3, <2>4 DEF StoreInv
<1>2. StoreInv /\ [StoreNext \/ StoreQuiet]_storeVars => StoreInv'
  <2> SUFFICES ASSUME StoreInv, [StoreNext \/ StoreQuiet]_storeVars
               PROVE  StoreInv'
    OBVIOUS
  <2>1. CASE UNCHANGED storeVars
    BY <2>1
      DEF storeVars, StoreInv, StoreTypeOK, CallInv, MsgInv, EntryInv, RetainedInv, AbsentInv,
          StaysUnsubscribed, Carries, Unseen, In, CallsOn
  <2>2. ASSUME NEW p \in Procs, NEW c \in Clients, NEW t \in Topics,
               SubscribeEnter(p, c, t) \/ UnsubscribeEnter(p, c, t)
        PROVE  StoreInv'
    BY <2>2, KeepSubscribeEnter, KeepUnsubscribeEnter
  <2>3. ASSUME NEW p \in Procs,
               SubscribeJoin(p) \/ UnsubscribeRemove(p) \/ Recheck(p) \/ CollectOne(p)
                 \/ CollectEnd(p) \/ LeaveNext(p) \/ ClearRetained(p) \/ PublishSnapshot(p)
                 \/ StickySnapshot(p) \/ Deliver(p)
        PROVE  StoreInv'
    BY <2>3, KeepSubscribeJoin, KeepUnsubscribeRemove, KeepRecheck, KeepCollectOne, KeepCollectEnd,
       KeepLeaveNext, KeepClearRetained, KeepPublishSnapshot, KeepStickySnapshot, KeepDeliver
  <2>4. ASSUME NEW p \in Procs, NEW c \in Clients, CollectBegin(p, c)
        PROVE  StoreInv'
    BY <2>4, KeepCollectBegin
  <2>5. ASSUME NEW p \in Procs, NEW t \in Topics, ClearEnter(p, t)
        PROVE  StoreInv'
    BY <2>5, KeepClearEnter
  <2>6. ASSUME NEW p \in Procs, NEW t \in Topics, NEW m \in Msgs,
               PublishEnter(p, t, m) \/ StickyEnter(p, t, m)
        PROVE  StoreInv'
    BY <2>6, KeepPublishEnter, KeepStickyEnter
  <2>7. QED
    BY <2>1, <2>2, <2>3, <2>4, <2>5, <2>6 DEF StoreNext, StoreQuiet
<1>3. QED
  BY <1>1, <1>2, PTL DEF StoreSpec

(* Every variable stays in its domain, and a call that works on an entry   *)
(* has one.                                                                *)
THEOREM StoreTypeCorrect == StoreSpec => []StoreTypeOK
<1>1. StoreInv => StoreTypeOK
  BY DEF StoreInv
<1>2. QED
  BY <1>1, StoreInductive, PTL

(* A sticky message reaches every subscriber of its entry, and nothing     *)
(* reaches one more often than it subscribed.                              *)
THEOREM StickyReaches == StoreSpec => []StickyReachesAll
<1>1. StoreInv => StickyReachesAll
  BY DEF StoreInv, RetainedInv, MsgInv, StickyReachesAll
<1>2. QED
  BY <1>1, StoreInductive, PTL

(* Who has left a topic is not among the subscribers of whatever entry     *)
(* stands for it.                                                          *)
THEOREM Unsubscribed == StoreSpec => []StaysUnsubscribed
<1>1. StoreInv => StaysUnsubscribed
  BY DEF StoreInv
<1>2. QED
  BY <1>1, StoreInductive, PTL

-----------------------------------------------------------------------------
(* The dispatch loop *)

(* How many messages of a connection the reader is done with. *)
Seen(c) == arrived[c] - Len(inbox[c]) - (IF rmsg[c] = None THEN 0 ELSE 1)

(* What the flusher hands on, in the order it does. *)
Kept(c) == flushed[c] \o pending[c] \o buffer[c]

(* The subscription holds the last numbers, the reader the one before      *)
(* them; the others are handled or kept, and kept in their order.          *)
Placed(c) ==
  /\ \A i \in DOMAIN inbox[c] : inbox[c][i] = arrived[c] - Len(inbox[c]) + i
  /\ rmsg[c] # None => rmsg[c] = arrived[c] - Len(inbox[c])
  /\ Seen(c) >= 0
  /\ ToSet(handled[c]) \cup ToSet(pending[c]) \cup ToSet(buffer[c]) = 1..Seen(c)
  /\ ToSet(handled[c]) \cap (ToSet(pending[c]) \cup ToSet(buffer[c])) = {}
  /\ ToSet(flushed[c]) \subseteq ToSet(handled[c])
  /\ IsInjective(handled[c])
  /\ Increasing(Kept(c))
  /\ pending[c] # <<>> <=> fpc[c] = "handle"

PlaceInv == \A c \in Conns : Placed(c)

(* While paused, a goroutine that is about to let messages through was on  *)
(* its way when the pause began, and has let none through since.           *)
PauseInv ==
  paused => \A c \in Conns :
    /\ rleak[c] <= (IF rpc[c] = "handle" THEN 0 ELSE 1)
    /\ fleak[c] <= (IF fpc[c] = "flush" THEN 0 ELSE 1)

DispatchInv == TypeOK /\ PlaceInv /\ PauseInv

-----------------------------------------------------------------------------
(* Type correctness *)

(* Every step keeps the type invariant. *)
LEMMA StepType == TypeOK /\ PlaceInv /\ [Next]_vars => TypeOK'
<1> SUFFICES ASSUME TypeOK, PlaceInv, [Next]_vars PROVE TypeOK'
  OBVIOUS
<1> USE DispatchAssumption DEF TypeOK, gate, lock, source, reader, flusher
<1>1. ASSUME NEW a \in Admins, Pause(a)
      PROVE  TypeOK'
  <2>1. pauses + 1 \in 0..MaxPauses
    BY <1>1 DEF Pause
  <2>2. rleak' \in [Conns -> Nat] /\ fleak' \in [Conns -> Nat]
    <3>1. CASE paused
      BY <1>1, <3>1 DEF Pause
    <3>2. CASE ~paused
      BY <1>1, <3>2, SMTT(40) DEF Pause
    <3>3. QED
      BY <3>1, <3>2
  <2>3. QED
    BY <1>1, <2>1, <2>2 DEF Pause
<1>2. ASSUME NEW a \in Admins, ResumeStore(a)
      PROVE  TypeOK'
  BY <1>2 DEF ResumeStore
<1>3. ASSUME NEW a \in Admins, ResumeBroadcast(a)
      PROVE  TypeOK'
  BY <1>3 DEF ResumeBroadcast
<1>4. ASSUME NEW c \in Conns, Arrive(c)
      PROVE  TypeOK'
  <2>1. Append(inbox[c], arrived[c] + 1) \in Seq(Nat)
    BY AppendProperties, SMTT(40)
  <2>2. inbox' \in [Conns -> Seq(Nat)]
    BY <1>4, <2>1 DEF Arrive
  <2>3. arrived' \in [Conns -> Nat]
    <3>1. arrived[c] \in Nat
      OBVIOUS
    <3>2. arrived[c] + 1 \in Nat
      BY ONLY <3>1
    <3>3. arrived' = [arrived EXCEPT ![c] = arrived[c] + 1]
      BY <1>4, Zenon DEF Arrive
    <3>4. QED
      BY <3>2, <3>3, Zenon
  <2>4. QED
    BY <1>4, <2>2, <2>3 DEF Arrive
<1>5. ASSUME NEW c \in Conns, Close(c)
      PROVE  TypeOK'
  BY <1>5 DEF Close
<1>6. ASSUME NEW c \in Conns, HangUp(c)
      PROVE  TypeOK'
  BY <1>6 DEF HangUp
<1>7. ASSUME NEW c \in Conns, ReaderTake(c)
      PROVE  TypeOK'
  <2>1. Head(inbox[c]) \in Nat /\ Tail(inbox[c]) \in Seq(Nat)
    BY <1>7, HeadConcatTail DEF ReaderTake
  <2>2. inbox' \in [Conns -> Seq(Nat)] /\ rmsg' \in [Conns -> Nat \cup {None}]
    BY <1>7, <2>1 DEF ReaderTake
  <2>3. QED
    BY <1>7, <2>1, <2>2, ZenonT(40) DEF ReaderTake
<1>8. ASSUME NEW c \in Conns, ReaderExit(c)
      PROVE  TypeOK'
  BY <1>8 DEF ReaderExit
<1>9. ASSUME NEW c \in Conns, addToBuffer(c)
      PROVE  TypeOK'
  <2>1. rmsg[c] \in Nat
    BY <1>9 DEF addToBuffer
  <2>2. Append(buffer[c], rmsg[c]) \in Seq(Nat)
    BY <2>1, AppendProperties
  <2>3. buffer' \in [Conns -> Seq(Nat)]
    BY <1>9, <2>2 DEF addToBuffer
  <2>4. QED
    BY <1>9, <2>1, <2>2, <2>3 DEF addToBuffer
<1>10. ASSUME NEW c \in Conns, ReaderHandle(c)
      PROVE  TypeOK'
  <2>1. rmsg[c] \in Nat
    BY <1>10 DEF ReaderHandle
  <2>2. Append(handled[c], rmsg[c]) \in Seq(Nat)
    BY <2>1, AppendProperties
  <2>3. handled' \in [Conns -> Seq(Nat)]
    BY <1>10, <2>2 DEF ReaderHandle
  <2>4. rleak' \in [Conns -> Nat]
    <3>1. CASE paused
      <4>1. rleak[c] \in Nat
        OBVIOUS
      <4>2. rleak[c] + 1 \in Nat
        BY ONLY <4>1
      <4>3. rleak' = [rleak EXCEPT ![c] = rleak[c] + 1]
        BY <1>10, <3>1, Zenon DEF ReaderHandle
      <4>4. QED
        BY <4>2, <4>3, Zenon
    <3>2. CASE ~paused
      BY <1>10, <3>2 DEF ReaderHandle
    <3>3. QED
      BY <3>1, <3>2
  <2>5. QED
    BY <1>10, <2>3, <2>4, ZenonT(40) DEF ReaderHandle
<1>11. ASSUME NEW c \in Conns, FastPath(c)
      PROVE  TypeOK'
  BY <1>11, SMTT(40) DEF FastPath, FlusherMove
<1>12. ASSUME NEW c \in Conns, SlowPath(c)
      PROVE  TypeOK'
  BY <1>12 DEF SlowPath, FlusherMove
<1>13. ASSUME NEW c \in Conns, FlusherExit(c)
      PROVE  TypeOK'
  BY <1>13 DEF FlusherExit, FlusherMove
<1>14. ASSUME NEW c \in Conns, SeesPaused(c)
      PROVE  TypeOK'
  BY <1>14, SMTT(40) DEF SeesPaused, FlusherMove, CanLock
<1>15. ASSUME NEW c \in Conns, SeesResumed(c)
      PROVE  TypeOK'
  BY <1>15, ZenonT(40) DEF SeesResumed, FlusherMove, CanLock
<1>16. ASSUME NEW c \in Conns, Park(c)
      PROVE  TypeOK'
  BY <1>16, SMTT(40) DEF Park, FlusherMove
<1>17. ASSUME NEW c \in Conns, flushBuffer(c)
      PROVE  TypeOK'
  <2>1. pending' \in [Conns -> Seq(Nat)] /\ buffer' \in [Conns -> Seq(Nat)]
    BY <1>17, EmptySeq DEF flushBuffer
  <2>2. fleak' \in [Conns -> Nat]
    <3>1. CASE paused /\ buffer[c] # <<>>
      <4>1. fleak[c] \in Nat
        OBVIOUS
      <4>2. fleak[c] + 1 \in Nat
        BY ONLY <4>1
      <4>3. fleak' = [fleak EXCEPT ![c] = fleak[c] + 1]
        BY <1>17, <3>1, Zenon DEF flushBuffer
      <4>4. QED
        BY <4>2, <4>3, Zenon
    <3>2. CASE ~(paused /\ buffer[c] # <<>>)
      BY <1>17, <3>2 DEF flushBuffer
    <3>3. QED
      BY <3>1, <3>2
  <2>3. QED
    BY <1>17, <2>1, <2>2, ZenonT(40) DEF flushBuffer
<1>18. ASSUME NEW c \in Conns, FlusherHandle(c)
      PROVE  TypeOK'
  <2>1. Head(pending[c]) \in Nat /\ Tail(pending[c]) \in Seq(Nat)
    BY <1>18, HeadConcatTail DEF FlusherHandle, PlaceInv, Placed
  <2>2. /\ Append(handled[c], Head(pending[c])) \in Seq(Nat)
        /\ Append(flushed[c], Head(pending[c])) \in Seq(Nat)
    BY <2>1, AppendProperties
  <2>3. /\ handled' \in [Conns -> Seq(Nat)] /\ flushed' \in [Conns -> Seq(Nat)]
        /\ pending' \in [Conns -> Seq(Nat)]
    BY <1>18, <2>1, <2>2 DEF FlusherHandle
  <2>4. QED
    BY <1>18, <2>1, <2>2, <2>3, ZenonT(40) DEF FlusherHandle
<1>19. CASE UNCHANGED vars
  BY <1>19 DEF vars
<1>20. QED
  BY <1>1, <1>2, <1>3, <1>4, <1>5, <1>6, <1>7, <1>8, <1>9, <1>10, <1>11, <1>12, <1>13, <1>14, <1>15, <1>16, <1>17, <1>18, <1>19
    DEF Next, Reader, Flusher, Quiet

-----------------------------------------------------------------------------
(* Where the messages are *)

(* What is at one connection only changes with that connection's steps. *)
LEMMA PlacedSame ==
  ASSUME NEW c \in Conns, Placed(c),
         arrived'[c] = arrived[c], inbox'[c] = inbox[c], rmsg'[c] = rmsg[c],
         handled'[c] = handled[c], pending'[c] = pending[c],
         buffer'[c] = buffer[c], flushed'[c] = flushed[c],
         fpc'[c] = "handle" <=> fpc[c] = "handle"
  PROVE  Placed(c)'
BY DEF Placed, Seen, Kept

(* A message is numbered after all the others. *)
LEMMA PlacedArrive ==
  ASSUME TypeOK, PlaceInv, NEW c \in Conns, Arrive(c)
  PROVE  PlaceInv'
<1>1. /\ arrived[c] \in Nat /\ inbox[c] \in Seq(Nat) /\ Len(inbox[c]) \in Nat
      /\ arrived'[c] = arrived[c] + 1 /\ inbox'[c] = Append(inbox[c], arrived[c] + 1)
      /\ \A d \in Conns \ {c} : arrived'[d] = arrived[d] /\ inbox'[d] = inbox[d]
      /\ UNCHANGED <<rmsg, handled, pending, buffer, flushed, fpc>>
  BY LenProperties DEF TypeOK, Arrive, flusher
<1>2. /\ Len(inbox'[c]) = Len(inbox[c]) + 1 /\ DOMAIN inbox'[c] = 1..Len(inbox[c]) + 1
      /\ inbox'[c][Len(inbox[c]) + 1] = arrived[c] + 1
      /\ \A i \in 1..Len(inbox[c]) : inbox'[c][i] = inbox[c][i]
      /\ DOMAIN inbox[c] = 1..Len(inbox[c])
  BY <1>1, AppendProperties, LenProperties
<1>3. Placed(c)
  BY DEF PlaceInv
<1>4. rmsg[c] \in Nat \cup {None}
  BY DEF TypeOK
<1>5. ASSUME NEW i \in DOMAIN inbox'[c]
      PROVE  inbox'[c][i] = arrived'[c] - Len(inbox'[c]) + i
  <2>1. arrived'[c] - Len(inbox'[c]) = arrived[c] - Len(inbox[c])
    <3>1. arrived[c] \in Nat /\ Len(inbox[c]) \in Nat
      BY <1>1
    <3>2. arrived'[c] = arrived[c] + 1 /\ Len(inbox'[c]) = Len(inbox[c]) + 1
      BY <1>1, <1>2
    <3>3. QED
      BY ONLY <3>1, <3>2, SMTT(40)
  <2>2. CASE i \in 1..Len(inbox[c])
    BY <1>2, <1>3, <2>1, <2>2 DEF Placed
  <2>3. CASE i = Len(inbox[c]) + 1
    BY <1>1, <1>2, <2>1, <2>3
  <2>4. QED
    BY <1>1, <1>2, <2>2, <2>3
<1>6. Seen(c)' = Seen(c) /\ (rmsg'[c] # None => rmsg'[c] = arrived'[c] - Len(inbox'[c]))
  BY <1>1, <1>2, <1>3, <1>4, SMTT(40) DEF Placed, Seen
<1>7. Placed(c)'
  BY <1>1, <1>3, <1>5, <1>6 DEF Placed, Kept
<1>8. ASSUME NEW d \in Conns \ {c}
      PROVE  Placed(d)'
  BY <1>1, <1>8, PlacedSame DEF PlaceInv
<1>9. QED
  BY <1>7, <1>8 DEF PlaceInv

(* The reader takes the lowest number of the subscription. *)
LEMMA PlacedReaderTake ==
  ASSUME TypeOK, PlaceInv, NEW c \in Conns, ReaderTake(c)
  PROVE  PlaceInv'
<1>1. /\ arrived[c] \in Nat /\ inbox[c] \in Seq(Nat) /\ inbox[c] # <<>> /\ rmsg[c] = None
      /\ rmsg'[c] = Head(inbox[c]) /\ inbox'[c] = Tail(inbox[c])
      /\ \A d \in Conns \ {c} : rmsg'[d] = rmsg[d] /\ inbox'[d] = inbox[d]
      /\ UNCHANGED <<arrived, handled, pending, buffer, flushed, fpc>>
  BY DEF TypeOK, ReaderTake, flusher, source
<1>2. /\ Len(inbox[c]) \in Nat \ {0} /\ Head(inbox[c]) = inbox[c][1] /\ Head(inbox[c]) \in Nat
      /\ Len(inbox'[c]) = Len(inbox[c]) - 1 /\ DOMAIN inbox'[c] = 1..Len(inbox[c]) - 1
      /\ \A i \in DOMAIN inbox'[c] : inbox'[c][i] = inbox[c][i + 1]
      /\ DOMAIN inbox[c] = 1..Len(inbox[c])
  BY <1>1, HeadTailProperties, LenProperties, EmptySeq
<1>3. Placed(c)
  BY DEF PlaceInv
<1>4. \A i \in DOMAIN inbox[c] : inbox[c][i] = arrived[c] - Len(inbox[c]) + i
  BY <1>3 DEF Placed
<1>5. ASSUME NEW i \in DOMAIN inbox'[c]
      PROVE  inbox'[c][i] = arrived'[c] - Len(inbox'[c]) + i
  <2>1. i \in Nat /\ i + 1 \in DOMAIN inbox[c] /\ inbox'[c][i] = inbox[c][i + 1]
    BY <1>2
  <2>2. inbox[c][i + 1] = arrived[c] - Len(inbox[c]) + (i + 1)
    BY <1>4, <2>1
  <2>3. arrived[c] \in Nat /\ Len(inbox[c]) \in Nat
    BY <1>1, <1>2
  <2>4. arrived'[c] = arrived[c] /\ Len(inbox'[c]) = Len(inbox[c]) - 1
    BY <1>1, <1>2
  <2>5. QED
    BY ONLY <2>1, <2>2, <2>3, <2>4, SMTT(40)
<1>6. rmsg'[c] = arrived'[c] - Len(inbox'[c])
  <2>1. 1 \in DOMAIN inbox[c]
    BY <1>2
  <2>2. inbox[c][1] = arrived[c] - Len(inbox[c]) + 1
    BY <1>4, <2>1
  <2>3. QED
    BY <1>1, <1>2, <2>2
<1>7. rmsg'[c] # None
  BY <1>1, <1>2, DispatchAssumption
<1>8. Seen(c)' = Seen(c)
  BY <1>1, <1>2, <1>7 DEF Seen
<1>9. Placed(c)'
  BY <1>1, <1>3, <1>5, <1>6, <1>8 DEF Placed, Kept
<1>10. ASSUME NEW d \in Conns \ {c}
       PROVE  Placed(d)'
  BY <1>1, <1>10, PlacedSame DEF PlaceInv
<1>11. QED
  BY <1>9, <1>10 DEF PlaceInv

(* The message the reader holds comes next after all it is done with. *)
LEMMA HeldIsNext ==
  ASSUME TypeOK, PlaceInv, NEW c \in Conns, rmsg[c] # None
  PROVE  /\ rmsg[c] = Seen(c) + 1 /\ rmsg[c] \in Nat
         /\ Seen(c) \in Nat /\ 1..Seen(c) \cup {rmsg[c]} = 1..Seen(c) + 1
         /\ rmsg[c] \notin 1..Seen(c)
<1>1. arrived[c] \in Nat /\ Len(inbox[c]) \in Nat /\ rmsg[c] \in Nat
  BY LenProperties DEF TypeOK
<1>2. rmsg[c] = Seen(c) + 1 /\ Seen(c) \in Nat
  BY <1>1 DEF PlaceInv, Placed, Seen
<1>3. QED
  BY <1>1, <1>2

(* The buffer takes a message that comes after all that is kept. *)
LEMMA PlacedAddToBuffer ==
  ASSUME TypeOK, PlaceInv, NEW c \in Conns, addToBuffer(c)
  PROVE  PlaceInv'
<1> DEFINE m == rmsg[c]
<1>1. /\ buffer[c] \in Seq(Nat) /\ pending[c] \in Seq(Nat) /\ flushed[c] \in Seq(Nat)
      /\ handled[c] \in Seq(Nat) /\ rmsg[c] # None
      /\ rmsg'[c] = None /\ buffer'[c] = Append(buffer[c], m)
      /\ \A d \in Conns \ {c} : rmsg'[d] = rmsg[d] /\ buffer'[d] = buffer[d]
      /\ UNCHANGED <<arrived, inbox, handled, pending, flushed, fpc>>
  BY DEF TypeOK, addToBuffer, flusher, source
<1>2. /\ m = Seen(c) + 1 /\ m \in Nat /\ Seen(c) \in Nat
      /\ 1..Seen(c) \cup {m} = 1..Seen(c) + 1 /\ m \notin 1..Seen(c)
  BY <1>1, HeldIsNext
<1>3. Placed(c)
  BY DEF PlaceInv
<1>4. arrived[c] \in Nat /\ Len(inbox[c]) \in Nat
  BY LenProperties DEF TypeOK
<1>5. Seen(c)' = Seen(c) + 1
  BY <1>1, <1>4 DEF Seen
<1> HIDE DEF m
<1>6. ToSet(buffer'[c]) = ToSet(buffer[c]) \cup {m}
  <2>1. buffer[c] \in Seq(Nat) /\ m \in Nat
    BY <1>1, <1>2
  <2>2. ToSet(Append(buffer[c], m)) = ToSet(buffer[c]) \cup {m}
    BY ONLY <2>1, ToSetAppend
  <2>3. QED
    BY <1>1, <2>2
<1>7. Increasing(Kept(c)')
  <2> DEFINE front == flushed[c] \o pending[c]
  <2>1. front \in Seq(Nat) /\ Kept(c) = front \o buffer[c] /\ Kept(c) \in Seq(Nat)
    BY <1>1, ConcatProperties DEF Kept
  <2>2. Kept(c)' = front \o Append(buffer[c], m)
    BY <1>1 DEF Kept
  <2> HIDE DEF front
  <2>3. Kept(c)' = Append(Kept(c), m)
    <3>1. buffer[c] \in Seq(Nat) /\ m \in Nat
      BY <1>1, <1>2
    <3>2. front \o Append(buffer[c], m) = Append(front \o buffer[c], m)
      BY ONLY <2>1, <3>1, AppendConcat, SMTT(40)
    <3>3. QED
      BY <2>1, <2>2, <3>2
  <2>4. ToSet(Kept(c)) = ToSet(flushed[c]) \cup ToSet(pending[c]) \cup ToSet(buffer[c])
    <3>1. ToSet(Kept(c)) = ToSet(front) \cup ToSet(buffer[c])
      BY <1>1, <2>1, ToSetConcat
    <3>2. ToSet(front) = ToSet(flushed[c]) \cup ToSet(pending[c])
      BY <1>1, ToSetConcat DEF front
    <3>3. QED
      BY <3>1, <3>2
  <2>5. ToSet(Kept(c)) \subseteq 1..Seen(c)
    BY <1>3, <2>4 DEF Placed
  <2>6. \A n \in ToSet(Kept(c)) : n < m
    BY <1>2, <2>5
  <2>7. Increasing(Kept(c))
    BY <1>3 DEF Placed
  <2>8. QED
    BY <1>2, <2>1, <2>3, <2>6, <2>7, IncreasingAppend
<1>8. Placed(c)'
  <2>1. /\ ToSet(handled[c]) \cup ToSet(pending[c]) \cup ToSet(buffer[c]) = 1..Seen(c)
        /\ ToSet(handled[c]) \cap (ToSet(pending[c]) \cup ToSet(buffer[c])) = {}
        /\ \A i \in DOMAIN inbox[c] : inbox[c][i] = arrived[c] - Len(inbox[c]) + i
        /\ ToSet(flushed[c]) \subseteq ToSet(handled[c]) /\ IsInjective(handled[c])
        /\ pending[c] # <<>> <=> fpc[c] = "handle"
    BY <1>3 DEF Placed
  <2>2. m \notin ToSet(handled[c])
    BY <1>2, <2>1
  <2>3. /\ ToSet(handled[c])' \cup ToSet(pending[c])' \cup ToSet(buffer[c])' = 1..Seen(c)'
        /\ ToSet(handled[c])' \cap (ToSet(pending[c])' \cup ToSet(buffer[c])') = {}
    BY <1>1, <1>2, <1>5, <1>6, <2>1, <2>2
  <2>4. Seen(c)' >= 0
    BY <1>2, <1>5
  <2>5. /\ \A i \in DOMAIN inbox'[c] : inbox'[c][i] = arrived'[c] - Len(inbox'[c]) + i
        /\ ToSet(flushed[c])' \subseteq ToSet(handled[c])' /\ IsInjective(handled[c])'
        /\ pending'[c] # <<>> <=> fpc'[c] = "handle"
    BY <1>1, <2>1
  <2>6. QED
    BY <1>1, <1>7, <2>3, <2>4, <2>5 DEF Placed
<1>9. ASSUME NEW d \in Conns \ {c}
      PROVE  Placed(d)'
  BY <1>1, <1>9, PlacedSame DEF PlaceInv
<1>10. QED
  BY <1>8, <1>9 DEF PlaceInv

(* The reader handles a message nobody has handled or keeps. *)
LEMMA PlacedReaderHandle ==
  ASSUME TypeOK, PlaceInv, NEW c \in Conns, ReaderHandle(c)
  PROVE  PlaceInv'
<1> DEFINE m == rmsg[c]
<1>1. /\ handled[c] \in Seq(Nat) /\ rmsg[c] # None
      /\ rmsg'[c] = None /\ handled'[c] = Append(handled[c], m)
      /\ \A d \in Conns \ {c} : rmsg'[d] = rmsg[d] /\ handled'[d] = handled[d]
      /\ UNCHANGED <<arrived, inbox, buffer, pending, flushed, fpc>>
  BY DEF TypeOK, ReaderHandle, flusher, source
<1>2. /\ m = Seen(c) + 1 /\ m \in Nat /\ Seen(c) \in Nat
      /\ 1..Seen(c) \cup {m} = 1..Seen(c) + 1 /\ m \notin 1..Seen(c)
  BY <1>1, HeldIsNext
<1>3. /\ ToSet(handled[c]) \cup ToSet(pending[c]) \cup ToSet(buffer[c]) = 1..Seen(c)
      /\ ToSet(handled[c]) \cap (ToSet(pending[c]) \cup ToSet(buffer[c])) = {}
      /\ \A i \in DOMAIN inbox[c] : inbox[c][i] = arrived[c] - Len(inbox[c]) + i
      /\ ToSet(flushed[c]) \subseteq ToSet(handled[c]) /\ IsInjective(handled[c])
      /\ Increasing(Kept(c)) /\ (pending[c] # <<>> <=> fpc[c] = "handle")
  BY DEF PlaceInv, Placed
<1>4. arrived[c] \in Nat /\ Len(inbox[c]) \in Nat
  BY LenProperties DEF TypeOK
<1>5. Seen(c)' = Seen(c) + 1
  BY <1>1, <1>4 DEF Seen
<1> HIDE DEF m
<1>6. m \notin ToSet(handled[c])
  BY <1>2, <1>3
<1>7. ToSet(handled'[c]) = ToSet(handled[c]) \cup {m} /\ IsInjective(handled'[c])
  <2>1. handled[c] \in Seq(Nat) /\ m \in Nat /\ IsInjective(handled[c]) /\ m \notin ToSet(handled[c])
    BY <1>1, <1>2, <1>3, <1>6
  <2>2. ToSet(Append(handled[c], m)) = ToSet(handled[c]) \cup {m}
    BY ONLY <2>1, ToSetAppend
  <2>3. IsInjective(Append(handled[c], m))
    BY ONLY <2>1, InjectiveAppend
  <2>4. QED
    BY <1>1, <2>2, <2>3
<1>8. /\ ToSet(handled'[c]) \cup ToSet(pending'[c]) \cup ToSet(buffer'[c]) = 1..Seen(c)'
      /\ ToSet(handled'[c]) \cap (ToSet(pending'[c]) \cup ToSet(buffer'[c])) = {}
  BY <1>1, <1>2, <1>3, <1>5, <1>7
<1>9. Seen(c)' >= 0
  BY <1>2, <1>5
<1>10. /\ \A i \in DOMAIN inbox'[c] : inbox'[c][i] = arrived'[c] - Len(inbox'[c]) + i
       /\ ToSet(flushed'[c]) \subseteq ToSet(handled'[c])
       /\ pending'[c] # <<>> <=> fpc'[c] = "handle"
  BY <1>1, <1>3, <1>7
<1>11. Increasing(Kept(c)')
  BY <1>1, <1>3 DEF Kept
<1>12. Placed(c)'
  BY <1>1, <1>7, <1>8, <1>9, <1>10, <1>11 DEF Placed
<1>13. ASSUME NEW d \in Conns \ {c}
       PROVE  Placed(d)'
  BY <1>1, <1>13, PlacedSame DEF PlaceInv
<1>14. QED
  BY <1>12, <1>13 DEF PlaceInv

(* The flusher, with nothing in hand, takes the whole buffer. *)
LEMMA PlacedFlushBuffer ==
  ASSUME TypeOK, PlaceInv, NEW c \in Conns, flushBuffer(c)
  PROVE  PlaceInv'
<1>1. /\ buffer[c] \in Seq(Nat) /\ flushed[c] \in Seq(Nat) /\ fpc[c] = "flush"
      /\ pending'[c] = buffer[c] /\ buffer'[c] = <<>>
      /\ fpc'[c] = IF buffer[c] = <<>> THEN "top" ELSE "handle"
      /\ \A d \in Conns \ {c} : /\ pending'[d] = pending[d] /\ buffer'[d] = buffer[d]
                                /\ fpc'[d] = fpc[d]
      /\ UNCHANGED <<arrived, inbox, rmsg, handled, flushed>>
  BY DEF TypeOK, flushBuffer, reader, source
<1>2. Placed(c)
  BY DEF PlaceInv
<1>3. pending[c] = <<>>
  BY <1>1, <1>2 DEF Placed
<1>4. ToSet(<<>>) = {}
  BY DEF ToSet
<1>5. Kept(c)' = Kept(c)
  <2>1. Kept(c) = (flushed[c] \o <<>>) \o buffer[c]
    BY <1>3 DEF Kept
  <2>2. Kept(c)' = (flushed[c] \o buffer[c]) \o <<>>
    BY <1>1 DEF Kept
  <2>3. flushed[c] \o buffer[c] \in Seq(Nat)
    BY <1>1, ConcatProperties
  <2>4. flushed[c] \o <<>> = flushed[c]
    BY ONLY <1>1, ConcatEmptySeq
  <2>5. (flushed[c] \o buffer[c]) \o <<>> = flushed[c] \o buffer[c]
    BY ONLY <2>3, ConcatEmptySeq
  <2>6. QED
    BY <2>1, <2>2, <2>4, <2>5
<1>6. Seen(c)' = Seen(c)
  BY <1>1 DEF Seen
<1>7. /\ ToSet(handled'[c]) \cup ToSet(pending'[c]) \cup ToSet(buffer'[c]) = 1..Seen(c)'
      /\ ToSet(handled'[c]) \cap (ToSet(pending'[c]) \cup ToSet(buffer'[c])) = {}
  BY <1>1, <1>2, <1>3, <1>4, <1>6 DEF Placed
<1>8. pending'[c] # <<>> <=> fpc'[c] = "handle"
  BY <1>1
<1>9. Increasing(Kept(c)')
  BY <1>2, <1>5 DEF Placed
<1>10. /\ \A i \in DOMAIN inbox'[c] : inbox'[c][i] = arrived'[c] - Len(inbox'[c]) + i
       /\ rmsg'[c] # None => rmsg'[c] = arrived'[c] - Len(inbox'[c])
       /\ Seen(c)' >= 0 /\ IsInjective(handled'[c])
       /\ ToSet(flushed'[c]) \subseteq ToSet(handled'[c])
  BY <1>1, <1>2, <1>6 DEF Placed
<1>11. Placed(c)'
  BY <1>7, <1>8, <1>9, <1>10 DEF Placed
<1>12. ASSUME NEW d \in Conns \ {c}
       PROVE  Placed(d)'
  BY <1>1, <1>12, PlacedSame DEF PlaceInv
<1>13. QED
  BY <1>11, <1>12 DEF PlaceInv

(* The flusher handles the first message it took, and no other is the same. *)
LEMMA PlacedFlusherHandle ==
  ASSUME TypeOK, PlaceInv, NEW c \in Conns, FlusherHandle(c)
  PROVE  PlaceInv'
<1> DEFINE m == Head(pending[c])
           rest == Tail(pending[c])
<1>1. /\ handled[c] \in Seq(Nat) /\ flushed[c] \in Seq(Nat) /\ pending[c] \in Seq(Nat)
      /\ buffer[c] \in Seq(Nat) /\ fpc[c] = "handle"
      /\ handled'[c] = Append(handled[c], m) /\ flushed'[c] = Append(flushed[c], m)
      /\ pending'[c] = rest
      /\ fpc'[c] = IF Len(pending[c]) = 1 THEN "top" ELSE "handle"
      /\ \A d \in Conns \ {c} : /\ handled'[d] = handled[d] /\ flushed'[d] = flushed[d]
                                /\ pending'[d] = pending[d] /\ fpc'[d] = fpc[d]
      /\ UNCHANGED <<arrived, inbox, rmsg, buffer>>
  BY ZenonT(40) DEF TypeOK, FlusherHandle, reader, source
<1>2. Placed(c)
  BY DEF PlaceInv
<1>3. pending[c] # <<>>
  BY <1>1, <1>2 DEF Placed
<1>4. m \in Nat /\ rest \in Seq(Nat) /\ Len(pending[c]) = Len(rest) + 1
  BY <1>1, <1>3, HeadConcatTail
<1>5. ToSet(pending[c]) = {m} \cup ToSet(rest)
  BY <1>1, <1>3, ToSetTail
<1>6. Kept(c)' = Kept(c)
  <2>1. Append(flushed[c], m) \o rest = flushed[c] \o pending[c]
    BY <1>1, <1>3, AppendHead
  <2>2. QED
    BY <1>1, <2>1 DEF Kept
<1>7. m \notin ToSet(rest) /\ m \notin ToSet(buffer[c])
  <2> DEFINE front == flushed[c] \o pending[c]
  <2>1. front \in Seq(Nat) /\ Kept(c) = front \o buffer[c] /\ Kept(c) \in Seq(Nat)
    BY <1>1, ConcatProperties DEF Kept
  <2>2. IsInjective(Kept(c))
    BY <1>2, <2>1, IncreasingInjective DEF Placed
  <2>3. ToSet(front) = ToSet(flushed[c]) \cup ToSet(pending[c])
    BY <1>1, ToSetConcat
  <2>4. IsInjective(front) => IsInjective(pending[c])
    BY <1>1, InjectiveConcat
  <2> HIDE DEF front
  <2>5. IsInjective(front) /\ ToSet(front) \cap ToSet(buffer[c]) = {}
    BY <1>1, <2>1, <2>2, InjectiveConcat
  <2>6. m \notin ToSet(rest)
    BY <1>1, <1>3, <2>4, <2>5, InjectiveTail
  <2>7. QED
    BY <1>5, <2>3, <2>5, <2>6
<1> HIDE DEF m, rest
<1>8. rest = <<>> <=> Len(pending[c]) = 1
  <2>1. Len(rest) = 0 <=> rest = <<>>
    BY ONLY <1>4, EmptySeq
  <2>2. Len(rest) \in Nat
    BY <1>4, LenProperties
  <2>3. QED
    BY ONLY <1>4, <2>1, <2>2
<1>9. /\ ToSet(handled[c]) \cup ToSet(pending[c]) \cup ToSet(buffer[c]) = 1..Seen(c)
      /\ ToSet(handled[c]) \cap (ToSet(pending[c]) \cup ToSet(buffer[c])) = {}
      /\ ToSet(flushed[c]) \subseteq ToSet(handled[c]) /\ IsInjective(handled[c])
  BY <1>2 DEF Placed
<1>10. m \notin ToSet(handled[c])
  BY <1>5, <1>9
<1>11. /\ ToSet(handled'[c]) = ToSet(handled[c]) \cup {m} /\ IsInjective(handled'[c])
       /\ ToSet(flushed'[c]) = ToSet(flushed[c]) \cup {m}
  <2>1. /\ handled[c] \in Seq(Nat) /\ m \in Nat /\ IsInjective(handled[c])
        /\ m \notin ToSet(handled[c]) /\ flushed[c] \in Seq(Nat)
    BY <1>1, <1>4, <1>9, <1>10
  <2>2. /\ ToSet(Append(handled[c], m)) = ToSet(handled[c]) \cup {m}
        /\ ToSet(Append(flushed[c], m)) = ToSet(flushed[c]) \cup {m}
    BY ONLY <2>1, ToSetAppend, ZenonT(40)
  <2>3. IsInjective(Append(handled[c], m))
    BY ONLY <2>1, InjectiveAppend
  <2>4. QED
    BY <1>1, <2>2, <2>3
<1>12. Seen(c)' = Seen(c)
  BY <1>1 DEF Seen
<1>13. /\ ToSet(handled'[c]) \cup ToSet(pending'[c]) \cup ToSet(buffer'[c]) = 1..Seen(c)'
       /\ ToSet(handled'[c]) \cap (ToSet(pending'[c]) \cup ToSet(buffer'[c])) = {}
       /\ ToSet(flushed'[c]) \subseteq ToSet(handled'[c])
  BY <1>1, <1>5, <1>7, <1>9, <1>11, <1>12
<1>14. pending'[c] # <<>> <=> fpc'[c] = "handle"
  BY <1>1, <1>8
<1>15. Increasing(Kept(c)')
  BY <1>2, <1>6 DEF Placed
<1>16. /\ \A i \in DOMAIN inbox'[c] : inbox'[c][i] = arrived'[c] - Len(inbox'[c]) + i
       /\ rmsg'[c] # None => rmsg'[c] = arrived'[c] - Len(inbox'[c])
       /\ Seen(c)' >= 0
  BY <1>1, <1>2, <1>12 DEF Placed
<1>17. Placed(c)'
  BY <1>11, <1>13, <1>14, <1>15, <1>16 DEF Placed
<1>18. ASSUME NEW d \in Conns \ {c}
       PROVE  Placed(d)'
  BY <1>1, <1>18, PlacedSame DEF PlaceInv
<1>19. QED
  BY <1>17, <1>18 DEF PlaceInv

(* Every step keeps every message in its place. *)
LEMMA StepPlaced == TypeOK /\ PlaceInv /\ [Next]_vars => PlaceInv'
<1> SUFFICES ASSUME TypeOK, PlaceInv, [Next]_vars PROVE PlaceInv'
  OBVIOUS
<1>same. ASSUME UNCHANGED <<arrived, inbox, rmsg, handled, pending, buffer, flushed>>,
                \A d \in Conns : fpc'[d] = "handle" <=> fpc[d] = "handle"
         PROVE  PlaceInv'
  BY <1>same, PlacedSame DEF PlaceInv
<1>1. ASSUME NEW a \in Admins, Pause(a)
      PROVE  PlaceInv'
  BY <1>1, <1>same DEF Pause, source, reader, flusher
<1>2. ASSUME NEW a \in Admins, ResumeStore(a)
      PROVE  PlaceInv'
  BY <1>2, <1>same DEF ResumeStore, source, reader, flusher
<1>3. ASSUME NEW a \in Admins, ResumeBroadcast(a)
      PROVE  PlaceInv'
  BY <1>3, <1>same DEF ResumeBroadcast, source, reader, flusher
<1>4. ASSUME NEW c \in Conns, Arrive(c)
      PROVE  PlaceInv'
  BY <1>4, PlacedArrive
<1>5. ASSUME NEW c \in Conns, Close(c)
      PROVE  PlaceInv'
  BY <1>5, <1>same DEF Close, reader, flusher
<1>6. ASSUME NEW c \in Conns, HangUp(c)
      PROVE  PlaceInv'
  BY <1>6, <1>same DEF HangUp, reader, flusher
<1>7. ASSUME NEW c \in Conns, ReaderTake(c)
      PROVE  PlaceInv'
  BY <1>7, PlacedReaderTake
<1>8. ASSUME NEW c \in Conns, ReaderExit(c)
      PROVE  PlaceInv'
  BY <1>8, <1>same DEF ReaderExit, source, flusher
<1>9. ASSUME NEW c \in Conns, addToBuffer(c)
      PROVE  PlaceInv'
  BY <1>9, PlacedAddToBuffer
<1>10. ASSUME NEW c \in Conns, ReaderHandle(c)
       PROVE  PlaceInv'
  BY <1>10, PlacedReaderHandle
<1>11. ASSUME NEW c \in Conns, FastPath(c)
       PROVE  PlaceInv'
  BY <1>11, <1>same DEF TypeOK, FastPath, FlusherMove, source, reader
<1>12. ASSUME NEW c \in Conns, SlowPath(c)
       PROVE  PlaceInv'
  BY <1>12, <1>same DEF TypeOK, SlowPath, FlusherMove, source, reader
<1>13. ASSUME NEW c \in Conns, FlusherExit(c)
       PROVE  PlaceInv'
  BY <1>13, <1>same DEF TypeOK, FlusherExit, FlusherMove, source, reader
<1>14. ASSUME NEW c \in Conns, SeesPaused(c)
       PROVE  PlaceInv'
  BY <1>14, <1>same DEF TypeOK, SeesPaused, FlusherMove, source, reader
<1>15. ASSUME NEW c \in Conns, SeesResumed(c)
       PROVE  PlaceInv'
  BY <1>15, <1>same DEF TypeOK, SeesResumed, FlusherMove, source, reader
<1>16. ASSUME NEW c \in Conns, Park(c)
       PROVE  PlaceInv'
  BY <1>16, <1>same DEF TypeOK, Park, FlusherMove, source, reader
<1>17. ASSUME NEW c \in Conns, flushBuffer(c)
       PROVE  PlaceInv'
  BY <1>17, PlacedFlushBuffer
<1>18. ASSUME NEW c \in Conns, FlusherHandle(c)
       PROVE  PlaceInv'
  BY <1>18, PlacedFlusherHandle
<1>19. CASE UNCHANGED vars
  BY <1>19, <1>same DEF vars, source, reader, flusher
<1>20. QED
  BY <1>1, <1>2, <1>3, <1>4, <1>5, <1>6, <1>7, <1>8, <1>9, <1>10,
     <1>11, <1>12, <1>13, <1>14, <1>15, <1>16, <1>17, <1>18, <1>19
    DEF Next, Reader, Flusher, Quiet

-----------------------------------------------------------------------------
(* What a pause lets through *)

(* Every step keeps the bounds on what a pause lets through. *)
LEMMA StepPause == TypeOK /\ PauseInv /\ [Next]_vars => PauseInv'
<1> SUFFICES ASSUME TypeOK, PauseInv, [Next]_vars PROVE PauseInv'
  OBVIOUS
<1> USE DEF TypeOK, PauseInv, gate, reader, flusher
<1>1. ASSUME NEW a \in Admins, Pause(a)
      PROVE  PauseInv'
  <2>1. CASE paused
    BY <1>1, <2>1 DEF Pause
  <2>2. CASE ~paused
    BY <1>1, <2>2, SMTT(40) DEF Pause
  <2>3. QED
    BY <2>1, <2>2
<1>2. ASSUME NEW a \in Admins, ResumeStore(a)
      PROVE  PauseInv'
  BY <1>2 DEF ResumeStore
<1>3. ASSUME NEW a \in Admins, ResumeBroadcast(a)
      PROVE  PauseInv'
  BY <1>3 DEF ResumeBroadcast
<1>4. ASSUME NEW c \in Conns, Arrive(c)
      PROVE  PauseInv'
  BY <1>4 DEF Arrive
<1>5. ASSUME NEW c \in Conns, Close(c)
      PROVE  PauseInv'
  BY <1>5 DEF Close
<1>6. ASSUME NEW c \in Conns, HangUp(c)
      PROVE  PauseInv'
  BY <1>6 DEF HangUp
<1>7. ASSUME NEW c \in Conns, ReaderTake(c)
      PROVE  PauseInv'
  BY <1>7 DEF ReaderTake
<1>8. ASSUME NEW c \in Conns, ReaderExit(c)
      PROVE  PauseInv'
  BY <1>8 DEF ReaderExit
<1>9. ASSUME NEW c \in Conns, addToBuffer(c)
      PROVE  PauseInv'
  BY <1>9 DEF addToBuffer
<1>10. ASSUME NEW c \in Conns, ReaderHandle(c)
       PROVE  PauseInv'
  <2> SUFFICES ASSUME paused, NEW d \in Conns
               PROVE  /\ rleak'[d] <= (IF rpc'[d] = "handle" THEN 0 ELSE 1)
                      /\ fleak'[d] <= (IF fpc'[d] = "flush" THEN 0 ELSE 1)
    BY <1>10 DEF ReaderHandle
  <2>1. CASE d = c
    <3>1. rleak[c] = 0
      BY <1>10, SMTT(40) DEF ReaderHandle
    <3>2. rleak'[c] = rleak[c] + 1 /\ rpc'[c] = "select" /\ fleak' = fleak /\ fpc' = fpc
      BY <1>10 DEF ReaderHandle
    <3>3. QED
      BY <2>1, <3>1, <3>2
  <2>2. CASE d # c
    BY <1>10, <2>2 DEF ReaderHandle
  <2>3. QED
    BY <2>1, <2>2
<1>11. ASSUME NEW c \in Conns, FastPath(c)
       PROVE  PauseInv'
  BY <1>11 DEF FastPath, FlusherMove
<1>12. ASSUME NEW c \in Conns, SlowPath(c)
       PROVE  PauseInv'
  BY <1>12 DEF SlowPath, FlusherMove
<1>13. ASSUME NEW c \in Conns, FlusherExit(c)
       PROVE  PauseInv'
  BY <1>13 DEF FlusherExit, FlusherMove
<1>14. ASSUME NEW c \in Conns, SeesPaused(c)
       PROVE  PauseInv'
  BY <1>14 DEF SeesPaused, FlusherMove
<1>15. ASSUME NEW c \in Conns, SeesResumed(c)
       PROVE  PauseInv'
  BY <1>15 DEF SeesResumed, FlusherMove
<1>16. ASSUME NEW c \in Conns, Park(c)
       PROVE  PauseInv'
  BY <1>16 DEF Park, FlusherMove
<1>17. ASSUME NEW c \in Conns, flushBuffer(c)
       PROVE  PauseInv'
  BY <1>17, SMTT(40) DEF flushBuffer
<1>18. ASSUME NEW c \in Conns, FlusherHandle(c)
       PROVE  PauseInv'
  BY <1>18 DEF FlusherHandle
<1>19. CASE UNCHANGED vars
  BY <1>19 DEF vars, gate, reader, flusher
<1>20. QED
  BY <1>1, <1>2, <1>3, <1>4, <1>5, <1>6, <1>7, <1>8, <1>9, <1>10,
     <1>11, <1>12, <1>13, <1>14, <1>15, <1>16, <1>17, <1>18, <1>19
    DEF Next, Reader, Flusher, Quiet

-----------------------------------------------------------------------------
(* The theorems *)

(* No message is there at first, and nothing is paused. *)
LEMMA InitiallyPlaced == Init => DispatchInv
<1> SUFFICES ASSUME Init PROVE DispatchInv
  OBVIOUS
<1>1. TypeOK
  <2>1. paused \in BOOLEAN /\ pauses \in 0..MaxPauses
    <3>1. 0 \in 0..MaxPauses
      BY DispatchAssumption
    <3>2. QED
      BY <3>1 DEF Init
  <2>2. /\ inbox \in [Conns -> Seq(Nat)] /\ buffer \in [Conns -> Seq(Nat)]
        /\ pending \in [Conns -> Seq(Nat)]
        /\ handled \in [Conns -> Seq(Nat)] /\ flushed \in [Conns -> Seq(Nat)]
    BY EmptySeq DEF Init
  <2>3. /\ arrived \in [Conns -> Nat] /\ rmsg \in [Conns -> Nat \cup {None}]
        /\ rleak \in [Conns -> Nat] /\ fleak \in [Conns -> Nat]
    BY DEF Init
  <2>4. ASSUME NEW c \in Conns
        PROVE  /\ mu = c <=> fpc[c] = "park"
               /\ rmsg[c] # None <=> rpc[c] \in {"buffer", "handle"}
    BY DispatchAssumption DEF Init
  <2>5. QED
    BY <2>1, <2>2, <2>3, <2>4 DEF Init, TypeOK
<1>2. ASSUME NEW c \in Conns
      PROVE  Placed(c)
  <2>1. /\ arrived[c] = 0 /\ inbox[c] = <<>> /\ rmsg[c] = None /\ handled[c] = <<>>
        /\ pending[c] = <<>> /\ buffer[c] = <<>> /\ flushed[c] = <<>> /\ fpc[c] = "top"
    BY DEF Init
  <2>2. ToSet(<<>>) = {} /\ IsInjective(<<>>) /\ Increasing(<<>>) /\ Len(<<>>) = 0
    BY DEF ToSet, IsInjective, Increasing
  <2>3. <<>> \o <<>> \o <<>> = <<>>
    BY ConcatEmptySeq, EmptySeq
  <2>4. Seen(c) = 0
    <3>1. Len(inbox[c]) = 0
      BY <2>1, <2>2
    <3>2. Seen(c) = 0 - 0 - 0
      BY <2>1, <3>1 DEF Seen
    <3>3. QED
      BY ONLY <3>2
  <2>5. QED
    BY <2>1, <2>2, <2>3, <2>4 DEF Placed, Kept
<1>3. PauseInv
  BY DEF Init, PauseInv
<1>4. QED
  BY <1>1, <1>2, <1>3 DEF DispatchInv, PlaceInv

(* The dispatcher keeps the inductive invariant. *)
THEOREM DispatchInductive == SafeSpec => []DispatchInv
<1>1. DispatchInv /\ [Next]_vars => DispatchInv'
  BY StepType, StepPlaced, StepPause DEF DispatchInv
<1>2. QED
  BY InitiallyPlaced, <1>1, PTL DEF SafeSpec

(* Every variable of Dispatch stays in its domain; the mutex is held by a  *)
(* flusher on its way into Cond.Wait only.                                 *)
THEOREM DispatchTypeCorrect == SafeSpec => []TypeOK
<1>1. DispatchInv => TypeOK
  BY DEF DispatchInv
<1>2. QED
  BY DispatchInductive, <1>1, PTL

(* Where every message of a connection is implies that each is in one      *)
(* place only and that none is missing.                                    *)
LEMMA PlacedIsOnce == TypeOK /\ PlaceInv => BufferedOnce
<1> SUFFICES ASSUME TypeOK, PlaceInv, NEW c \in Conns
             PROVE  /\ IsInjective(Everywhere(c)) /\ ToSet(Everywhere(c)) = 1..arrived[c]
                    /\ Increasing(Kept(c))
  BY DEF BufferedOnce, Increasing, Kept
<1> DEFINE h == handled[c]
           p == pending[c]
           b == buffer[c]
           f == flushed[c]
           q == inbox[c]
           r == IF rmsg[c] = None THEN <<>> ELSE <<rmsg[c]>>
           n == arrived[c]
<1>1. /\ h \in Seq(Nat) /\ p \in Seq(Nat) /\ b \in Seq(Nat) /\ f \in Seq(Nat) /\ q \in Seq(Nat)
      /\ n \in Nat /\ rmsg[c] \in Nat \cup {None}
  BY DEF TypeOK
<1>2. Len(q) \in Nat /\ DOMAIN q = 1..Len(q)
  BY <1>1, LenProperties
<1>3. /\ \A i \in DOMAIN q : q[i] = n - Len(q) + i
      /\ rmsg[c] # None => rmsg[c] = n - Len(q)
      /\ Seen(c) = n - Len(q) - (IF rmsg[c] = None THEN 0 ELSE 1) /\ Seen(c) >= 0
      /\ ToSet(h) \cup ToSet(p) \cup ToSet(b) = 1..Seen(c)
      /\ ToSet(h) \cap (ToSet(p) \cup ToSet(b)) = {}
      /\ IsInjective(h) /\ Increasing(f \o p \o b)
  BY DEF PlaceInv, Placed, Kept, Seen
<1>4. Everywhere(c) = (((h \o p) \o b) \o r) \o q
  BY DEF Everywhere
<1>5. r \in Seq(Nat) /\ IsInjective(r) /\ ToSet(r) = IF rmsg[c] = None THEN {} ELSE {rmsg[c]}
  BY <1>1 DEF ToSet, IsInjective
<1>6. Increasing(Kept(c))
  BY <1>3 DEF Kept
<1> HIDE DEF h, p, b, f, q, r, n
<1>7. IsInjective(p) /\ IsInjective(b) /\ ToSet(p) \cap ToSet(b) = {}
  <2>1. f \o p \in Seq(Nat) /\ f \o p \o b \in Seq(Nat)
    BY <1>1, ConcatProperties
  <2>2. IsInjective(f \o p \o b)
    BY <1>3, <2>1, IncreasingInjective
  <2>3. IsInjective(f \o p) /\ IsInjective(b) /\ ToSet(f \o p) \cap ToSet(b) = {}
    BY <1>1, <2>1, <2>2, InjectiveConcat
  <2>4. IsInjective(p)
    BY <1>1, <2>3, InjectiveConcat
  <2>5. ToSet(f \o p) = ToSet(f) \cup ToSet(p)
    BY <1>1, ToSetConcat
  <2>6. QED
    BY <2>3, <2>4, <2>5
<1>8. ToSet(q) = n - Len(q) + 1 .. n
  <2>1. ASSUME NEW i \in DOMAIN q
        PROVE  q[i] \in n - Len(q) + 1 .. n
    BY <1>1, <1>2, <1>3, SMTT(40)
  <2>2. ASSUME NEW k \in n - Len(q) + 1 .. n
        PROVE  k \in ToSet(q)
    <3> DEFINE i == k - (n - Len(q))
    <3>1. i \in DOMAIN q /\ n - Len(q) + i = k
      BY <1>1, <1>2
    <3> HIDE DEF i
    <3>2. q[i] = k
      BY <1>3, <3>1
    <3>3. QED
      BY <3>1, <3>2 DEF ToSet
  <2>3. QED
    BY <2>1, <2>2 DEF ToSet
<1>9. IsInjective(q)
  BY <1>1, <1>2, <1>3 DEF IsInjective
<1>10. h \o p \in Seq(Nat) /\ IsInjective(h \o p) /\ ToSet(h \o p) = ToSet(h) \cup ToSet(p)
  <2>1. ToSet(h) \cap ToSet(p) = {}
    BY <1>3
  <2>2. QED
    BY <1>1, <1>3, <1>7, <2>1, ConcatProperties, InjectiveConcat, ToSetConcat
<1> DEFINE w == h \o p
<1>11. w \in Seq(Nat) /\ IsInjective(w) /\ ToSet(w) = ToSet(h) \cup ToSet(p)
  BY <1>10
<1> HIDE DEF w
<1>12. w \o b \in Seq(Nat) /\ IsInjective(w \o b) /\ ToSet(w \o b) = 1..Seen(c)
  <2>1. ToSet(w) \cap ToSet(b) = {}
    BY <1>3, <1>7, <1>11
  <2>2. ToSet(w \o b) = ToSet(w) \cup ToSet(b)
    BY <1>1, <1>11, ToSetConcat
  <2>3. IsInjective(w \o b)
    BY <1>1, <1>7, <1>11, <2>1, InjectiveConcat
  <2>4. QED
    BY <1>1, <1>3, <1>11, <2>2, <2>3, ConcatProperties
<1> DEFINE x == w \o b
<1>13. x \in Seq(Nat) /\ IsInjective(x) /\ ToSet(x) = 1..Seen(c)
  BY <1>12
<1> HIDE DEF x
<1>14. x \o r \in Seq(Nat) /\ IsInjective(x \o r) /\ ToSet(x \o r) = 1 .. n - Len(q)
  <2>1. ToSet(x \o r) = ToSet(x) \cup ToSet(r)
    <3>1. x \in Seq(Nat) /\ r \in Seq(Nat)
      BY <1>5, <1>13
    <3>2. QED
      BY ONLY <3>1, ToSetConcat
  <2>2. ToSet(x) \cap ToSet(r) = {} /\ ToSet(x) \cup ToSet(r) = 1 .. n - Len(q)
    <3>1. CASE rmsg[c] = None
      BY <1>1, <1>2, <1>3, <1>5, <1>13, <3>1
    <3>2. CASE rmsg[c] # None
      <4>1. Seen(c) \in Nat /\ n - Len(q) = Seen(c) + 1
        BY <1>1, <1>2, <1>3, <3>2
      <4>2. ToSet(r) = {Seen(c) + 1}
        BY <1>3, <1>5, <3>2, <4>1
      <4>3. QED
        BY <1>13, <4>1, <4>2
    <3>3. QED
      BY <3>1, <3>2
  <2>3. IsInjective(x \o r)
    BY <1>5, <1>13, <2>2, InjectiveConcat
  <2>4. QED
    BY <1>5, <1>13, <2>1, <2>2, <2>3, ConcatProperties
<1> DEFINE y == x \o r
<1>15. y \in Seq(Nat) /\ IsInjective(y) /\ ToSet(y) = 1 .. n - Len(q)
  BY <1>14
<1>16. Everywhere(c) = y \o q
  BY <1>4 DEF w, x
<1> HIDE DEF y
<1>17. ToSet(y) \cap ToSet(q) = {} /\ ToSet(y) \cup ToSet(q) = 1..n
  <2>1. n - Len(q) \in Nat
    BY <1>1, <1>2, <1>3
  <2>2. QED
    BY <1>1, <1>2, <1>8, <1>15, <2>1
<1>18. IsInjective(y \o q) /\ ToSet(y \o q) = 1..n
  <2>1. ToSet(y \o q) = ToSet(y) \cup ToSet(q)
    BY <1>1, <1>15, ToSetConcat
  <2>2. IsInjective(y \o q)
    BY <1>1, <1>9, <1>15, <1>17, InjectiveConcat
  <2>3. QED
    BY <1>17, <2>1, <2>2
<1>19. QED
  BY <1>6, <1>16, <1>18 DEF n

(* Pausing and resuming at any time, with any number of connections, no    *)
(* message is lost or handled twice between the subscription, the reader,  *)
(* the buffer and the flusher, and the buffered ones keep their order.     *)
THEOREM DispatchBufferedOnce == SafeSpec => []BufferedOnce
<1>1. DispatchInv => BufferedOnce
  BY PlacedIsOnce DEF DispatchInv
<1>2. QED
  BY DispatchInductive, <1>1, PTL

(* A pause lets through at most the message the reader had passed and one  *)
(* taking of the buffer, on each of any number of connections.             *)
THEOREM DispatchPauseLeaksOne == SafeSpec => []PauseLeaksOne
<1>1. DispatchInv => PauseLeaksOne
  BY SMTT(40) DEF DispatchInv, TypeOK, PauseInv, PauseLeaksOne
<1>2. QED
  BY DispatchInductive, <1>1, PTL

===============================================================================

------------------------------ MODULE TopicStore ------------------------------
(***************************************************************************)
(* The pub/sub engine of the server (internal/server/topics.go): a map of  *)
(* topics under ts.mu, entries under their own mutex, and goroutines that  *)
(* take the two one after the other. A call holds a pointer to its entry   *)
(* between the locks, so entries are objects with an identity here.        *)
(*                                                                         *)
(* conn.Write is a step that returns; whether it fails shows only in the   *)
(* counters, which are left out with the timestamps and the getters.       *)
(***************************************************************************)
EXTENDS Naturals, FiniteSets, Absent

CONSTANTS Procs,     \* goroutines calling the store
          Clients, Topics,
          Msgs,      \* one Publish or PublishSticky each
          Entries,   \* the topicEntry objects that can be allocated
          MaxCalls   \* bound: calls in a behaviour

ASSUME StoreAssumption == None \notin Msgs \cup Entries /\ MaxCalls \in Nat

VARIABLES
  topics,     \* ts.topics
  made,       \* the entries allocated so far
  subs,       \* entry.subscriptions
  retained,   \* entry.retained
  call,       \* the call each goroutine is in, and where
  begun,      \* how many calls were begun
  published,  \* the messages handed to the store
  offered,    \* history: how often a message was written to a connection
  joins,      \* history: how often a connection became a subscriber
  absent      \* history: <<c, t>> with no Subscribe since c left t

storeVars == <<topics, made, subs, retained, call, begun, published, offered, joins, absent>>

(* Every call is one record. todo: connections to deliver to, or topics to *)
(* look at. found: topics to leave. alone: no Subscribe of the connection  *)
(* overlaps the call.                                                      *)
Idle == [at |-> "idle", conn |-> None, topic |-> None, msg |-> None, entry |-> None,
         todo |-> {}, found |-> {}, alone |-> FALSE]

StoreInit ==
  /\ topics = [t \in Topics |-> None]
  /\ made = {}
  /\ subs = [e \in Entries |-> {}]
  /\ retained = [e \in Entries |-> None]
  /\ call = [p \in Procs |-> Idle]
  /\ begun = 0
  /\ published = {}
  /\ offered = [c \in Clients |-> [m \in Msgs |-> 0]]
  /\ joins = [c \in Clients |-> 0]
  /\ absent = {}

In(p, where) == call[p].at = where

(* A call is begun by any goroutine that is in none: the first will do.    *)
Begins(p) ==
  /\ In(p, "idle") /\ p = (CHOOSE q \in Procs : In(q, "idle"))
  /\ begun < MaxCalls /\ begun' = begun + 1

(* UnsubscribeAll looks at every topic under one read lock of ts.mu: the   *)
(* map can be read meanwhile, and not changed.                             *)
MapWritable == \A p \in Procs : ~In(p, "collect")

FindOrMake(t, e) ==
  /\ MapWritable
  /\ IF topics[t] # None THEN e = topics[t] /\ UNCHANGED <<topics, made>>
     ELSE /\ made # Entries /\ e = (CHOOSE new \in Entries \ made : TRUE)
          /\ topics' = [topics EXCEPT ![t] = e]
          /\ made' = made \cup {e}

-----------------------------------------------------------------------------
(* Subscribe *)

SubscribeEnter(p, c, t) ==
  /\ Begins(p)
  /\ \E e \in Entries :
       /\ FindOrMake(t, e)
       /\ call' = [q \in Procs |->
            IF q = p THEN [Idle EXCEPT !.at = "subscribe", !.conn = c, !.topic = t, !.entry = e]
            ELSE IF call[q].conn = c THEN [call[q] EXCEPT !.alone = FALSE]
            ELSE call[q]]
  /\ absent' = absent \ {<<c, t>>}
  /\ UNCHANGED <<subs, retained, published, offered, joins>>

(* Mutant: the new subscriber does not get the retained message. *)
JoinSilently(p) ==
  LET c == call[p].conn
      e == call[p].entry IN
  /\ In(p, "subscribe")
  /\ subs' = [subs EXCEPT ![e] = @ \cup {c}]
  /\ joins' = IF c \in subs[e] THEN joins ELSE [joins EXCEPT ![c] = @ + 1]
  /\ call' = [call EXCEPT ![p] = Idle]
  /\ UNCHANGED <<begun, topics, made, retained, published, offered, absent>>

SubscribeJoin(p) ==
  LET c == call[p].conn
      e == call[p].entry IN
  /\ In(p, "subscribe")
  /\ IF c \in subs[e] THEN UNCHANGED <<subs, joins, offered>>
     ELSE /\ subs' = [subs EXCEPT ![e] = @ \cup {c}]
          /\ joins' = [joins EXCEPT ![c] = @ + 1]
          /\ offered' = IF retained[e] = None THEN offered
                        ELSE [offered EXCEPT ![c][retained[e]] = @ + 1]
  /\ call' = [call EXCEPT ![p] = Idle]
  /\ UNCHANGED <<begun, topics, made, retained, published, absent>>

-----------------------------------------------------------------------------
(* Unsubscribe, UnsubscribeAll and ClearRetained *)

Subscribing(c) == \E p \in Procs : In(p, "subscribe") /\ call[p].conn = c

(* What is left of the call once one topic was left. *)
Left(p) == IF call[p].found = {} THEN Idle
           ELSE [call[p] EXCEPT !.at = "leave", !.topic = None, !.entry = None]

(* The history: p has taken its connection out of its topic for good. *)
MarkAbsent(p) ==
  absent' = IF call[p].alone THEN absent \cup {<<call[p].conn, call[p].topic>>} ELSE absent

UnsubscribeEnter(p, c, t) ==
  /\ Begins(p) /\ MapWritable /\ topics[t] # None
  /\ call' = [call EXCEPT ![p] = [Idle EXCEPT !.at = "unsubscribe", !.conn = c, !.topic = t,
                                    !.entry = topics[t], !.alone = ~Subscribing(c)]]
  /\ UNCHANGED <<topics, made, subs, retained, published, offered, joins, absent>>

(* Mutant: the subscriber that leaves last is not removed. *)
RemoveUnlessLast(p) ==
  LET e == call[p].entry IN
  /\ In(p, "unsubscribe")
  /\ subs' = IF subs[e] = {call[p].conn} THEN subs
             ELSE [subs EXCEPT ![e] = @ \ {call[p].conn}]
  /\ MarkAbsent(p)
  /\ call' = [call EXCEPT ![p] = IF subs'[e] = {} THEN [call[p] EXCEPT !.at = "recheck"]
                                 ELSE Left(p)]
  /\ UNCHANGED <<begun, topics, made, retained, published, offered, joins>>

UnsubscribeRemove(p) ==
  LET e == call[p].entry IN
  /\ In(p, "unsubscribe")
  /\ subs' = [subs EXCEPT ![e] = @ \ {call[p].conn}]
  /\ MarkAbsent(p)
  /\ call' = [call EXCEPT ![p] = IF subs'[e] = {} THEN [call[p] EXCEPT !.at = "recheck"]
                                 ELSE Left(p)]
  /\ UNCHANGED <<begun, topics, made, retained, published, offered, joins>>

(* The entry was left empty: under both locks it is looked at again, and   *)
(* the topic's name, whatever entry it stands for by now, is deleted.      *)
Recheck(p) ==
  LET e == call[p].entry IN
  /\ In(p, "recheck") /\ MapWritable
  /\ topics' = IF subs[e] = {} /\ retained[e] = None
               THEN [topics EXCEPT ![call[p].topic] = None] ELSE topics
  /\ call' = [call EXCEPT ![p] = Left(p)]
  /\ UNCHANGED <<begun, made, subs, retained, published, offered, joins, absent>>

CollectBegin(p, c) ==
  /\ Begins(p)
  /\ call' = [call EXCEPT ![p] = [Idle EXCEPT !.at = "collect", !.conn = c, !.alone = ~Subscribing(c),
                                    !.todo = {t \in Topics : topics[t] # None}]]
  /\ UNCHANGED <<topics, made, subs, retained, published, offered, joins, absent>>

CollectOne(p) ==
  /\ In(p, "collect")
  /\ \E t \in call[p].todo :
       call' = [call EXCEPT ![p].todo = @ \ {t},
                            ![p].found = IF call[p].conn \in subs[topics[t]] THEN @ \cup {t} ELSE @]
  /\ UNCHANGED <<begun, topics, made, subs, retained, published, offered, joins, absent>>

CollectEnd(p) ==
  /\ In(p, "collect") /\ call[p].todo = {}
  /\ call' = [call EXCEPT ![p] = Left(p)]
  /\ UNCHANGED <<begun, topics, made, subs, retained, published, offered, joins, absent>>

LeaveNext(p) ==
  /\ In(p, "leave") /\ MapWritable
  /\ \E t \in call[p].found :
       LET rest == [call[p] EXCEPT !.found = @ \ {t}] IN
       call' = [call EXCEPT ![p] =
                  IF topics[t] # None
                  THEN [rest EXCEPT !.at = "unsubscribe", !.topic = t, !.entry = topics[t]]
                  ELSE IF rest.found = {} THEN Idle ELSE rest]
  /\ UNCHANGED <<begun, topics, made, subs, retained, published, offered, joins, absent>>

ClearEnter(p, t) ==
  /\ Begins(p) /\ topics[t] # None
  /\ call' = [call EXCEPT ![p] = [Idle EXCEPT !.at = "clear", !.topic = t, !.entry = topics[t]]]
  /\ UNCHANGED <<topics, made, subs, retained, published, offered, joins, absent>>

ClearRetained(p) ==
  LET e == call[p].entry IN
  /\ In(p, "clear")
  /\ retained' = [retained EXCEPT ![e] = None]
  /\ call' = [call EXCEPT ![p] = IF subs[e] = {} THEN [call[p] EXCEPT !.at = "recheck"] ELSE Idle]
  /\ UNCHANGED <<begun, topics, made, subs, published, offered, joins, absent>>

-----------------------------------------------------------------------------
(* Publish and PublishSticky *)

(* The subscribers as of now are written to after entry.mu is released. *)
FanOut(p) ==
  call' = [call EXCEPT ![p] = IF subs[call[p].entry] = {} THEN Idle
                              ELSE [call[p] EXCEPT !.at = "deliver", !.todo = subs[call[p].entry]]]

PublishEnter(p, t, m) ==
  /\ Begins(p) /\ m \notin published /\ topics[t] # None
  /\ published' = published \cup {m}
  /\ call' = [call EXCEPT ![p] = [Idle EXCEPT !.at = "publish", !.topic = t, !.msg = m,
                                    !.entry = topics[t]]]
  /\ UNCHANGED <<topics, made, subs, retained, offered, joins, absent>>

PublishSnapshot(p) ==
  /\ In(p, "publish")
  /\ FanOut(p)
  /\ UNCHANGED <<begun, topics, made, subs, retained, published, offered, joins, absent>>

StickyEnter(p, t, m) ==
  /\ Begins(p) /\ m \notin published
  /\ published' = published \cup {m}
  /\ \E e \in Entries :
       /\ FindOrMake(t, e)
       /\ call' = [call EXCEPT ![p] = [Idle EXCEPT !.at = "sticky", !.topic = t, !.msg = m, !.entry = e]]
  /\ UNCHANGED <<subs, retained, offered, joins, absent>>

StickySnapshot(p) ==
  /\ In(p, "sticky")
  /\ retained' = [retained EXCEPT ![call[p].entry] = call[p].msg]
  /\ FanOut(p)
  /\ UNCHANGED <<begun, topics, made, subs, published, offered, joins, absent>>

Deliver(p) ==
  /\ In(p, "deliver")
  /\ \E c \in call[p].todo :
       /\ offered' = [offered EXCEPT ![c][call[p].msg] = @ + 1]
       /\ call' = [call EXCEPT ![p] = IF call[p].todo = {c} THEN Idle
                                      ELSE [call[p] EXCEPT !.todo = @ \ {c}]]
  /\ UNCHANGED <<begun, topics, made, subs, retained, published, joins, absent>>

-----------------------------------------------------------------------------
(* The callers may stop once no call is under way. *)
AllIdle == \A p \in Procs : In(p, "idle")
StoreQuiet == AllIdle /\ UNCHANGED storeVars

StoreNext ==
  \/ \E p \in Procs :
       \/ \E c \in Clients, t \in Topics : SubscribeEnter(p, c, t) \/ UnsubscribeEnter(p, c, t)
       \/ SubscribeJoin(p) \/ UnsubscribeRemove(p) \/ Recheck(p)
       \/ \E c \in Clients : CollectBegin(p, c)
       \/ CollectOne(p) \/ CollectEnd(p) \/ LeaveNext(p)
       \/ \E t \in Topics : ClearEnter(p, t)
       \/ ClearRetained(p)
       \/ \E t \in Topics, m \in Msgs : PublishEnter(p, t, m) \/ StickyEnter(p, t, m)
       \/ PublishSnapshot(p) \/ StickySnapshot(p) \/ Deliver(p)

StoreSpec == StoreInit /\ [][StoreNext \/ StoreQuiet]_storeVars

-----------------------------------------------------------------------------
(* Properties *)

Places == {"idle", "subscribe", "unsubscribe", "recheck", "collect", "leave", "clear",
           "publish", "sticky", "deliver"}

CallsOn(entries) ==
  [at : Places, conn : Clients \cup {None}, topic : Topics \cup {None}, msg : Msgs \cup {None},
   entry : entries \cup {None}, todo : SUBSET (Clients \cup Topics), found : SUBSET Topics,
   alone : BOOLEAN]

(* Every variable stays in its domain, and a call that works on an entry   *)
(* has one: no goroutine dereferences a topic that is not there.           *)
StoreTypeOK ==
  /\ topics \in [Topics -> made \cup {None}]
  /\ made \in SUBSET Entries
  /\ subs \in [Entries -> SUBSET Clients]
  /\ retained \in [Entries -> Msgs \cup {None}]
  /\ call \in [Procs -> CallsOn(made)]
  /\ \A p \in Procs : call[p].at \notin {"idle", "collect", "leave"} => call[p].entry # None
  /\ published \in SUBSET Msgs /\ begun \in 0..MaxCalls
  /\ offered \in [Clients -> [Msgs -> Nat]]
  /\ joins \in [Clients -> Nat]
  /\ absent \in SUBSET (Clients \X Topics)

(* Whoever is subscribed to an entry with a retained message was handed    *)
(* it when joining, or stands in the snapshot of the PublishSticky that    *)
(* retained it: no interleaving of the two leaves a subscriber out. And it *)
(* gets a message at most once per time it subscribed, the retained        *)
(* message of Subscribe and the fan-out taken together.                    *)
StickyReachesAll ==
  /\ \A e \in Entries : retained[e] # None =>
       \A c \in subs[e] :
         \/ offered[c][retained[e]] > 0
         \/ \E p \in Procs : In(p, "deliver") /\ call[p].msg = retained[e] /\ c \in call[p].todo
  /\ \A c \in Clients, m \in Msgs : offered[c][m] <= joins[c]

(* Once Unsubscribe or UnsubscribeAll took a connection out of a topic, no *)
(* Publish that looks the topic up later reaches it until it subscribes    *)
(* again.                                                                  *)
StaysUnsubscribed ==
  \A c \in Clients, t \in Topics :
    <<c, t>> \in absent /\ topics[t] # None => c \notin subs[topics[t]]

(* topics.go:32: "It is safe for concurrent use", and topics.go:96: the    *)
(* re-check is there "to avoid a race where another goroutine              *)
(* re-subscribed between the two locks". Between begun, then, a            *)
(* subscription is in the map.                                             *)
NoLostSubscription ==
  AllIdle =>
    \A e \in Entries : subs[e] # {} => \E t \in Topics : topics[t] = e

=============================================================================

--------------------------------- MODULE Relay ---------------------------------
(***************************************************************************)
(* One relayed client (serveRelay in internal/relay/relay.go): the handler *)
(* dials the upstream, upgrades the client, starts a pump in each          *)
(* direction and waits for the first of them to report.                    *)
(***************************************************************************)
EXTENDS Naturals, Sequences, SequencesExt, Absent

CONSTANTS PumpCap,       \* capacity of a subscription
          OutCap,     \* capacity of a connection's write channel
          MaxSent       \* bound: messages the peer of each side sends

Sides == {"client", "upstream"}

ASSUME RelayAssumption ==
  /\ PumpCap \in Nat \ {0} /\ OutCap \in Nat \ {0}
  /\ \A s \in Sides : MaxSent[s] \in Nat
  /\ None \notin Nat \cup Seq(Nat) \cup {"up", "down", "start", "wait", "write", "report", "gone"}

Other(s) == IF s = "client" THEN "upstream" ELSE "client"

VARIABLES
  stage,      \* of the handler: "dial", "upgrade", "wait", "closing", "over"
  link,       \* of each side: None before, "up", "down"
  sentBy,     \* messages each peer has sent
  lost,       \* history: those that came before the subscription or found it full
  sub,        \* the subscription of the pump that reads from the side, None before
  pump,       \* of the pump that reads from the side: None, "wait", "write", "report", "gone"
  held,       \* the message it writes
  writeQ,     \* messages waiting to be written to the side
  passed,     \* history: what the peer of the side has got
  reports     \* messages in errChan

relVars == <<stage, link, sentBy, lost, sub, pump, held, writeQ, passed, reports>>

All(v) == [s \in Sides |-> v]

RelayInit ==
  /\ stage = "dial" /\ link = All(None) /\ sentBy = All(0) /\ lost = All({})
  /\ sub = All(None) /\ pump = All(None) /\ held = All(None)
  /\ writeQ = All(<<>>) /\ passed = All(<<>>) /\ reports = 0

-----------------------------------------------------------------------------
(* The handler *)

DialUpstream ==
  /\ stage = "dial"
  /\ \/ stage' = "upgrade" /\ link' = [link EXCEPT !["upstream"] = "up"]
     \/ stage' = "over" /\ UNCHANGED link
  /\ UNCHANGED <<sentBy, lost, sub, pump, held, writeQ, passed, reports>>

(* The client's connection is started before anyone subscribes to it, the  *)
(* upstream's since it was dialled.                                        *)
UpgradeClient ==
  /\ stage = "upgrade"
  /\ \/ /\ stage' = "wait" /\ link' = [link EXCEPT !["client"] = "up"]
        /\ pump' = All("start")
     \/ stage' = "closing" /\ UNCHANGED <<link, pump>>
  /\ UNCHANGED <<sentBy, lost, sub, held, writeQ, passed, reports>>

FirstReport ==
  /\ stage = "wait" /\ reports > 0
  /\ stage' = "closing" /\ reports' = reports - 1
  /\ UNCHANGED <<link, sentBy, lost, sub, pump, held, writeQ, passed>>

(* Mutant: only the client is closed. *)
CloseClientOnly ==
  /\ stage = "closing" /\ stage' = "over"
  /\ link' = [link EXCEPT !["client"] = "down"]
  /\ UNCHANGED <<sentBy, lost, sub, pump, held, writeQ, passed, reports>>

(* The deferred closes: what waits is flushed, or times out. *)
CloseBoth ==
  /\ stage = "closing" /\ stage' = "over"
  /\ link' = [s \in Sides |-> IF link[s] = None THEN None ELSE "down"]
  /\ UNCHANGED <<sentBy, lost, sub, pump, held, writeQ, passed, reports>>

Handler == DialUpstream \/ UpgradeClient \/ FirstReport \/ CloseBoth

-----------------------------------------------------------------------------
(* The pump that reads from s and writes to the other side *)

SubscribeTo(s) ==
  /\ pump[s] = "start"
  /\ pump' = [pump EXCEPT ![s] = "wait"] /\ sub' = [sub EXCEPT ![s] = <<>>]
  /\ UNCHANGED <<stage, link, sentBy, lost, held, writeQ, passed, reports>>

PumpTakes(s) ==
  /\ pump[s] = "wait" /\ sub[s] # <<>>
  /\ pump' = [pump EXCEPT ![s] = "write"] /\ held' = [held EXCEPT ![s] = Head(sub[s])]
  /\ sub' = [sub EXCEPT ![s] = Tail(@)]
  /\ UNCHANGED <<stage, link, sentBy, lost, writeQ, passed, reports>>

(* Mutant: a full write channel refuses the message. *)
PumpWritesOrDrops(s) ==
  LET o == Other(s) IN
  /\ pump[s] = "write" /\ link[o] = "up"
  /\ writeQ' = IF Len(writeQ[o]) < OutCap THEN [writeQ EXCEPT ![o] = Append(@, held[s])] ELSE writeQ
  /\ held' = [held EXCEPT ![s] = None] /\ pump' = [pump EXCEPT ![s] = "wait"]
  /\ UNCHANGED <<stage, link, sentBy, lost, sub, passed, reports>>

(* Write waits for room in the channel or for the end of the connection. *)
PumpWrites(s) ==
  LET o == Other(s) IN
  /\ pump[s] = "write" /\ link[o] = "up" /\ Len(writeQ[o]) < OutCap
  /\ writeQ' = [writeQ EXCEPT ![o] = Append(@, held[s])]
  /\ held' = [held EXCEPT ![s] = None] /\ pump' = [pump EXCEPT ![s] = "wait"]
  /\ UNCHANGED <<stage, link, sentBy, lost, sub, passed, reports>>

PumpEnds(s) ==
  /\ \/ pump[s] = "write" /\ link[Other(s)] = "down"
     \/ pump[s] = "wait" /\ "down" \in {link[s], link[Other(s)]}
  /\ pump' = [pump EXCEPT ![s] = "report"]
  /\ UNCHANGED <<stage, link, sentBy, lost, sub, held, writeQ, passed, reports>>

(* errChan has room for both, and the handler takes one. *)
Reports(s) ==
  /\ pump[s] = "report" /\ reports < 2
  /\ reports' = reports + 1 /\ pump' = [pump EXCEPT ![s] = "gone"]
  /\ UNCHANGED <<stage, link, sentBy, lost, sub, held, writeQ, passed>>

Pump(s) == SubscribeTo(s) \/ PumpTakes(s) \/ PumpWrites(s) \/ PumpEnds(s) \/ Reports(s)

-----------------------------------------------------------------------------
(* The connections and their peers *)

(* A message comes in: to the subscription, or nowhere. *)
PeerSends(s) ==
  /\ link[s] = "up" /\ sentBy[s] < MaxSent[s] /\ sentBy' = [sentBy EXCEPT ![s] = @ + 1]
  /\ IF sub[s] # None /\ Len(sub[s]) < PumpCap
     THEN sub' = [sub EXCEPT ![s] = Append(@, sentBy[s] + 1)] /\ UNCHANGED lost
     ELSE lost' = [lost EXCEPT ![s] = @ \cup {sentBy[s] + 1}] /\ UNCHANGED sub
  /\ UNCHANGED <<stage, link, pump, held, writeQ, passed, reports>>

(* The peer may take its time. *)
PeerReads(s) ==
  /\ link[s] = "up" /\ writeQ[s] # <<>>
  /\ writeQ' = [writeQ EXCEPT ![s] = Tail(@)]
  /\ passed' = [passed EXCEPT ![s] = Append(@, Head(writeQ[s]))]
  /\ UNCHANGED <<stage, link, sentBy, lost, sub, pump, held, reports>>

PeerLeaves(s) ==
  /\ link[s] = "up" /\ link' = [link EXCEPT ![s] = "down"]
  /\ UNCHANGED <<stage, sentBy, lost, sub, pump, held, writeQ, passed, reports>>

RelayNext ==
  \/ Handler
  \/ \E s \in Sides : Pump(s) \/ PeerSends(s) \/ PeerReads(s) \/ PeerLeaves(s)

RelayOver == stage = "over" /\ \A s \in Sides : pump[s] \in {None, "gone"}
RelayQuiet == RelayOver /\ UNCHANGED relVars

(* The goroutines of the relay run; its peers need not do anything. *)
RelayFairness == WF_relVars(Handler) /\ \A s \in Sides : WF_relVars(Pump(s))

RelaySpec == RelayInit /\ [][RelayNext \/ RelayQuiet]_relVars /\ RelayFairness

-----------------------------------------------------------------------------
(* Properties *)

(* Every variable stays in its domain. *)
RelayTypeOK ==
  /\ stage \in {"dial", "upgrade", "wait", "closing", "over"} /\ reports \in 0..2
  /\ \A s \in Sides :
       /\ link[s] \in {None, "up", "down"} /\ sentBy[s] \in 0..MaxSent[s] /\ lost[s] \subseteq 1..MaxSent[s]
       /\ pump[s] \in {None, "start", "wait", "write", "report", "gone"}
       /\ sub[s] = None \/ Len(sub[s]) <= PumpCap
       /\ (held[s] # None) = (pump[s] = "write") \/ link[Other(s)] = "down"
       /\ Len(writeQ[s]) <= OutCap

(* What came from the peer of s and is still to be passed on, or was.      *)
OnItsWay(s) ==
  passed[Other(s)] \o writeQ[Other(s)] \o (IF held[s] = None THEN <<>> ELSE <<held[s]>>)
    \o (IF sub[s] = None THEN <<>> ELSE sub[s])

(* While both sides are there, each message that found the pump subscribed *)
(* and its channel not full is in one place on its way, in order: only     *)
(* those that came before, or that a slow peer kept out, are missing.      *)
RelayedInOrder ==
  \A s \in Sides :
    link[s] = "up" /\ link[Other(s)] = "up" =>
      /\ \A i, j \in DOMAIN OnItsWay(s) : i < j => OnItsWay(s)[i] < OnItsWay(s)[j]
      /\ ToSet(OnItsWay(s)) = (1..sentBy[s]) \ lost[s]

(* One side has ended, and the relay has not ended as a whole. *)
Ending ==
  {what \in {"relay"} : \/ stage = "wait" /\ \E s \in Sides : link[s] = "down"
                        \/ stage = "closing"
                        \/ stage = "over" /\ ~RelayOver}

=============================================================================

-------------------------------- MODULE MCLinks -------------------------------
(***************************************************************************)
(* What ends when its peer does, and must end when it does not: a          *)
(* connection, the client that dials it again, the relay between two of    *)
(* them, and an event stream with its consumers. They are checked side by  *)
(* side: part says which is at work, the others stay where they began.     *)
(***************************************************************************)
EXTENDS Connection, Reconnect, Relay, Streams

(* A terminal or not, one attempt or any number, a session that times out. *)
MCSessions ==
  {[interactive |-> i, reconnect |-> r, timed |-> ~i, attempts |-> n] :
     i \in BOOLEAN, r \in BOOLEAN, n \in {0, 1}}

(* The messages of each peer of the relay. *)
MCSent == [s \in Sides |-> IF s = "client" THEN 2 ELSE 1]

VARIABLE part

Parts == {"connection", "client", "relay", "streams"}

all == <<part, vars, rcVars, relVars, sseVars>>

(* The parts that are not at work take one of their initial states. *)
MCInit ==
  /\ part \in Parts
  /\ Init
  /\ ReconnectInit /\ (part # "client" => session = CHOOSE flags \in Sessions : TRUE)
  /\ RelayInit
  /\ SSEInit /\ (part # "streams" => named = None)

AtWork(name, next, rest) == part = name /\ next /\ UNCHANGED <<part, rest>>

ConnectionRun == AtWork("connection", Next, <<rcVars, relVars, sseVars>>)
ClientRun == AtWork("client", ReconnectNext \/ ReconnectQuiet, <<vars, relVars, sseVars>>)
RelayRun == AtWork("relay", RelayNext \/ RelayQuiet, <<vars, rcVars, sseVars>>)
StreamsRun == AtWork("streams", SSENext \/ SSEQuiet, <<vars, rcVars, relVars>>)

MCNext == ConnectionRun \/ ClientRun \/ RelayRun \/ StreamsRun

(* The fairness of each part, as its module has it, for the part at work. *)
MCFairness ==
  /\ WF_vars(part = "connection" /\ WriteLoopRuns)
  /\ WF_vars(part = "connection" /\ ReadLoop) /\ WF_vars(part = "connection" /\ ReadReturns)
  /\ \A m \in Msgs : WF_vars(part = "connection" /\ WriteReturns(m))
  /\ WF_vars(part = "connection" /\ FlushTimeout)
  /\ WF_vars(part = "connection" /\ CloserForceClose)
  /\ WF_vars(part = "connection" /\ CloseReturns)
  /\ WF_rcVars(part = "client" /\ Loop) /\ WF_rcVars(part = "client" /\ Sender)
  /\ SF_rcVars(part = "client" /\ TakeRequest) /\ SF_rcVars(part = "client" /\ InputEnded)
  /\ WF_relVars(part = "relay" /\ Handler)
  /\ \A x \in Sides : WF_relVars(part = "relay" /\ Pump(x))
  /\ \A p \in Producers : WF_sseVars(part = "streams" /\ Produce(p))
  /\ \A x \in Consumers : WF_sseVars(part = "streams" /\ ConsumerRuns(x))

MCSpec == MCInit /\ [][MCNext]_all /\ MCFairness

(* The type invariants of the parts; that of Connection has a run of its   *)
(* own.                                                                    *)
LinksTypeOK == ReconnectTypeOK /\ RelayTypeOK /\ SSETypeOK

(* Nothing is left behind: when a side of the relay ends, the relay closes *)
(* the other one and its handler and both pumps end, one that waits for a  *)
(* peer who reads nothing too; and consumers that connect to a stream get  *)
(* past their replay, and with them every call that waits for the stream.  *)
Unfinished == Ending \cup Connecting

EverythingEnds == Unfinished # {} ~> Unfinished = {}

=============================================================================

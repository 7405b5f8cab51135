------------------------------ MODULE Connection ------------------------------
(***************************************************************************)
(* One ws.Connection (internal/ws/connection.go): the goroutines calling   *)
(* Write, Subscribe, Unsubscribe and CloseWithCode, the write loop, the    *)
(* read loop and the gorilla socket below them.                            *)
(*                                                                         *)
(* Messages are abstract. Statistics, Err(), the read deadline and the     *)
(* round-trip time are left out: the deadline shows as a read error at any *)
(* moment.                                                                 *)
(***************************************************************************)
EXTENDS Integers, Sequences, FiniteSets, Absent

CONSTANTS Msgs,           \* one call of Write each
          Oversize,       \* those longer than _maxMessageSize
          CloseCodes,     \* the codes callers pass to CloseWithCode
          PeerCodes,      \* the codes the peer's close frame may carry
          Subs,           \* subscriber channels
          Primary,        \* the one NewConnection makes (_readCh)
          WriteCap,       \* capacity of _writeCh
          SubCap,         \* capacity of a subscriber channel
          MaxIn           \* bound: inbound messages in a behaviour

Normal == 1000     \* websocket.CloseNormalClosure
Abnormal == 1006   \* websocket.CloseAbnormalClosure

Codes == {Normal, Abnormal} \cup PeerCodes \cup CloseCodes

ASSUME ConnAssumption ==
  /\ Oversize \subseteq Msgs
  /\ PeerCodes \cup CloseCodes \subseteq Nat
  /\ Primary \in Subs
  /\ WriteCap \in Nat \ {0}
  /\ SubCap \in Nat \ {0}
  /\ MaxIn \in Nat
  /\ None \notin Msgs \cup Codes

VARIABLES
  done,       \* _closed, and _done closed with it
  netOpen,    \* Conn.Close() was not called yet
  closing,    \* _closing is closed
  closeCode,  \* _closeCode
  writer,     \* where each Write call is
  writeCh,    \* _writeCh
  wpc,        \* the write loop: where it is,
  wmsg,       \*   the message it took,
  wcode,      \*   and the code it read for its close frame
  goodbye,    \* who put a close frame on the socket: "none", "flush" or "echo"
  frameCode,  \* the code in that frame
  rpc,        \* the read loop: where it is,
  rcode,      \*   and the code of the CloseError it got
  inCount,    \* inbound messages read
  subs,       \* _subscribers
  chan,       \* each subscriber channel: "nil", "open" or "closed"
  pending,    \* messages in it
  closer,     \* where the CloseWithCode call that closes is
  reported,   \* the code handed to OnDisconnect
  accepted,   \* history: the messages Write returned nil for
  sent,       \* history: the data messages written to the socket
  flushMark   \* history: Len(accepted) when _closing was closed

state == <<done, netOpen>>
writers == <<writer, writeCh, accepted>>
wloop == <<wpc, wmsg, wcode, sent>>
frame == <<goodbye, frameCode>>
rloop == <<rpc, rcode, inCount>>
fanout == <<subs, chan, pending>>
closers == <<closing, closer, flushMark>>
vars == <<state, closers, closeCode, writers, wloop, frame, rloop, fanout, reported>>

(* forceClose closes _done and then the socket under _mu: between the two  *)
(* nobody else holds _mu, and that window is done /\ netOpen.              *)
MuFree == ~(done /\ netOpen)

Init ==
  /\ done = FALSE /\ netOpen = TRUE
  /\ closing = FALSE /\ closer = "idle" /\ flushMark = 0
  /\ closeCode = Normal
  /\ writer = [m \in Msgs |-> "idle"] /\ writeCh = <<>> /\ accepted = <<>>
  /\ wpc = "select" /\ wmsg = None /\ wcode = None /\ sent = <<>>
  /\ goodbye = "none" /\ frameCode = None
  /\ rpc = "start" /\ rcode = None /\ inCount = 0
  /\ subs = {Primary}
  /\ chan = [s \in Subs |-> IF s = Primary THEN "open" ELSE "nil"]
  /\ pending = [s \in Subs |-> 0]
  /\ reported = None

-----------------------------------------------------------------------------
(* Write *)

Others(m) == UNCHANGED <<state, closers, closeCode, wloop, frame, rloop, fanout, reported>>

WriteBegin(m) ==
  /\ writer[m] = "idle" /\ ~done /\ m \notin Oversize
  /\ writer' = [writer EXCEPT ![m] = "select"]
  /\ UNCHANGED <<writeCh, accepted>> /\ Others(m)

WriteRefused(m) ==
  /\ \/ writer[m] = "idle" /\ (done \/ m \in Oversize)
     \/ writer[m] = "select" /\ done
  /\ writer' = [writer EXCEPT ![m] = "refused"]
  /\ UNCHANGED <<writeCh, accepted>> /\ Others(m)

(* The select may still choose the queue when _done is closed too. *)
WriteAccepted(m) ==
  /\ writer[m] = "select" /\ Len(writeCh) < WriteCap
  /\ writer' = [writer EXCEPT ![m] = "accepted"]
  /\ writeCh' = Append(writeCh, m)
  /\ accepted' = Append(accepted, m)
  /\ Others(m)

-----------------------------------------------------------------------------
(* forceClose, whose caller sits at "force", then "closeNet", then `after` *)

MarkDone == MuFree /\ ~done /\ done' = TRUE /\ UNCHANGED netOpen
CloseSocket == done /\ netOpen' = FALSE /\ UNCHANGED done
AlreadyClosed == MuFree /\ done /\ UNCHANGED state

ForceClose(pc, pcNext, after) ==
  \/ pc = "force" /\ MarkDone /\ pcNext = "closeNet"
  \/ pc = "force" /\ AlreadyClosed /\ pcNext = after
  \/ pc = "closeNet" /\ CloseSocket /\ pcNext = after

-----------------------------------------------------------------------------
(* writeLoop *)

SocketTakes == netOpen /\ goodbye = "none"   \* else net.ErrClosed or ErrCloseSent

LoopMove(from, cond, to) ==
  /\ wpc = from /\ cond
  /\ wpc' = to
  /\ UNCHANGED <<state, closers, closeCode, writers, wmsg, wcode, sent, frame,
                 rloop, fanout, reported>>

(* Mutant: the message accepted last is taken first. *)
TakeNewest(from, to) ==
  /\ wpc = from /\ writeCh # <<>>
  /\ wmsg' = writeCh[Len(writeCh)]
  /\ writeCh' = SubSeq(writeCh, 1, Len(writeCh) - 1)
  /\ wpc' = to
  /\ UNCHANGED <<state, closers, closeCode, writer, accepted, wcode, sent, frame,
                 rloop, fanout, reported>>

TakeNext(from, to) ==
  /\ wpc = from /\ writeCh # <<>>
  /\ wmsg' = Head(writeCh)
  /\ writeCh' = Tail(writeCh)
  /\ wpc' = to
  /\ UNCHANGED <<state, closers, closeCode, writer, accepted, wcode, sent, frame,
                 rloop, fanout, reported>>

(* Mutant: a message still goes out after the socket was closed. *)
SendLate(from, to) ==
  /\ wpc = from
  /\ sent' = Append(sent, wmsg)
  /\ wmsg' = None
  /\ wpc' = to
  /\ UNCHANGED <<state, closers, closeCode, writers, wcode, frame,
                 rloop, fanout, reported>>

SendOK(from, to) ==
  /\ wpc = from /\ SocketTakes
  /\ sent' = Append(sent, wmsg)
  /\ wmsg' = None
  /\ wpc' = to
  /\ UNCHANGED <<state, closers, closeCode, writers, wcode, frame,
                 rloop, fanout, reported>>

LoopTake == TakeNext("select", "send")
LoopSendOK == SendOK("send", "select")
LoopTick == LoopMove("select", MuFree, "ping")
LoopPingOK == LoopMove("ping", SocketTakes, "select")
LoopStartFlush == LoopMove("select", closing, "flush")
LoopSeesDone == LoopMove("select", done, "force")
FlushTake == TakeNext("flush", "flushSend")
FlushSendOK == SendOK("flushSend", "flush")

(* A failed write ends the loop; the message it took is lost. *)
LoopWriteFails ==
  /\ wpc \in {"send", "flushSend", "ping"} /\ MuFree
  /\ wpc' = "force"
  /\ UNCHANGED <<state, closers, closeCode, writers, wmsg, wcode, sent, frame,
                 rloop, fanout, reported>>

(* Mutant: the close frame is sent without draining the queue. *)
FlushNothing ==
  /\ wpc = "flush" /\ MuFree
  /\ wcode' = closeCode
  /\ wpc' = "goodbye"
  /\ UNCHANGED <<state, closers, closeCode, writers, wmsg, sent, frame,
                 rloop, fanout, reported>>

(* The queue was found empty: read the code for the close frame. *)
FlushDone ==
  /\ wpc = "flush" /\ writeCh = <<>> /\ MuFree
  /\ wcode' = closeCode
  /\ wpc' = "goodbye"
  /\ UNCHANGED <<state, closers, closeCode, writers, wmsg, sent, frame,
                 rloop, fanout, reported>>

FlushGoodbye ==
  /\ wpc = "goodbye"
  /\ \/ SocketTakes /\ goodbye' = "flush" /\ frameCode' = wcode
     \/ UNCHANGED frame
  /\ wcode' = None
  /\ wpc' = "force"
  /\ UNCHANGED <<state, closers, closeCode, writers, wmsg, sent,
                 rloop, fanout, reported>>

LoopForceClose ==
  /\ ForceClose(wpc, wpc', "exited")
  /\ UNCHANGED <<closers, closeCode, writers, wmsg, wcode, sent, frame,
                 rloop, fanout, reported>>

WriteLoop ==
  \/ LoopTake \/ LoopSendOK \/ LoopTick \/ LoopPingOK \/ LoopStartFlush \/ LoopSeesDone
  \/ FlushTake \/ FlushSendOK \/ LoopWriteFails \/ FlushDone \/ FlushGoodbye \/ LoopForceClose

-----------------------------------------------------------------------------
(* readLoop *)

ReadMove(from, cond, to) ==
  /\ rpc = from /\ cond
  /\ rpc' = to
  /\ UNCHANGED <<state, closers, closeCode, writers, wloop, frame,
                 rcode, inCount, fanout, reported>>

ReadStart == ReadMove("start", TRUE, "read")

(* Setting the first read deadline fails on a closed socket only. *)
ReadStartFails ==
  /\ rpc = "start" /\ ~netOpen
  /\ rpc' = "closeSubs"
  /\ UNCHANGED <<state, closers, closeCode, writers, wloop, frame,
                 rcode, inCount, fanout, reported>>

HasRoomForOneMore(s) == pending[s] <= SubCap   \* mutant: off by one
HasRoom(s) == pending[s] < SubCap

(* A text, binary or pong message, or a ping that is answered afterwards,  *)
(* goes to every subscriber. Channels that are full are skipped; with      *)
(* _done closed the select may skip any other one too.                     *)
ReadMessage ==
  /\ rpc = "read" /\ MuFree /\ inCount < MaxIn
  /\ inCount' = inCount + 1
  /\ \E to \in SUBSET {s \in subs : HasRoom(s)} :
        /\ done \/ to = {s \in subs : HasRoom(s)}
        /\ pending' = [s \in Subs |-> IF s \in to THEN pending[s] + 1 ELSE pending[s]]
  /\ rpc' \in {"read", "answer"}
  /\ UNCHANGED <<state, closers, closeCode, writers, wloop, frame, rcode, subs, chan, reported>>

AnswerPing == ReadMove("answer", SocketTakes, "read")
AnswerPingFails == ReadMove("answer", TRUE, "error")

(* A close frame: the close handler records its code, echoes it, and      *)
(* ReadMessage returns it as a CloseError.                                *)
ReadCloseFrame ==
  /\ rpc = "read" /\ MuFree
  /\ \E code \in PeerCodes : closeCode' = code /\ rcode' = code
  /\ rpc' = "echo"
  /\ UNCHANGED <<state, closers, writers, wloop, frame, inCount, fanout, reported>>

EchoClose ==
  /\ rpc = "echo"
  /\ \/ SocketTakes /\ goodbye' = "echo" /\ frameCode' = rcode
     \/ UNCHANGED frame
  /\ rpc' = "closeError"
  /\ UNCHANGED <<state, closers, closeCode, writers, wloop,
                 rcode, inCount, fanout, reported>>

(* The peer is gone without a close frame: a CloseError all the same. *)
ReadEOF ==
  /\ rpc = "read"
  /\ rcode' = Abnormal
  /\ rpc' = "closeError"
  /\ UNCHANGED <<state, closers, closeCode, writers, wloop, frame,
                 inCount, fanout, reported>>

(* Any other error: the read deadline, a reset, our own Conn.Close(). *)
ReadFault == ReadMove("read", TRUE, "error")

ReadFails ==
  /\ rpc \in {"closeError", "error"} /\ MuFree
  /\ closeCode' = IF rpc = "closeError" THEN rcode
                  ELSE IF closeCode = Normal /\ ~done THEN Abnormal
                  ELSE closeCode
  /\ rcode' = None
  /\ rpc' = "closeSubs"
  /\ UNCHANGED <<state, closers, writers, wloop, frame, inCount, fanout, reported>>

(* The deferred function: close the subscribers, the connection, report. *)
CloseSubscribers ==
  /\ rpc = "closeSubs"
  /\ chan' = [s \in Subs |-> IF s \in subs THEN "closed" ELSE chan[s]]
  /\ subs' = {}
  /\ rpc' = "force"
  /\ UNCHANGED <<state, closers, closeCode, writers, wloop, frame,
                 rcode, inCount, pending, reported>>

ReadForceClose ==
  /\ ForceClose(rpc, rpc', "report")
  /\ UNCHANGED <<closers, closeCode, writers, wloop, frame,
                 rcode, inCount, fanout, reported>>

ReportDisconnect ==
  /\ rpc = "report" /\ MuFree
  /\ reported' = closeCode
  /\ rpc' = "exited"
  /\ UNCHANGED <<state, closers, closeCode, writers, wloop, frame,
                 rcode, inCount, fanout>>

ReadLoop ==
  \/ ReadStart \/ ReadStartFails \/ AnswerPing \/ AnswerPingFails
  \/ EchoClose \/ ReadFails \/ CloseSubscribers \/ ReadForceClose \/ ReportDisconnect

Peer == ReadMessage \/ ReadCloseFrame \/ ReadEOF \/ ReadFault

-----------------------------------------------------------------------------
(* Subscribe, Unsubscribe and the consumers *)

Subscribe(s) ==
  /\ chan[s] = "nil"
  /\ chan' = [chan EXCEPT ![s] = "open"]
  /\ subs' = subs \cup {s}
  /\ UNCHANGED <<state, closers, closeCode, writers, wloop, frame, rloop,
                 pending, reported>>

(* Mutant: the channel is closed and stays in the list. *)
UnsubscribeKeepsEntry(s) ==
  /\ s \in subs \ {Primary}
  /\ chan' = [chan EXCEPT ![s] = "closed"]
  /\ UNCHANGED <<state, closers, closeCode, writers, wloop, frame, rloop,
                 subs, pending, reported>>

Unsubscribe(s) ==
  /\ s \in subs \ {Primary}
  /\ chan' = [chan EXCEPT ![s] = "closed"]
  /\ subs' = subs \ {s}
  /\ UNCHANGED <<state, closers, closeCode, writers, wloop, frame, rloop,
                 pending, reported>>

Consume(s) ==
  /\ pending[s] > 0
  /\ pending' = [pending EXCEPT ![s] = @ - 1]
  /\ UNCHANGED <<state, closers, closeCode, writers, wloop, frame, rloop,
                 subs, chan, reported>>

-----------------------------------------------------------------------------
(* CloseWithCode *)

CloserMove(from, cond, to) ==
  /\ closer = from /\ cond
  /\ closer' = to
  /\ UNCHANGED <<state, closing, flushMark, closeCode, writers, wloop, frame,
                 rloop, fanout, reported>>

(* Mutant: CloseWithCode without its check of _closed. *)
CloseUnchecked(code) ==
  /\ MuFree /\ ~closing
  /\ closeCode' = code
  /\ closing' = TRUE
  /\ flushMark' = Len(accepted)
  /\ closer' = "wait"
  /\ UNCHANGED <<state, writers, wloop, frame, rloop, fanout, reported>>

(* With _closed set or _closing closed the call changes nothing: it       *)
(* returns nil at once, so only one call ever gets past this point.       *)
CloseWithCode(code) ==
  /\ MuFree /\ ~done /\ ~closing
  /\ closeCode' = code
  /\ closing' = TRUE
  /\ flushMark' = Len(accepted)
  /\ closer' = "wait"
  /\ UNCHANGED <<state, writers, wloop, frame, rloop, fanout, reported>>

NoFlushTimeout == CloserMove("wait", FALSE, "force")   \* mutant: wait for _done alone
FlushTimeout == CloserMove("wait", TRUE, "force")   \* two seconds

CloserForceClose ==
  /\ ForceClose(closer, closer', "forced")
  /\ UNCHANGED <<closing, flushMark, closeCode, writers, wloop, frame, rloop, fanout, reported>>

CloseReturns == \/ CloserMove("wait", done /\ MuFree, "returned")
                \/ CloserMove("forced", MuFree, "returned")

-----------------------------------------------------------------------------
(* Both loops have ended and nobody is blocked in a call. *)
Quiet ==
  /\ rpc = "exited" /\ wpc = "exited"
  /\ \A m \in Msgs : writer[m] \in {"accepted", "refused"}
  /\ closer \in {"idle", "returned"}
  /\ UNCHANGED vars

Next ==
  \/ \E m \in Msgs : WriteBegin(m) \/ WriteRefused(m) \/ WriteAccepted(m)
  \/ WriteLoop
  \/ ReadLoop
  \/ Peer
  \/ \E s \in Subs : Subscribe(s) \/ Unsubscribe(s) \/ Consume(s)
  \/ \E code \in CloseCodes : CloseWithCode(code)
  \/ FlushTimeout \/ CloserForceClose \/ CloseReturns
  \/ Quiet

(* The scheduler runs a goroutine that can go on, a timer fires, a read    *)
(* or a write on a closed socket returns. Nothing is assumed of the peer,  *)
(* of the network taking what is written, or of callers starting a call.   *)
WriteLoopRuns ==
  \/ LoopTake \/ LoopStartFlush \/ LoopSeesDone \/ FlushTake \/ FlushDone \/ LoopForceClose
  \/ ~SocketTakes /\ (LoopWriteFails \/ FlushGoodbye)
ReadReturns == ~netOpen /\ ReadFault
WriteReturns(m) == writer[m] = "select" /\ (WriteRefused(m) \/ WriteAccepted(m))

Fairness ==
  /\ WF_vars(WriteLoopRuns)
  /\ WF_vars(ReadLoop) /\ WF_vars(ReadReturns)
  /\ \A m \in Msgs : WF_vars(WriteReturns(m))
  /\ WF_vars(FlushTimeout) /\ WF_vars(CloserForceClose) /\ WF_vars(CloseReturns)

SafeSpec == Init /\ [][Next]_vars
Spec == SafeSpec /\ Fairness

-----------------------------------------------------------------------------
(* Properties *)

WritePCs == {"idle", "select", "accepted", "refused"}
LoopPCs == {"select", "send", "ping", "flush", "flushSend", "goodbye", "force", "closeNet", "exited"}
ReadPCs == {"start", "read", "answer", "echo", "closeError", "error",
            "closeSubs", "force", "closeNet", "report", "exited"}
ClosePCs == {"idle", "wait", "force", "closeNet", "forced", "returned"}

(* Every variable stays in its domain; the queues stay within their       *)
(* channel's capacity.                                                    *)
TypeOK ==
  /\ done \in BOOLEAN /\ netOpen \in BOOLEAN /\ closing \in BOOLEAN
  /\ closeCode \in Codes
  /\ writer \in [Msgs -> WritePCs]
  /\ writeCh \in Seq(Msgs) /\ Len(writeCh) <= WriteCap
  /\ accepted \in Seq(Msgs) /\ sent \in Seq(Msgs) /\ flushMark \in Nat
  /\ wpc \in LoopPCs /\ wmsg \in Msgs \cup {None} /\ wcode \in Codes \cup {None}
  /\ goodbye \in {"none", "flush", "echo"} /\ frameCode \in Codes \cup {None}
  /\ rpc \in ReadPCs /\ rcode \in Codes \cup {None} /\ inCount \in 0..MaxIn
  /\ subs \in SUBSET Subs /\ chan \in [Subs -> {"nil", "open", "closed"}]
  /\ pending \in [Subs -> 0..SubCap]
  /\ closer \in ClosePCs
  /\ reported \in Codes \cup {None}

(* Nothing Write accepted is lost, duplicated or reordered on its way: it  *)
(* was sent, is the one message the write loop holds (or failed to send),  *)
(* or waits in the queue. The write loop, its flush and concurrent Writes. *)
Held == IF wmsg = None THEN <<>> ELSE <<wmsg>>

Conservation == accepted = sent \o Held \o writeCh

(* A close frame that the flush sent comes after every message that was    *)
(* accepted before CloseWithCode began: closing gracefully cuts off none.  *)
GracefulFlush == goodbye = "flush" => Len(sent) >= flushMark

(* No send on, and no second close of, a closed channel (either panics):   *)
(* what the read loop delivers to and closes is open.                      *)
NoChannelPanic == \A s \in subs : chan[s] = "open"

(* What OnDisconnect is told is what CloseStatus says from then on: no     *)
(* closer, close frame or late error changes the code afterwards.          *)
ReportedIsFinal == reported # None => done /\ ~netOpen /\ reported = closeCode

(* What makes these inductive. While _mu is held by forceClose exactly one *)
(* goroutine is inside it, and the socket is closed only after _done.      *)
SingleForceClose ==
  /\ ~netOpen => done
  /\ MuFree => "closeNet" \notin {wpc, rpc, closer}
  /\ ~MuFree => \/ wpc = "closeNet" /\ "closeNet" \notin {rpc, closer}
                \/ rpc = "closeNet" /\ "closeNet" \notin {wpc, closer}
                \/ closer = "closeNet" /\ "closeNet" \notin {wpc, rpc}

LoopInv ==
  /\ wpc \in {"send", "flushSend"} => wmsg # None
  /\ wpc \in {"select", "ping", "flush", "goodbye"} => wmsg = None

FlushInv ==
  /\ wpc \in {"flush", "flushSend", "goodbye"} \/ goodbye = "flush" => closing
  /\ wpc = "goodbye" => Len(sent) >= flushMark
  /\ flushMark <= Len(accepted)

ReadInv ==
  /\ rpc \in {"echo", "closeError"} => rcode # None
  /\ rpc \in {"report", "exited"} => done /\ ~netOpen
  /\ reported # None => rpc = "exited" /\ reported = closeCode

IInv ==
  /\ TypeOK /\ Conservation /\ GracefulFlush /\ NoChannelPanic
  /\ SingleForceClose /\ LoopInv /\ FlushInv /\ ReadInv

(* However the connection is closed, and if the peer never reads and the   *)
(* flush is stuck: the caller of CloseWithCode gets its answer, both loops *)
(* end and OnDisconnect runs, no Write stays blocked on the full queue,    *)
(* and a channel that was subscribed while the read loop ran is closed, so *)
(* that a consumer ranging over it ends.                                   *)
CloseReleasesAll ==
  /\ closer = "wait" ~> closer = "returned"
  /\ (closing \/ done) ~> (wpc = "exited" /\ reported # None)
  /\ \A m \in Msgs : done /\ writer[m] = "select" ~> writer[m] # "select"
  /\ \A s \in Subs : s \in subs /\ done /\ rpc \in ReadPCs \ {"force", "closeNet", "report", "exited"}
                     ~> chan[s] = "closed"

(* The sending side is an OrderedLink.                                     *)
Link == INSTANCE OrderedLink WITH
          phase <- IF ~netOpen THEN "closed" ELSE IF closing THEN "closing" ELSE "open"
LinkSpec == Link!Spec

(* The comment at connection.go:506: an error is abnormal "if it's not a   *)
(* clean close and we didn't initiate closure".                            *)
OwnCloseNotAbnormal ==
  [][rpc = "error" /\ closing /\ closeCode # Abnormal => closeCode' # Abnormal]_closeCode

=============================================================================

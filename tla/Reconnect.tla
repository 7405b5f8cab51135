------------------------------- MODULE Reconnect -------------------------------
(***************************************************************************)
(* The session of xwebs connect (cmd/connect.go): the loop that dials,     *)
(* waits for the connection to end, backs off and dials again, with the    *)
(* goroutine that sends the user's input and the commands of the REPL.     *)
(* The connection itself is Connection; here it is up or it has ended.     *)
(***************************************************************************)
EXTENDS Naturals, Absent

CONSTANTS Sessions,     \* [interactive, reconnect, timed : BOOLEAN, attempts : Nat]
          MaxCount,     \* bound: reconnectCount is not counted further
          MaxLosses,     \* bound: connections that end by themselves
          MaxRequests   \* bound: :connect, :reconnect, :disconnect and lines of input

ASSUME ReconnectAssumption ==
  /\ \A s \in Sessions : /\ {s.interactive, s.reconnect, s.timed} \subseteq BOOLEAN
                         /\ s.attempts \in 0..MaxCount - 1
  /\ {MaxCount, MaxLosses, MaxRequests} \subseteq Nat
  /\ None \notin {"own", "normal", "abnormal", "fault"}

VARIABLES
  session,         \* the flags of this session
  phase,           \* where the loop is
  reconnectCount,
  open,            \* how many connections are not closed
  ended,           \* how the current connection ended, None while it is up
  dialChan,        \* whether a dial is requested (capacity 1)
  inputChan,       \* "none", "line" (its writer waits) or "closed"
  sendDone,        \* the sender goroutine has returned
  timedOut,         \* sessionCtx is done
  losses, requests  \* what was used of the bounds

rcVars == <<session, phase, reconnectCount, open, ended, dialChan, inputChan, sendDone, timedOut,
            losses, requests>>

ReconnectInit ==
  /\ session \in Sessions /\ phase = "dial" /\ reconnectCount = 0
  /\ open = 0 /\ ended = None /\ sendDone = FALSE
  /\ dialChan = FALSE /\ inputChan = "none" /\ timedOut = FALSE
  /\ losses = 0 /\ requests = 0

world == <<session, dialChan, inputChan, timedOut, losses, requests>>

(* The command has returned, at its end or with the error of an automation. *)
Over == phase \in {"over", "failed"}

-----------------------------------------------------------------------------
(* The loop *)

(* Closing the connection waits until it is closed. *)
CloseConn(how) ==
  /\ open' = IF ended = None THEN open - 1 ELSE open
  /\ ended' = IF ended = None THEN how ELSE ended

NoConn == UNCHANGED <<open, ended, sendDone>>

DialSucceeds ==
  /\ phase = "dial" /\ ~timedOut
  /\ phase' = "busy" /\ reconnectCount' = 0
  /\ open' = open + 1 /\ ended' = None /\ sendDone' = FALSE
  /\ UNCHANGED world

OutOfAttempts ==
  ~session.reconnect \/ (session.attempts > 0 /\ reconnectCount >= session.attempts)

DialFails ==
  /\ phase = "dial"
  /\ phase' = IF ~OutOfAttempts THEN "retry" ELSE IF session.interactive THEN "idle" ELSE "over"
  /\ UNCHANGED <<reconnectCount, world>> /\ NoConn

(* The selects that wait for a timer, a request or the context. *)
BackoffPasses ==
  /\ phase \in {"retry", "again"} /\ phase' = "dial"
  /\ reconnectCount' = IF phase = "retry" /\ reconnectCount < MaxCount
                       THEN reconnectCount + 1 ELSE reconnectCount
  /\ UNCHANGED world /\ NoConn

(* Mutant: the wait between two attempts does not look at the requests. *)
TakeRequestLate ==
  /\ dialChan /\ phase \in {"again", "idle", "select"}
  /\ dialChan' = FALSE /\ phase' = "dial" /\ reconnectCount' = 0
  /\ IF phase = "select" THEN CloseConn("own") ELSE UNCHANGED <<open, ended>>
  /\ UNCHANGED <<session, inputChan, timedOut, losses, requests, sendDone>>

(* Mutant: the connection of a forced dial is left open. *)
TakeRequestLeaky ==
  /\ dialChan /\ phase \in {"retry", "again", "idle", "select"}
  /\ dialChan' = FALSE /\ phase' = "dial" /\ reconnectCount' = 0
  /\ UNCHANGED <<session, inputChan, timedOut, losses, requests, sendDone, open, ended>>

TakeRequest ==
  /\ dialChan /\ phase \in {"retry", "again", "idle", "select"}
  /\ dialChan' = FALSE /\ phase' = "dial" /\ reconnectCount' = 0
  /\ IF phase = "select" THEN CloseConn("own") ELSE UNCHANGED <<open, ended>>
  /\ UNCHANGED <<session, inputChan, timedOut, losses, requests, sendDone>>

SessionExpires ==
  /\ timedOut /\ phase \in {"retry", "again", "idle", "select"}
  /\ phase' = "over"
  /\ IF phase = "select" THEN CloseConn("own") ELSE UNCHANGED <<open, ended>>
  /\ UNCHANGED <<reconnectCount, world, sendDone>>

(* Handlers of the connect event, --send, --input, --expect and a script   *)
(* run before the loop waits. A script's :exit is the end; without a       *)
(* terminal so is the end of any script, and the end of the automation     *)
(* closes the connection, whose end the loop then sees.                    *)
AutomationEnds ==
  /\ phase = "busy"
  /\ \/ phase' = "select" /\ UNCHANGED <<open, ended>>
     \/ phase' = "select" /\ ~session.interactive /\ CloseConn("own")
     \/ phase' = "over" /\ CloseConn("own")
  /\ UNCHANGED <<reconnectCount, world, sendDone>>

(* Without a terminal a failed --send, --input or --expect is returned at  *)
(* once: the connection is left as it is.                                  *)
AutomationFails ==
  /\ phase = "busy" /\ ~session.interactive
  /\ phase' = "failed"
  /\ UNCHANGED <<reconnectCount, world>> /\ NoConn

(* The main select takes any case that is ready when it looks; a goroutine *)
(* that already waits there takes the first that becomes ready (Ends).     *)
QuitSeen == inputChan = "closed" /\ session.interactive   \* r.Done()
Parked == phase = "select" /\ ~sendDone /\ ~QuitSeen /\ ~dialChan /\ ~timedOut /\ ended = None

InputEnded ==
  /\ phase = "select" /\ (sendDone \/ QuitSeen)
  /\ phase' = "over" /\ CloseConn("own")
  /\ UNCHANGED <<reconnectCount, world, sendDone>>

SeesEnd ==
  /\ phase = "select" /\ ended # None /\ phase' = "lost"
  /\ UNCHANGED <<reconnectCount, world>> /\ NoConn

(* IsUnexpectedCloseError knows close frames other than 1000 and 1001, and *)
(* an end of file; a reset or a missed pong is not a CloseError.           *)
Unexpected == ended = "abnormal"

AfterEnd ==
  /\ phase = "lost"
  /\ phase' = CASE session.reconnect /\ Unexpected -> "again"
                [] ~(session.reconnect /\ Unexpected) /\ session.interactive -> "idle"
                [] OTHER -> "over"
  /\ UNCHANGED <<reconnectCount, world>> /\ NoConn

(* Idle, a line of input is thrown away and the loop dials again. *)
IdleInput ==
  /\ phase = "idle" /\ inputChan # "none"
  /\ IF inputChan = "closed" THEN phase' = "over" /\ UNCHANGED inputChan
                             ELSE phase' = "dial" /\ inputChan' = "none"
  /\ UNCHANGED <<session, reconnectCount, dialChan, timedOut, losses, requests>> /\ NoConn

Loop ==
  \/ DialSucceeds \/ DialFails \/ BackoffPasses \/ TakeRequest \/ SessionExpires
  \/ AutomationEnds \/ AutomationFails \/ InputEnded \/ SeesEnd \/ AfterEnd \/ IdleInput

-----------------------------------------------------------------------------
(* The sender goroutine of the current connection *)

(* It may outlive the connection, until the next one has its own sender. *)
Sending == ~sendDone /\ ~Over /\ (ended # None \/ phase \in {"busy", "select"})

(* A write fails on a closed connection and for a message over the limit.  *)
SendLine ==
  /\ Sending /\ inputChan = "line" /\ inputChan' = "none"
  /\ \/ ended = None /\ UNCHANGED sendDone
     \/ sendDone' = TRUE
  /\ UNCHANGED <<session, phase, reconnectCount, open, ended, dialChan, timedOut, losses, requests>>

SenderReturns ==
  /\ Sending /\ (inputChan = "closed" \/ ended # None)
  /\ sendDone' = TRUE
  /\ UNCHANGED <<world, phase, reconnectCount, open, ended>>

Sender == SendLine \/ SenderReturns

-----------------------------------------------------------------------------
(* The user and the network *)

Uses(n) == requests + n <= MaxRequests /\ requests' = requests + n

(* Dial: a command of the REPL, which waits while a line waits to be sent  *)
(* or a request to be taken.                                               *)
RequestDial ==
  /\ session.interactive /\ ~Over /\ inputChan = "none" /\ ~dialChan
  /\ Uses(1) /\ dialChan' = TRUE
  /\ UNCHANGED <<session, phase, reconnectCount, open, ended, inputChan, sendDone, timedOut, losses>>

TypeLine ==
  /\ ~Over /\ inputChan = "none"
  /\ Uses(1) /\ inputChan' = "line"
  /\ UNCHANGED <<session, phase, reconnectCount, open, ended, dialChan, sendDone, timedOut, losses>>

(* :exit, or the end of the input. *)
CloseInput ==
  /\ ~Over /\ inputChan = "none" /\ inputChan' = "closed"
  /\ UNCHANGED <<session, phase, reconnectCount, open, ended, dialChan, sendDone, timedOut, losses,
                 requests>>

Ends(how) ==
  /\ CloseConn(how) /\ ended = None /\ open > 0 /\ phase \in {"busy", "select"}
  /\ phase' = IF Parked THEN "lost" ELSE phase
  /\ UNCHANGED <<session, reconnectCount, dialChan, inputChan, sendDone, timedOut>>

(* :disconnect, :close, --once and --until. *)
CloseConnection == Ends("own") /\ Uses(1) /\ UNCHANGED losses

(* A close frame of 1000 or 1001; another one or an end of file; a reset   *)
(* or a pong that does not come in time.                                   *)
Drop ==
  /\ losses < MaxLosses /\ losses' = losses + 1 /\ UNCHANGED requests
  /\ \E how \in {"normal", "abnormal", "fault"} : Ends(how)

TimeOut ==
  /\ session.timed /\ ~timedOut /\ timedOut' = TRUE
  /\ UNCHANGED <<session, phase, reconnectCount, open, ended, dialChan, inputChan, sendDone, losses,
                 requests>>

ReconnectNext ==
  \/ Loop \/ Sender \/ RequestDial \/ TypeLine \/ CloseInput \/ CloseConnection \/ Drop \/ TimeOut

ReconnectQuiet == Over /\ UNCHANGED rcVars

(* The goroutines run and a select takes a ready case sooner or later. *)
ReconnectFairness ==
  /\ WF_rcVars(Loop) /\ WF_rcVars(Sender)
  /\ SF_rcVars(TakeRequest) /\ SF_rcVars(InputEnded)

ReconnectSpec == ReconnectInit /\ [][ReconnectNext \/ ReconnectQuiet]_rcVars /\ ReconnectFairness

-----------------------------------------------------------------------------
(* Properties *)

(* Every variable stays in its domain, and the client holds one connection *)
(* at most, none while it dials, backs off or waits for the user, whatever *)
(* ended the one before: a drop, a request, the input or the session. It   *)
(* closes it before it returns, but for a --send, --input or --expect that *)
(* failed: that leaves open what the process's end has to close.           *)
ReconnectTypeOK ==
  /\ session \in Sessions
  /\ phase \in {"dial", "retry", "busy", "select", "lost", "again", "idle", "over", "failed"}
  /\ reconnectCount \in 0..MaxCount
  /\ ended \in {None, "own", "normal", "abnormal", "fault"}
  /\ {dialChan, sendDone, timedOut} \subseteq BOOLEAN /\ inputChan \in {"none", "line", "closed"}
  /\ open = (IF phase \in {"busy", "select", "failed"} /\ ended = None THEN 1 ELSE 0)

(* What the user asked for and waits for: a request to dial, and the end,  *)
(* where the number of attempts is limited.                                *)
Asked ==
  {what \in {"dial", "exit"} : /\ ~Over
                               /\ IF what = "dial" THEN dialChan
                                  ELSE inputChan = "closed" /\ (session.reconnect => session.attempts > 0)}

(* :connect and :reconnect are taken wherever the loop is, between two     *)
(* attempts too, and :exit ends the client.                                *)
UserIsServed == Asked # {} ~> Asked = {}

=============================================================================

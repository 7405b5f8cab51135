------------------------------- MODULE Dispatch -------------------------------
(***************************************************************************)
(* Pausing the server (Pause, Resume, IsPaused and WaitIfPaused in         *)
(* internal/server/server.go) and the two goroutines Dispatcher.Start      *)
(* (internal/handler/dispatcher.go) runs for every connection: the reader, *)
(* which handles a message or buffers it, and the flusher, which hands on  *)
(* what was buffered.                                                      *)
(*                                                                         *)
(* Messages are numbered per connection in the order they arrive. What     *)
(* handleMessage does with one is another module's subject.                *)
(***************************************************************************)
EXTENDS Absent, Naturals, Sequences, SequencesExt, Functions

CONSTANTS Conns,
          Admins,     \* goroutines calling Pause and Resume
          MaxMsgs,    \* bound: messages received by all connections
          MaxPauses   \* bound: calls of Pause

ASSUME DispatchAssumption == MaxMsgs \in Nat /\ MaxPauses \in Nat /\ None \notin Conns \cup Nat

VARIABLES
  paused,    \* s.paused
  pauses,    \* how often Pause was called
  admin,     \* where each caller of Pause and Resume is
  mu,        \* who holds s.mu
  waiters,   \* the notify list of s.pauseCond
  done,      \* the connection's Done() is closed
  hungUp,    \* the read loop has closed its subscribers' channels
  arrived,   \* messages received so far
  inbox,     \* the dispatcher's subscription
  rpc,       \* the reader: where it is,
  rmsg,      \*   and the message it took
  buffer,    \* d.buffer
  fpc,       \* the flusher: where it is,
  pending,   \*   and what it took out of the buffer
  handled,   \* history: messages given to handleMessage
  flushed,   \* history: those of them the flusher gave
  rleak,     \* history: messages the reader handled since Pause
  fleak      \* history: times the flusher took the buffer since Pause

gate == <<paused, pauses, admin, rleak, fleak>>
lock == <<mu, waiters>>
source == <<done, hungUp, arrived>>
reader == <<inbox, rpc, rmsg>>
flusher == <<fpc, pending, flushed>>
vars == <<gate, lock, source, reader, flusher, buffer, handled>>

Init ==
  /\ paused = FALSE /\ pauses = 0
  /\ admin = [a \in Admins |-> "idle"]
  /\ mu = None /\ waiters = {}
  /\ done = [c \in Conns |-> FALSE]
  /\ hungUp = [c \in Conns |-> FALSE]
  /\ arrived = [c \in Conns |-> 0]
  /\ inbox = [c \in Conns |-> <<>>]
  /\ rpc = [c \in Conns |-> "select"]
  /\ rmsg = [c \in Conns |-> None]
  /\ buffer = [c \in Conns |-> <<>>]
  /\ fpc = [c \in Conns |-> "top"]
  /\ pending = [c \in Conns |-> <<>>]
  /\ handled = [c \in Conns |-> <<>>]
  /\ flushed = [c \in Conns |-> <<>>]
  /\ rleak = [c \in Conns |-> 0]
  /\ fleak = [c \in Conns |-> 0]

-----------------------------------------------------------------------------
(* Pause and Resume; neither takes s.mu *)

Pause(a) ==
  /\ admin[a] = "idle" /\ pauses < MaxPauses
  /\ paused' = TRUE
  /\ pauses' = pauses + 1
  /\ IF paused THEN UNCHANGED <<rleak, fleak>>
     ELSE rleak' = [c \in Conns |-> 0] /\ fleak' = [c \in Conns |-> 0]
  /\ UNCHANGED <<admin, lock, source, reader, flusher, buffer, handled>>

ResumeStore(a) ==
  /\ admin[a] = "idle" /\ paused
  /\ paused' = FALSE
  /\ admin' = [admin EXCEPT ![a] = "broadcast"]
  /\ UNCHANGED <<pauses, rleak, fleak, lock, source, reader, flusher, buffer, handled>>

(* Mutant: Signal wakes one of the waiters. *)
ResumeSignal(a) ==
  /\ admin[a] = "broadcast"
  /\ admin' = [admin EXCEPT ![a] = "idle"]
  /\ waiters' = IF waiters = {} THEN {} ELSE waiters \ {CHOOSE c \in waiters : TRUE}
  /\ UNCHANGED <<paused, pauses, rleak, fleak, mu, source, reader, flusher, buffer, handled>>

ResumeBroadcast(a) ==
  /\ admin[a] = "broadcast"
  /\ admin' = [admin EXCEPT ![a] = "idle"]
  /\ waiters' = {}
  /\ UNCHANGED <<paused, pauses, rleak, fleak, mu, source, reader, flusher, buffer, handled>>

-----------------------------------------------------------------------------
(* The connection: its channel is closed when the read loop ends, Done()   *)
(* when either loop or a closer is done with it, in any order.             *)

Arrive(c) ==
  /\ ~hungUp[c] /\ SumFunction(arrived) < MaxMsgs
  /\ arrived' = [arrived EXCEPT ![c] = @ + 1]
  /\ inbox' = [inbox EXCEPT ![c] = Append(@, arrived[c] + 1)]
  /\ UNCHANGED <<gate, lock, done, hungUp, rpc, rmsg, flusher, buffer, handled>>

Close(c) ==
  /\ ~done[c]
  /\ done' = [done EXCEPT ![c] = TRUE]
  /\ UNCHANGED <<gate, lock, hungUp, arrived, reader, flusher, buffer, handled>>

HangUp(c) ==
  /\ ~hungUp[c]
  /\ hungUp' = [hungUp EXCEPT ![c] = TRUE]
  /\ UNCHANGED <<gate, lock, done, arrived, reader, flusher, buffer, handled>>

-----------------------------------------------------------------------------
(* The reader *)

(* With Done() closed the select may still choose the message. Then        *)
(* IsPaused decides; by the time the reader acts on it, it may be stale.   *)
ReaderTake(c) ==
  /\ rpc[c] = "select" /\ inbox[c] # <<>>
  /\ rmsg' = [rmsg EXCEPT ![c] = Head(inbox[c])]
  /\ inbox' = [inbox EXCEPT ![c] = Tail(@)]
  /\ rpc' = [rpc EXCEPT ![c] = IF paused THEN "buffer" ELSE "handle"]
  /\ UNCHANGED <<gate, lock, source, flusher, buffer, handled>>

ReaderExit(c) ==
  /\ rpc[c] = "select" /\ (done[c] \/ (hungUp[c] /\ inbox[c] = <<>>))
  /\ rpc' = [rpc EXCEPT ![c] = "exited"]
  /\ UNCHANGED <<gate, lock, source, inbox, rmsg, flusher, buffer, handled>>

addToBuffer(c) ==
  /\ rpc[c] = "buffer"
  /\ buffer' = [buffer EXCEPT ![c] = Append(@, rmsg[c])]
  /\ rmsg' = [rmsg EXCEPT ![c] = None]
  /\ rpc' = [rpc EXCEPT ![c] = "select"]
  /\ UNCHANGED <<gate, lock, source, inbox, flusher, handled>>

ReaderHandle(c) ==
  /\ rpc[c] = "handle"
  /\ handled' = [handled EXCEPT ![c] = Append(@, rmsg[c])]
  /\ rmsg' = [rmsg EXCEPT ![c] = None]
  /\ rpc' = [rpc EXCEPT ![c] = "select"]
  /\ rleak' = IF paused THEN [rleak EXCEPT ![c] = @ + 1] ELSE rleak
  /\ UNCHANGED <<paused, pauses, admin, fleak, lock, source, inbox, flusher, buffer>>

-----------------------------------------------------------------------------
(* The flusher: WaitIfPaused, flushBuffer, sleep, again *)

FlusherMove(c, from, cond, to) ==
  /\ fpc[c] = from /\ cond
  /\ fpc' = [fpc EXCEPT ![c] = to]
  /\ UNCHANGED <<gate, source, reader, pending, flushed, buffer, handled>>

(* Mutant: the buffer is flushed without asking whether the server runs. *)
NeverWait(c) == FlusherMove(c, "top", ~done[c], "flush") /\ UNCHANGED lock

FastPath(c) == FlusherMove(c, "top", ~done[c] /\ ~paused, "flush") /\ UNCHANGED lock
SlowPath(c) == FlusherMove(c, "top", ~done[c] /\ paused, "lock") /\ UNCHANGED lock
FlusherExit(c) == FlusherMove(c, "top", done[c], "exited") /\ UNCHANGED lock

(* s.mu is taken, at first and when Cond.Wait returns, and s.paused read.  *)
CanLock(c) == mu = None /\ c \notin waiters
SeesPaused(c) == FlusherMove(c, "lock", CanLock(c) /\ paused, "park") /\ mu' = c /\ UNCHANGED waiters

SeesResumed(c) == FlusherMove(c, "lock", CanLock(c) /\ ~paused, "flush") /\ UNCHANGED lock

(* Cond.Wait: join the notify list, unlock, sleep until taken off the list. *)
Park(c) == FlusherMove(c, "park", TRUE, "lock") /\ mu' = None /\ waiters' = waiters \cup {c}

(* Mutant: the buffer is handed on and not reset. *)
FlushKeepsBuffer(c) ==
  /\ fpc[c] = "flush"
  /\ pending' = [pending EXCEPT ![c] = buffer[c]]
  /\ fpc' = [fpc EXCEPT ![c] = IF buffer[c] = <<>> THEN "top" ELSE "handle"]
  /\ fleak' = IF paused /\ buffer[c] # <<>> THEN [fleak EXCEPT ![c] = @ + 1] ELSE fleak
  /\ UNCHANGED <<paused, pauses, admin, rleak, lock, source, reader, buffer, flushed, handled>>

flushBuffer(c) ==
  /\ fpc[c] = "flush"
  /\ pending' = [pending EXCEPT ![c] = buffer[c]]
  /\ buffer' = [buffer EXCEPT ![c] = <<>>]
  /\ fpc' = [fpc EXCEPT ![c] = IF buffer[c] = <<>> THEN "top" ELSE "handle"]
  /\ fleak' = IF paused /\ buffer[c] # <<>> THEN [fleak EXCEPT ![c] = @ + 1] ELSE fleak
  /\ UNCHANGED <<paused, pauses, admin, rleak, lock, source, reader, flushed, handled>>

FlusherHandle(c) ==
  /\ fpc[c] = "handle"
  /\ handled' = [handled EXCEPT ![c] = Append(@, Head(pending[c]))]
  /\ flushed' = [flushed EXCEPT ![c] = Append(@, Head(pending[c]))]
  /\ pending' = [pending EXCEPT ![c] = Tail(@)]
  /\ fpc' = [fpc EXCEPT ![c] = IF Len(pending[c]) = 1 THEN "top" ELSE "handle"]
  /\ UNCHANGED <<gate, lock, source, reader, buffer>>

-----------------------------------------------------------------------------
Reader(c) == ReaderTake(c) \/ ReaderExit(c) \/ addToBuffer(c) \/ ReaderHandle(c)

Flusher(c) ==
  \/ FastPath(c) \/ SlowPath(c) \/ FlusherExit(c) \/ SeesPaused(c) \/ SeesResumed(c)
  \/ Park(c) \/ flushBuffer(c) \/ FlusherHandle(c)

(* Everything may rest once all connections are closed, or while paused. *)
Quiet ==
  /\ \A c \in Conns : rpc[c] = "exited" /\ (fpc[c] = "exited" \/ c \in waiters)
  /\ UNCHANGED vars

Next ==
  \/ \E a \in Admins : Pause(a) \/ ResumeStore(a) \/ ResumeBroadcast(a)
  \/ \E c \in Conns : Arrive(c) \/ Close(c) \/ HangUp(c) \/ Reader(c) \/ Flusher(c)
  \/ Quiet

(* The scheduler runs every goroutine that can go on, and the mutex is     *)
(* fair. Nobody has to pause, to resume, to send or to close; a Resume     *)
(* that has begun goes on, and so does a connection's end (module          *)
(* Connection, ClosedIsReported and ConsumersReleased).                    *)
Fairness ==
  /\ \A c \in Conns : /\ WF_vars(Reader(c)) /\ WF_vars(Flusher(c))
                      /\ WF_vars(hungUp[c] /\ Close(c)) /\ WF_vars(done[c] /\ HangUp(c))
  /\ \A a \in Admins : WF_vars(ResumeBroadcast(a))

SafeSpec == Init /\ [][Next]_vars
Spec == SafeSpec /\ Fairness

-----------------------------------------------------------------------------
(* Properties *)

(* Every variable stays in its domain; s.mu is held by a flusher on its    *)
(* way into Cond.Wait only, and the reader holds a message while it works. *)
TypeOK ==
  /\ paused \in BOOLEAN /\ pauses \in 0..MaxPauses
  /\ admin \in [Admins -> {"idle", "broadcast"}]
  /\ mu \in Conns \cup {None} /\ waiters \in SUBSET Conns
  /\ done \in [Conns -> BOOLEAN] /\ hungUp \in [Conns -> BOOLEAN]
  /\ arrived \in [Conns -> Nat]
  /\ rpc \in [Conns -> {"select", "buffer", "handle", "exited"}]
  /\ rmsg \in [Conns -> Nat \cup {None}]
  /\ fpc \in [Conns -> {"top", "lock", "park", "flush", "handle", "exited"}]
  /\ inbox \in [Conns -> Seq(Nat)] /\ buffer \in [Conns -> Seq(Nat)]
  /\ pending \in [Conns -> Seq(Nat)]
  /\ handled \in [Conns -> Seq(Nat)] /\ flushed \in [Conns -> Seq(Nat)]
  /\ rleak \in [Conns -> Nat] /\ fleak \in [Conns -> Nat]
  /\ \A c \in Conns : /\ mu = c <=> fpc[c] = "park"
                      /\ rmsg[c] # None <=> rpc[c] \in {"buffer", "handle"}

(* A message is in one place at a time: handled, being flushed, buffered,  *)
(* with the reader or in the subscription. Reader and flusher, sharing the *)
(* buffer, neither lose one nor handle one twice, whenever the server is   *)
(* paused and resumed, and what was buffered is handed on in the order it  *)
(* arrived, over any number of pauses.                                     *)
Everywhere(c) == handled[c] \o pending[c] \o buffer[c]
                 \o (IF rmsg[c] = None THEN <<>> ELSE <<rmsg[c]>>) \o inbox[c]

BufferedOnce ==
  \A c \in Conns :
    LET kept == flushed[c] \o pending[c] \o buffer[c] IN
    /\ IsInjective(Everywhere(c))
    /\ ToSet(Everywhere(c)) = 1..arrived[c]
    /\ \A i, j \in DOMAIN kept : i < j => kept[i] < kept[j]

(* A pause is not a barrier, but what slips through it is bounded: on each *)
(* connection the one message the reader had let pass, and one last taking *)
(* of the buffer by the flusher.                                           *)
PauseLeaksOne == paused => \A c \in Conns : rleak[c] <= 1 /\ fleak[c] <= 1

(* A Resume wakes every flusher that sleeps, and each then hands on its    *)
(* connection's buffer, unless the server is paused again.                 *)
Resuming == \E a \in Admins : admin[a] = "broadcast"

ParkedIsFlushed ==
  \A c \in Conns :
    (c \in waiters /\ buffer[c] # <<>> /\ Resuming) ~> (buffer[c] = <<>> \/ paused)

(* README.md:468, of `:resume`: "Resume normal message processing and      *)
(* flush buffered messages".                                               *)
ResumeFlushes ==
  \A c \in Conns : buffer[c] # <<>> ~> (buffer[c] = <<>> \/ paused \/ done[c])

=============================================================================

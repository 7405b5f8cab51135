-------------------------------- MODULE Backoff --------------------------------
(***************************************************************************)
(* The loops that try again, and how long they wait: the retries of a      *)
(* handler (calculateBackoff, internal/handler/dispatcher.go), the         *)
(* goroutines of source handlers (internal/server/server.go) and the       *)
(* client's dials (internal/ws/backoff.go, called by cmd/connect.go).      *)
(*                                                                         *)
(* The first two shift and multiply integers of Width bits, the third one  *)
(* floating point numbers, whose exponent no number of dials exhausts.     *)
(***************************************************************************)
EXTENDS Integers

CONSTANTS Width,       \* bits of a time.Duration, 64 in the code
          Retriers,    \* [by : Kinds, linear : BOOLEAN, interval, max, count : Nat]
          MaxFailures  \* bound: failures of one loop

Power[k \in Nat] == IF k = 0 THEN 1 ELSE 2 * Power[k - 1]

Kinds == {"retry", "redis", "kafka", "subscribe", "client"}

ASSUME BackoffAssumption ==
  /\ Width \in Nat \ {0} /\ MaxFailures \in Nat
  /\ \A r \in Retriers : /\ r.by \in Kinds /\ r.linear \in BOOLEAN
                         /\ {r.interval, r.max, r.count} \subseteq Nat
                         /\ r.interval < Power[Width - 1] /\ r.max < Power[Width - 1]
                         /\ r.linear => r.by = "retry"

VARIABLES
  retrier,   \* whose loop it is, and its configuration
  trying,    \* "try", "wait", "up" or "over"
  failures,  \* attempt, or reconnectCount and the dial that has just failed
  wait,      \* how long it waits
  before     \* history: the wait before this one in the same outage, or 0

backVars == <<retrier, trying, failures, wait, before>>

BackoffInit ==
  /\ retrier \in Retriers /\ trying = "try" /\ failures = 0 /\ wait = 0 /\ before = 0

-----------------------------------------------------------------------------
(* What fits into Width bits of n, with a sign. *)
Wrapped(n) == ((n + Power[Width - 1]) % Power[Width]) - Power[Width - 1]
OneShifted(k) == IF k < Width THEN Wrapped(Power[k]) ELSE 0

AtMost(n, bound) == IF n > bound THEN bound ELSE n

calculateBackoff(n) ==
  IF retrier.linear THEN Wrapped(retrier.interval * n)
  ELSE AtMost(Wrapped(retrier.interval * OneShifted(n - 1)), retrier.max)

(* Mutant: the client shifts integers, as the others do. *)
ExponentialBackoffShifted(attempt) ==
  AtMost(Wrapped(retrier.interval * OneShifted(attempt)), retrier.max)

ExponentialBackoff(attempt) == AtMost(retrier.interval * Power[attempt], retrier.max)

WaitAfter(n) == IF retrier.by = "client" THEN ExponentialBackoff(n - 1) ELSE calculateBackoff(n)

(* A handler without retries gives up at once, a client whose number of    *)
(* attempts is 0 never does.                                               *)
MayRetry(n) ==
  CASE retrier.by = "retry" -> n <= retrier.count
    [] retrier.by = "client" -> retrier.count = 0 \/ n <= retrier.count
    [] OTHER -> TRUE

WaitFor(n, length) ==
  /\ failures' = n /\ trying' = "wait" /\ wait' = length /\ before' = wait
  /\ UNCHANGED retrier

TryFails ==
  /\ trying = "try" /\ failures < MaxFailures
  /\ LET n == failures + 1 IN
     IF MayRetry(n) THEN WaitFor(n, WaitAfter(n))
     ELSE trying' = "over" /\ failures' = n /\ UNCHANGED <<retrier, wait, before>>

TryAgain ==
  /\ trying = "wait" /\ trying' = "try"
  /\ UNCHANGED <<retrier, failures, wait, before>>

(* :connect and :reconnect do not wait for the timer. *)
DialNow ==
  /\ retrier.by = "client" /\ trying = "wait" /\ trying' = "try"
  /\ failures' = 0 /\ wait' = 0
  /\ UNCHANGED <<retrier, before>>

(* A handler is done and an MQTT or NATS subscription is left to its       *)
(* client. A Redis source and a dial start to count anew, Kafka does not.  *)
Succeeds ==
  /\ trying = "try"
  /\ trying' = IF retrier.by \in {"retry", "subscribe"} THEN "over" ELSE "up"
  /\ failures' = IF retrier.by \in {"redis", "client"} THEN 0 ELSE failures
  /\ wait' = 0 /\ before' = 0
  /\ UNCHANGED retrier

(* A lost connection of a source is one more failure; the client waits as  *)
(* after its first and counts the dials only.                              *)
IsLost ==
  /\ trying = "up" /\ failures < MaxFailures
  /\ IF retrier.by = "client" THEN WaitFor(0, ExponentialBackoff(0))
     ELSE WaitFor(failures + 1, WaitAfter(failures + 1))

BackoffNext == TryFails \/ TryAgain \/ DialNow \/ Succeeds \/ IsLost

BackoffQuiet == (trying = "over" \/ failures = MaxFailures) /\ UNCHANGED backVars

BackoffSpec == BackoffInit /\ [][BackoffNext \/ BackoffQuiet]_backVars

-----------------------------------------------------------------------------
(* Properties *)

(* Every variable stays in its domain. *)
BackoffTypeOK ==
  /\ retrier \in Retriers /\ trying \in {"try", "wait", "up", "over"} /\ failures \in 0..MaxFailures
  /\ {wait, before} \subseteq (-Power[Width - 1])..Power[Width - 1] - 1

(* The product a loop computes fits into its integers. *)
Fits ==
  \/ retrier.by = "client"
  \/ retrier.linear /\ retrier.interval * failures < Power[Width - 1]
  \/ ~retrier.linear /\ retrier.interval * Power[failures - 1] < Power[Width - 1]

(* During an outage no wait is shorter than the first one or than the one  *)
(* before, and none is longer than the maximum, so that a peer that is     *)
(* down is not overwhelmed: of the client whatever the number of dials, of *)
(* the others until the interval doubled for each failure outgrows its     *)
(* integers.                                                               *)
WaitsGrow ==
  trying = "wait" /\ Fits =>
    /\ wait >= before
    /\ wait >= AtMost(retrier.interval, retrier.max)
    /\ ~retrier.linear => wait <= retrier.max

=============================================================================

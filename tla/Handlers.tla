------------------------------- MODULE Handlers -------------------------------
(***************************************************************************)
(* Matching and executing handlers (handleMessage and Execute in           *)
(* internal/handler/dispatcher.go) while the registry that holds them      *)
(* (internal/handler/registry.go) is edited.                               *)
(*                                                                         *)
(* The registry is a Go slice: a backing array, of which the first len     *)
(* cells are in use. Match walks the array without the lock and hands out  *)
(* pointers into it, so arrays are objects here and a match is a cell; an  *)
(* edit that writes to an array changes what the pointers see. One edit is *)
(* one step and a cell is read as a whole: torn reads are not modelled.    *)
(*                                                                         *)
(* A handler is a record: its name, its priority, the messages it matches, *)
(* whether it is exclusive, serial (concurrent: false) or held back at     *)
(* times (rate_limit, debounce), its retries, and its kind: "once", the    *)
(* built-in, or "steps", any action list or pipeline with a respond.       *)
(***************************************************************************)
EXTENDS Naturals, Sequences, SequencesExt, FiniteSets

CONSTANTS Msgs,      \* the messages; each is handled in a goroutine of its own
          Names,     \* handler names
          Defs,      \* handlers that Add and Update may bring
          Configs,   \* the handler files, sorted by priority
          MaxEdits,  \* bound: edits of the registry
          None

Handler == [name : Names, pri : Nat, match : SUBSET Msgs, exclusive : BOOLEAN,
            serial : BOOLEAN, held : BOOLEAN, retry : Nat, kind : {"once", "steps"}]

ASSUME HandlersAssumption ==
  /\ Defs \subseteq Handler
  /\ Configs \subseteq Seq(Handler)
  /\ \A config \in Configs : \A i, j \in DOMAIN config : i < j => config[i].pri >= config[j].pri
  /\ MaxEdits \in Nat
  /\ None \notin Handler \cup Nat \cup Msgs

VARIABLES
  arrays,     \* the backing arrays allocated so far
  cur,        \* the one r.handlers points to
  len,        \* len(r.handlers)
  disabled,   \* the names in r.disabled
  handlerMu,  \* r.handlerMu: the index of a mutex, or None
  holder,     \* for each mutex allocated so far, who holds it
  call,       \* for each message, where its goroutine is
  log,        \* history: the executions of each message
  edits,      \* how many edits there were
  epoch,      \* history: edits that dropped or moved a name's mutex
  spent,      \* history: once handlers that fired and were not enabled since
  disturbed   \* history: messages whose cells were written to while in flight

slice == <<arrays, cur, len>>
mutexes == <<handlerMu, holder>>
vars == <<slice, disabled, mutexes, call, log, edits, epoch, spent, disturbed>>

(* arr, size and skip: what Match took under the lock. at: the cell it     *)
(* looks at next. todo: the cells that matched. who: the handler read last *)
(* for executing it. late: the once handlers spent when matching began.    *)
Idle == [pc |-> "idle", arr |-> 1, size |-> 0, skip |-> {}, at |-> 1, todo |-> <<>>,
         who |-> None, name |-> None, mu |-> None, epoch |-> 0, tries |-> 0, max |-> 0,
         how |-> None, late |-> {}]

Done == [Idle EXCEPT !.pc = "done"]

Init ==
  /\ \E config \in Configs, spare \in {<<>>, <<None>>} :
       arrays = <<config \o spare>> /\ len = Len(config)
  /\ cur = 1
  /\ disabled = {}
  /\ handlerMu = [n \in Names |-> None] /\ holder = <<>>
  /\ call = [m \in Msgs |-> Idle]
  /\ log = [m \in Msgs |-> <<>>]
  /\ edits = 0 /\ epoch = [n \in Names |-> 0]
  /\ spent = {} /\ disturbed = {}

InUse == {arrays[cur][i].name : i \in 1..len}
At(m, pc) == call[m].pc = pc
Cell(m) == arrays[call[m].arr][Head(call[m].todo)]
Goes(m, c) == call' = [call EXCEPT ![m] = c]

-----------------------------------------------------------------------------
(* Match *)

Matches(m, h) == h.name \notin call[m].skip /\ m \in h.match

MatchBegin(m) ==
  /\ At(m, "idle")
  /\ Goes(m, [Idle EXCEPT !.pc = IF len = 0 THEN "next" ELSE "match", !.arr = cur,
                          !.size = len, !.skip = disabled, !.late = spent])
  /\ UNCHANGED <<slice, disabled, mutexes, log, edits, epoch, spent, disturbed>>

MatchOne(m) ==
  LET c == call[m]
      h == arrays[c.arr][c.at]
      yes == Matches(m, h) IN
  /\ At(m, "match")
  /\ Goes(m, [c EXCEPT !.at = @ + 1,
                       !.todo = IF yes THEN Append(@, c.at) ELSE @,
                       !.pc = IF c.at = c.size \/ (yes /\ h.exclusive) THEN "next" ELSE "match"])
  /\ UNCHANGED <<slice, disabled, mutexes, log, edits, epoch, spent, disturbed>>

(* A matcher that cannot be evaluated: the message is handled by nobody. *)
MatchFails(m) ==
  /\ At(m, "match")
  /\ arrays[call[m].arr][call[m].at].name \notin call[m].skip
  /\ Goes(m, Done)
  /\ UNCHANGED <<slice, disabled, mutexes, log, edits, epoch, spent, disturbed>>

-----------------------------------------------------------------------------
(* The goroutine of one message: its matches one after the other *)

NoMore(m) ==
  /\ At(m, "next") /\ call[m].todo = <<>>
  /\ Goes(m, Done)
  /\ UNCHANGED <<slice, disabled, mutexes, log, edits, epoch, spent, disturbed>>

(* Over its rate limit, or left to a debounce timer. *)
HoldBack(m) ==
  /\ At(m, "next") /\ call[m].todo # <<>> /\ Cell(m).held
  /\ Goes(m, [call[m] EXCEPT !.todo = Tail(@)])
  /\ UNCHANGED <<slice, disabled, mutexes, log, edits, epoch, spent, disturbed>>

Attempts(c, h) == [c EXCEPT !.pc = "try", !.tries = 0, !.max = 1 + h.retry, !.who = h]

Start(m) ==
  LET h == Cell(m) IN
  /\ At(m, "next") /\ call[m].todo # <<>>
  /\ Goes(m, IF h.serial THEN [call[m] EXCEPT !.pc = "find", !.who = h, !.name = h.name]
             ELSE Attempts(call[m], h))
  /\ UNCHANGED <<slice, disabled, mutexes, log, edits, epoch, spent, disturbed>>

(* GetHandlerMu under the read lock, and again under the write lock. *)
Takes(m, mu) == Goes(m, [call[m] EXCEPT !.pc = "lock", !.mu = mu, !.epoch = epoch[call[m].name]])

FindMutex(m) ==
  LET mu == handlerMu[call[m].name] IN
  /\ At(m, "find")
  /\ IF mu # None THEN Takes(m, mu) ELSE Goes(m, [call[m] EXCEPT !.pc = "create"])
  /\ UNCHANGED <<slice, disabled, mutexes, log, edits, epoch, spent, disturbed>>

(* Mutant: without the second look. *)
CreateUnchecked(m) ==
  LET new == Len(holder) + 1 IN
  /\ At(m, "create")
  /\ Takes(m, new)
  /\ handlerMu' = [handlerMu EXCEPT ![call[m].name] = new]
  /\ holder' = Append(holder, None)
  /\ UNCHANGED <<slice, disabled, log, edits, epoch, spent, disturbed>>

CreateMutex(m) ==
  LET mu == handlerMu[call[m].name]
      new == Len(holder) + 1 IN
  /\ At(m, "create")
  /\ IF mu # None THEN Takes(m, mu) /\ UNCHANGED mutexes
     ELSE /\ Takes(m, new)
          /\ handlerMu' = [handlerMu EXCEPT ![call[m].name] = new]
          /\ holder' = Append(holder, None)
  /\ UNCHANGED <<slice, disabled, log, edits, epoch, spent, disturbed>>

LockMutex(m) ==
  /\ At(m, "lock") /\ holder[call[m].mu] = None
  /\ holder' = [holder EXCEPT ![call[m].mu] = m]
  /\ Goes(m, Attempts(call[m], Cell(m)))
  /\ UNCHANGED <<slice, disabled, handlerMu, log, edits, epoch, spent, disturbed>>

(* Mutant: the attempts are not counted. *)
AttemptedUncounted(c, how) ==
  IF how = "fail" /\ c.tries + 1 < c.max THEN [c EXCEPT !.pc = "backoff"]
  ELSE [c EXCEPT !.pc = "finish", !.tries = @ + 1, !.how = how]

(* What follows an attempt: "ok", "drop" and "limit" end the execution, a  *)
(* failure too when it was the last attempt, else the backoff comes first. *)
Attempted(c, how) ==
  IF how = "fail" /\ c.tries + 1 < c.max THEN [c EXCEPT !.pc = "backoff", !.tries = @ + 1]
  ELSE [c EXCEPT !.pc = "finish", !.tries = @ + 1, !.how = how]

(* One run of an action list or a pipeline, which may also fail to send    *)
(* its respond at the end: that error is returned without any retry.       *)
TrySteps(m) ==
  LET h == Cell(m) IN
  /\ At(m, "try") /\ h.kind = "steps"
  /\ \E how \in {"ok", "fail", "drop", "limit", "unsent"} :
       Goes(m, Attempted([call[m] EXCEPT !.who = h], how))
  /\ UNCHANGED <<slice, disabled, mutexes, log, edits, epoch, spent, disturbed>>

(* The built-in once: disable the handler of this name, then respond. *)
TryOnce(m) ==
  LET h == Cell(m) IN
  /\ At(m, "try") /\ h.kind = "once"
  /\ IF h.name \in InUse
     THEN /\ disabled' = disabled \cup {h.name}
          /\ Goes(m, [call[m] EXCEPT !.who = h, !.pc = "respond"])
     ELSE Goes(m, Attempted([call[m] EXCEPT !.who = h], "fail")) /\ UNCHANGED disabled
  /\ UNCHANGED <<slice, mutexes, log, edits, epoch, spent, disturbed>>

RespondOnce(m) ==
  /\ At(m, "respond")
  /\ \/ /\ Goes(m, Attempted(call[m], "ok"))
        /\ spent' = spent \cup ({call[m].who.name} \cap disabled)
     \/ Goes(m, Attempted(call[m], "fail")) /\ UNCHANGED spent
  /\ UNCHANGED <<slice, disabled, mutexes, log, edits, epoch, disturbed>>

(* The backoff passes, or the context ends first. *)
Backoff(m) ==
  /\ At(m, "backoff")
  /\ \/ Goes(m, [call[m] EXCEPT !.pc = "try"])
     \/ Goes(m, [call[m] EXCEPT !.pc = "finish", !.how = "cancelled"])
  /\ UNCHANGED <<slice, disabled, mutexes, log, edits, epoch, spent, disturbed>>

(* What is remembered of an execution: the handler, how it ended, whether  *)
(* it was a match, and whether the message came too late for a once.       *)
Report(m) ==
  LET c == call[m] IN
  [who |-> c.who, how |-> IF c.how \in {"ok", "drop"} THEN c.how ELSE "error",
   match |-> Matches(m, c.who), late |-> c.who.name \in c.late]

Rest(c) == [c EXCEPT !.todo = Tail(@), !.who = None, !.name = None, !.mu = None, !.epoch = 0,
                     !.tries = 0, !.max = 0, !.how = None]

Unlocked(mu) == IF mu = None THEN holder ELSE [holder EXCEPT ![mu] = None]

(* Mutant: a drop goes on with the next handler. *)
FinishOne(m) ==
  LET c == call[m] IN
  /\ At(m, "finish")
  /\ holder' = Unlocked(c.mu)
  /\ log' = [log EXCEPT ![m] = Append(@, Report(m))]
  /\ Goes(m, IF Cell(m).exclusive THEN Done
             ELSE [Rest(c) EXCEPT !.pc = "next"])
  /\ UNCHANGED <<slice, disabled, handlerMu, edits, epoch, spent, disturbed>>

(* Mutant: a cancelled retry returns without unlocking. *)
FinishLocked(m) ==
  LET c == call[m] IN
  /\ At(m, "finish")
  /\ holder' = IF c.how = "cancelled" THEN holder ELSE Unlocked(c.mu)
  /\ log' = [log EXCEPT ![m] = Append(@, Report(m))]
  /\ Goes(m, IF c.how = "drop" \/ Cell(m).exclusive THEN Done
             ELSE [Rest(c) EXCEPT !.pc = "next"])
  /\ UNCHANGED <<slice, disabled, handlerMu, edits, epoch, spent, disturbed>>

(* The deferred unlock; then a drop or an exclusive handler ends it all.   *)
Finish(m) ==
  LET c == call[m] IN
  /\ At(m, "finish")
  /\ holder' = Unlocked(c.mu)
  /\ log' = [log EXCEPT ![m] = Append(@, Report(m))]
  /\ Goes(m, IF c.how = "drop" \/ Cell(m).exclusive THEN Done
             ELSE [Rest(c) EXCEPT !.pc = "next"])
  /\ UNCHANGED <<slice, disabled, handlerMu, edits, epoch, spent, disturbed>>

-----------------------------------------------------------------------------
(* Edits of the registry, each under its write lock *)

InFlight(m) == call[m].pc \notin {"idle", "done"}

(* Counts the edit and notes whose cells it wrote to. *)
Edited ==
  /\ edits < MaxEdits /\ edits' = edits + 1
  /\ disturbed' = disturbed \cup
       {m \in Msgs : /\ InFlight(m) /\ call[m].arr = cur
                     /\ \E i \in 1..call[m].size : arrays'[cur][i] # arrays[cur][i]}

(* sort.SliceStable by descending priority: the handler of rank k comes    *)
(* k-th, after those of a higher priority and the earlier ones of its own. *)
Rank(s, i) == Cardinality({j \in DOMAIN s : s[j].pri > s[i].pri \/ (s[j].pri = s[i].pri /\ j <= i)})
Sorted(s) == [k \in DOMAIN s |-> s[CHOOSE i \in DOMAIN s : Rank(s, i) = k]]

InSlice == SubSeq(arrays[cur], 1, len)
Beyond(n) == SubSeq(arrays[cur], n + 1, Len(arrays[cur]))
Index(n) == CHOOSE i \in 1..len : arrays[cur][i].name = n

(* The slice is now s: written into its array, or into one of size cap.    *)
Overwrite(s) ==
  arrays' = [arrays EXCEPT ![cur] = s \o Beyond(Len(s))] /\ len' = Len(s) /\ UNCHANGED cur
Reallocate(s, cap) ==
  /\ arrays' = Append(arrays, [i \in 1..cap |-> IF i <= Len(s) THEN s[i] ELSE None])
  /\ cur' = Len(arrays) + 1 /\ len' = Len(s)

Add(h) ==
  /\ h.name \notin InUse
  /\ LET s == Sorted(Append(InSlice, h))
         cap == Len(arrays[cur]) IN
     IF len < cap THEN Overwrite(s)
     ELSE Reallocate(s, IF len + 1 > 2 * cap THEN len + 1 ELSE 2 * cap)
  /\ Edited
  /\ UNCHANGED <<disabled, mutexes, call, log, epoch, spent>>

UpdateHandler(h) ==
  /\ h.name \in InUse
  /\ Overwrite(Sorted(ReplaceAt(InSlice, Index(h.name), h)))
  /\ handlerMu' = [handlerMu EXCEPT ![h.name] = None]
  /\ epoch' = [epoch EXCEPT ![h.name] = @ + 1]
  /\ Edited
  /\ UNCHANGED <<disabled, holder, call, log, spent>>

(* The later cells move down one, the last one keeps its content. *)
Delete(n) ==
  /\ n \in InUse
  /\ arrays' = [arrays EXCEPT ![cur] =
       [i \in DOMAIN @ |-> IF Index(n) <= i /\ i < len THEN @[i + 1] ELSE @[i]]]
  /\ len' = len - 1 /\ UNCHANGED cur
  /\ handlerMu' = [handlerMu EXCEPT ![n] = None]
  /\ epoch' = [epoch EXCEPT ![n] = @ + 1]
  /\ disabled' = disabled \ {n} /\ spent' = spent \ {n}
  /\ Edited
  /\ UNCHANGED <<holder, call, log>>

Moved(S, n, k) == IF n \in S THEN (S \ {n}) \cup {k} ELSE S

(* Mutant: the disabled mark stays with the old name. *)
RenameUnmarked(n, k) ==
  /\ n \in InUse /\ k \notin InUse
  /\ arrays' = [arrays EXCEPT ![cur][Index(n)].name = k] /\ UNCHANGED <<cur, len>>
  /\ handlerMu' = [handlerMu EXCEPT ![k] = IF handlerMu[n] = None THEN @ ELSE handlerMu[n],
                                    ![n] = None]
  /\ epoch' = [epoch EXCEPT ![n] = @ + 1, ![k] = @ + 1]
  /\ spent' = Moved(spent, n, k)
  /\ Edited
  /\ UNCHANGED <<disabled, holder, call, log>>

RenameHandler(n, k) ==
  /\ n \in InUse /\ k \notin InUse
  /\ arrays' = [arrays EXCEPT ![cur][Index(n)].name = k] /\ UNCHANGED <<cur, len>>
  /\ handlerMu' = [handlerMu EXCEPT ![k] = IF handlerMu[n] = None THEN @ ELSE handlerMu[n],
                                    ![n] = None]
  /\ epoch' = [epoch EXCEPT ![n] = @ + 1, ![k] = @ + 1]
  /\ disabled' = Moved(disabled, n, k) /\ spent' = Moved(spent, n, k)
  /\ Edited
  /\ UNCHANGED <<holder, call, log>>

ReplaceHandlers(config) ==
  /\ Reallocate(Sorted(config), Len(config))
  /\ handlerMu' = [n \in Names |-> None]
  /\ epoch' = [n \in Names |-> epoch[n] + 1]
  /\ disabled' = {} /\ spent' = {}
  /\ Edited
  /\ UNCHANGED <<holder, call, log>>

EnableHandler(n) ==
  /\ n \in InUse /\ n \in disabled
  /\ disabled' = disabled \ {n} /\ spent' = spent \ {n}
  /\ UNCHANGED slice /\ Edited
  /\ UNCHANGED <<mutexes, call, log, epoch>>

DisableHandler(n) ==
  /\ n \in InUse
  /\ disabled' = disabled \cup {n}
  /\ UNCHANGED slice /\ Edited
  /\ UNCHANGED <<mutexes, call, log, epoch, spent>>

-----------------------------------------------------------------------------
Handle(m) ==
  \/ MatchOne(m) \/ MatchFails(m) \/ NoMore(m) \/ HoldBack(m) \/ Start(m)
  \/ FindMutex(m) \/ CreateMutex(m) \/ LockMutex(m)
  \/ TrySteps(m) \/ TryOnce(m) \/ RespondOnce(m) \/ Backoff(m) \/ Finish(m)

Edit ==
  \/ \E h \in Defs : Add(h) \/ UpdateHandler(h)
  \/ \E n \in Names : Delete(n) \/ EnableHandler(n) \/ DisableHandler(n)
  \/ \E n, k \in Names : RenameHandler(n, k)
  \/ \E config \in Configs : ReplaceHandlers(config)

Quiet == (\A m \in Msgs : ~InFlight(m)) /\ UNCHANGED vars

Next ==
  \/ \E m \in Msgs : MatchBegin(m) \/ Handle(m)
  \/ Edit
  \/ Quiet

(* Goroutines run, mutexes are fair, and an action that was begun ends: a  *)
(* shell command by its timeout, a write with its connection.              *)
Spec == Init /\ [][Next]_vars /\ \A m \in Msgs : WF_vars(Handle(m))

-----------------------------------------------------------------------------
(* Properties *)

PCs == {"idle", "match", "next", "find", "create", "lock", "try", "respond", "backoff", "finish", "done"}

(* Every variable stays in its domain; a pointer points into an array, and *)
(* whoever is past the lock of a serial handler is the one holding it.     *)
TypeOK ==
  /\ \A a \in DOMAIN arrays : \A i \in DOMAIN arrays[a] : arrays[a][i] \in Handler \cup {None}
  /\ cur \in DOMAIN arrays /\ len \in 0..Len(arrays[cur])
  /\ disabled \in SUBSET Names /\ spent \in SUBSET Names
  /\ handlerMu \in [Names -> DOMAIN holder \cup {None}] /\ holder \in Seq(Msgs \cup {None})
  /\ \A m \in Msgs :
       LET c == call[m] IN
       /\ c.pc \in PCs /\ c.tries \in 0..c.max
       /\ c.arr \in DOMAIN arrays /\ c.size <= Len(arrays[c.arr])
       /\ \A k \in DOMAIN c.todo : c.todo[k] \in 1..c.size /\ arrays[c.arr][c.todo[k]] # None
       /\ c.pc \in {"try", "respond", "backoff", "finish"} /\ c.mu # None <=>
            m \in ToSet(holder)
       /\ c.mu # None /\ m \in ToSet(holder) => holder[c.mu] = m
  /\ edits \in 0..MaxEdits /\ epoch \in [Names -> 0..MaxEdits]
  /\ disturbed \in SUBSET Msgs

(* concurrent: false. Two executions of one handler never overlap, however *)
(* the two first ones race to create its mutex, unless an edit dropped or  *)
(* moved that mutex between their look-ups.                                *)
Inside(m) == call[m].pc \in {"try", "respond", "backoff", "finish"} /\ call[m].mu # None

Serialized ==
  \A m, n \in Msgs :
    m # n /\ Inside(m) /\ Inside(n) /\ call[m].name = call[n].name => call[m].epoch # call[n].epoch

(* A message none of whose cells was written to meanwhile, by a reload for *)
(* instance, is handled by the handlers it matched, none of them disabled  *)
(* when it came, in the order of priority, and by none after a drop or an  *)
(* exclusive one.                                                          *)
InOrder ==
  \A m \in Msgs \ disturbed : \A i \in DOMAIN log[m] :
    LET e == log[m][i] IN
    /\ e.match
    /\ e.how = "drop" \/ e.who.exclusive => i = Len(log[m])
    /\ \A k \in 1..i : log[m][k].who.pri >= e.who.pri

(* Once a once handler has responded, messages that come later do not get  *)
(* a response, over updates and renames, until it is enabled, deleted or   *)
(* loaded anew.                                                            *)
NoSecondShot ==
  \A m \in Msgs \ disturbed : \A i \in DOMAIN log[m] : log[m][i].who.kind = "once" => ~log[m][i].late

(* Every message's goroutine comes to an end: no edit and no failure on    *)
(* the way leaves a handler's mutex locked.                                *)
MessagesFinish == \A m \in Msgs : InFlight(m) ~> At(m, "done")

(* dispatcher.go:305, of this goroutine: "Execute matching handlers        *)
(* sequentially in a single goroutine per message".                        *)
MatchingOnly == \A m \in Msgs : \A i \in DOMAIN log[m] : m \in log[m][i].who.match

(* builtins_impl.go:4129, of once: "Disable the handler first to avoid     *)
(* race conditions if multiple messages arrive", so that (4138) it is sent *)
(* "ONLY on the first match".                                              *)
Fired(m) == \E i \in DOMAIN log[m] : log[m][i].who.kind = "once" /\ log[m][i].how = "ok"

OnceOnly == edits = 0 => \A m, n \in Msgs : Fired(m) /\ Fired(n) => m = n

=============================================================================

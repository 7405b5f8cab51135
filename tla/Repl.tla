---------------------------------- MODULE Repl ----------------------------------
(***************************************************************************)
(* The loop of the interactive shell (Run and ExecuteCommand in            *)
(* internal/repl/repl.go): lines are put together from continuations,      *)
(* heredocs and the lines of :hedit, and the block that comes out is sent  *)
(* or executed. Aliases and :source execute commands inside commands.      *)
(***************************************************************************)
EXTENDS Naturals, Sequences, FiniteSets, Absent

CONSTANTS MaxDepth,    \* 10 in the code
          Aliases,     \* the names with a script alias, the others are files of :source
          Scripts,     \* for each name, its commands: names, "wait", "hedit", "fail" or "exit"
          MaxLines,    \* bound: lines typed
          MaxSignals   \* bound: interrupts

Leaves == {"wait", "hedit", "fail", "exit"}
Commands == DOMAIN Scripts \cup Leaves

ASSUME ReplAssumption ==
  /\ {MaxDepth, MaxLines, MaxSignals} \subseteq Nat
  /\ None \notin Seq(Nat)
  /\ Aliases \subseteq DOMAIN Scripts
  /\ \A n \in DOMAIN Scripts : Scripts[n] \in Seq(Commands)
  /\ \A n \in Aliases : Len(Scripts[n]) = 1

VARIABLES
  typed,                 \* history: the kind of every line read
  interruptedAt,         \* history: the lines after which an interrupt came
  pendingLines,          \* how many lines of :hedit are still to be read
  multiLineBuffer,       \* numbers of lines
  heredocBuffer,         \* numbers of lines, None when no delimiter is set
  blocks,                \* history: what came out, as the numbers of its lines
  calls,                 \* the commands being executed, innermost last
  execDepth,
  cmdCancel,             \* the place in calls of what an interrupt cancels, or 0
  exited

replVars == <<typed, interruptedAt, pendingLines, multiLineBuffer, heredocBuffer, blocks, calls,
              execDepth, cmdCancel, exited>>
input == <<typed, interruptedAt, pendingLines, multiLineBuffer, heredocBuffer, blocks>>

ReplInit ==
  /\ typed = <<>> /\ interruptedAt = <<>> /\ pendingLines = 0
  /\ multiLineBuffer = <<>> /\ heredocBuffer = None /\ blocks = <<>>
  /\ calls = <<>> /\ execDepth = 0 /\ cmdCancel = 0 /\ exited = FALSE

Prompting == calls = <<>> /\ ~exited

-----------------------------------------------------------------------------
(* Executing *)

Entry(name, off) == [name |-> name, ip |-> 0, off |-> off]

(* What counts towards the depth. *)
Counted(name) == name \in DOMAIN Scripts

(* Entering a command from a context that is cancelled or not. An alias    *)
(* is expanded in the caller's context and leaves cmdCancel alone.         *)
EnterCommand(name, stack, off) ==
  IF name \in DOMAIN Scripts /\ execDepth >= MaxDepth THEN FALSE
  ELSE /\ calls' = Append(stack, Entry(name, off))
       /\ execDepth' = IF Counted(name) THEN execDepth + 1 ELSE execDepth
       /\ cmdCancel' = IF name \in Aliases THEN cmdCancel ELSE Len(stack) + 1

Here == calls[Len(calls)]
Below == SubSeq(calls, 1, Len(calls) - 1)

UnwindTo(k) ==
  /\ calls' = SubSeq(calls, 1, k)
  /\ execDepth' = Cardinality({i \in 1..k : Counted(calls[i].name)})
  /\ cmdCancel' = IF \E i \in k + 1..Len(calls) : calls[i].name \notin Aliases THEN 0 ELSE cmdCancel

(* An error ends every command up to the innermost that was cancelled,     *)
(* which returns no error.                                                 *)
CancelledAt == {i \in DOMAIN calls : calls[i].off /\ calls[i].name \notin Aliases}

Returns == UnwindTo(Len(calls) - 1) /\ UNCHANGED exited
ReturnsError ==
  /\ UnwindTo(IF CancelledAt = {} THEN 0
              ELSE (CHOOSE i \in CancelledAt : \A j \in CancelledAt : j <= i) - 1)
  /\ UNCHANGED exited

(* A file too deep, in a cancelled script: no error. *)
TooDeep(i) ==
  /\ calls' = Append(Below, [Here EXCEPT !.ip = i]) /\ cmdCancel' = 0
  /\ UNCHANGED <<execDepth, exited>>

(* The next command of a script or an alias. *)
ScriptNext ==
  /\ calls # <<>> /\ Here.name \in DOMAIN Scripts
  /\ LET script == Scripts[Here.name]
         i == Here.ip + 1 IN
     IF i > Len(script) THEN Returns
     ELSE \/ /\ EnterCommand(script[i], Append(Below, [Here EXCEPT !.ip = i]), Here.off)
             /\ UNCHANGED exited
          \/ /\ script[i] \in DOMAIN Scripts /\ execDepth >= MaxDepth
             /\ IF Here.off /\ script[i] \notin Aliases THEN TooDeep(i) ELSE ReturnsError
  /\ UNCHANGED input

LeafEnds ==
  /\ calls # <<>> /\ Here.name \in Leaves
  /\ CASE Here.name = "exit" -> UnwindTo(0) /\ exited' = TRUE /\ UNCHANGED pendingLines
       [] Here.name = "fail" -> ReturnsError /\ UNCHANGED pendingLines
       [] Here.name = "wait" -> Returns /\ UNCHANGED pendingLines
       [] Here.name = "hedit" -> Returns /\ pendingLines' \in {pendingLines, 2}
  /\ UNCHANGED <<typed, interruptedAt, multiLineBuffer, heredocBuffer, blocks>>

(* An interrupt cancels the command noted last, and what runs inside it. *)
InterruptCommand ==
  /\ calls # <<>> /\ cmdCancel # 0 /\ ~calls[cmdCancel].off
  /\ Len(interruptedAt) < MaxSignals /\ interruptedAt' = Append(interruptedAt, Len(typed))
  /\ calls' = [i \in DOMAIN calls |-> IF i >= cmdCancel THEN [calls[i] EXCEPT !.off = TRUE] ELSE calls[i]]
  /\ UNCHANGED <<typed, pendingLines, multiLineBuffer, heredocBuffer, blocks, execDepth, cmdCancel,
                 exited>>

-----------------------------------------------------------------------------
(* Reading *)

Quiescent == UNCHANGED <<calls, execDepth, cmdCancel>>

(* A block is sent, or is the command its first line names. *)
Comes(block) ==
  /\ blocks' = Append(blocks, block)
  /\ \/ Quiescent
     \/ \E name \in Commands : EnterCommand(name, <<>>, FALSE)

(* A line that ends in a backslash, in a heredoc too. *)
Continue(n) ==
  /\ multiLineBuffer' = Append(multiLineBuffer, n)
  /\ UNCHANGED <<heredocBuffer, blocks>> /\ Quiescent

InHeredoc(n, kind) ==
  /\ IF kind = "close"
     THEN heredocBuffer' = None /\ Comes(heredocBuffer)
     ELSE heredocBuffer' = Append(heredocBuffer, n) /\ UNCHANGED blocks /\ Quiescent
  /\ UNCHANGED multiLineBuffer

(* Mutant: the buffer is kept for the next line. *)
JoinKept(n) == Comes(Append(multiLineBuffer, n)) /\ UNCHANGED <<multiLineBuffer, heredocBuffer>>

Join(n) ==
  Comes(Append(multiLineBuffer, n)) /\ multiLineBuffer' = <<>> /\ UNCHANGED heredocBuffer

Plain(n, kind) ==
  /\ IF kind = "open" THEN heredocBuffer' = <<n>> /\ UNCHANGED blocks /\ Quiescent
                      ELSE Comes(<<n>>) /\ UNCHANGED heredocBuffer
  /\ UNCHANGED multiLineBuffer

ReadLine(kind) ==
  LET n == Len(typed) + 1 IN
  /\ Prompting /\ Len(typed) < MaxLines
  /\ typed' = Append(typed, kind)
  /\ pendingLines' = IF pendingLines > 0 THEN pendingLines - 1 ELSE 0
  /\ CASE kind = "cont" -> Continue(n)
       [] kind # "cont" /\ heredocBuffer # None -> InHeredoc(n, kind)
       [] kind # "cont" /\ heredocBuffer = None /\ multiLineBuffer # <<>> -> Join(n)
       [] OTHER -> Plain(n, kind)
  /\ UNCHANGED <<interruptedAt, exited>>

(* An interrupt at the prompt: pending lines and continuations go, a       *)
(* heredoc stays open.                                                     *)
InterruptPrompt ==
  /\ Prompting /\ Len(interruptedAt) < MaxSignals
  /\ interruptedAt' = Append(interruptedAt, Len(typed))
  /\ pendingLines' = 0 /\ multiLineBuffer' = <<>>
  /\ UNCHANGED <<typed, heredocBuffer, blocks, exited>> /\ Quiescent

ReplNext ==
  \/ \E kind \in {"plain", "cont", "open", "close"} : ReadLine(kind)
  \/ InterruptPrompt \/ ScriptNext \/ LeafEnds \/ InterruptCommand

ReplQuiet == calls = <<>> /\ (exited \/ Len(typed) = MaxLines) /\ UNCHANGED replVars

ReplSpec == ReplInit /\ [][ReplNext \/ ReplQuiet]_replVars

-----------------------------------------------------------------------------
(* Properties *)

(* Every variable stays in its domain, and commands nest within the depth, *)
(* which is counted back however a command ends.                           *)
ReplTypeOK ==
  /\ Len(typed) <= MaxLines /\ Len(interruptedAt) <= MaxSignals /\ pendingLines \in 0..2
  /\ execDepth = Cardinality({i \in DOMAIN calls : calls[i].name \in DOMAIN Scripts})
  /\ execDepth <= MaxDepth /\ Len(calls) <= MaxDepth + 1
  /\ cmdCancel \in 0..Len(calls) /\ exited \in BOOLEAN

(* Each line that was typed comes out once, in its place. A heredoc has    *)
(* all the lines up to its delimiter, but for those that end in a          *)
(* backslash, and lines joined by backslashes follow each other, but for   *)
(* a heredoc in between. README.md:188 and 202 describe the two.           *)
LinesOf(block) == {block[k] : k \in DOMAIN block}
IsHeredoc(block) == typed[block[1]] = "open"

Heredocs == {LinesOf(blocks[i]) : i \in {i \in DOMAIN blocks : IsHeredoc(blocks[i])}}
            \cup (IF heredocBuffer = None THEN {} ELSE {LinesOf(heredocBuffer)})

BlocksWhole ==
  /\ \A i \in DOMAIN blocks : \A k \in 1..Len(blocks[i]) - 1 :
       \A n \in blocks[i][k] + 1..blocks[i][k + 1] - 1 :
         IF IsHeredoc(blocks[i]) THEN typed[n] = "cont"
         ELSE typed[n] = "close" \/ \E lines \in Heredocs : n \in lines
  /\ \A i, j \in DOMAIN blocks : i # j => LinesOf(blocks[i]) \cap LinesOf(blocks[j]) = {}

=============================================================================

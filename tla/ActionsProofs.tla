---------------------------- MODULE ActionsProofs -----------------------------
(***************************************************************************)
(* Theorems about Actions for any handlers, messages, clients and limits:  *)
(* the steps that read, store, count, rotate and spread what the built-ins *)
(* of all messages share keep its invariant.                               *)
(***************************************************************************)
EXTENDS ActionsSteps
-----------------------------------------------------------------------------
(* A built-in begins an inner handler and waits for it.                    *)
LEMMA EnterInside ==
  ASSUME ActionsInv, NEW g \in Goroutines, Runs(g, "enter"), NEW h \in HandlerNames, config[h] # None,
         stack' = [stack EXCEPT ![g] = Append(@, Frame(h))],
         UNCHANGED <<config, missing, reg, chat, stored, there, clock, log>>
  PROVE  ActionsInv'
<1>1. PICK f : f = Top(g)
  OBVIOUS
<1>2. PICK s : s = stack[g]
  OBVIOUS
<1>3. PICK n : n = Len(s)
  OBVIOUS
<1>4. /\ s # <<>> /\ f \in Frames /\ FrameFits(f) /\ f.pc = "run" /\ Script(f)[f.ip].op = "enter"
      /\ config \in Setups /\ log \in Seq(Entries)
  BY <1>1, <1>2, AtInstruction
<1>5. n \in Nat /\ n \in DOMAIN s /\ s[n] = f
  BY <1>1, <1>2, <1>3, <1>4, AtTop
<1>6. PICK e : e = Frame(h)
  OBVIOUS
<1>7. New(e) /\ e \in Frames /\ FrameFits(e) /\ e.pc = "lock"
  <2>1. New(e)
    BY <1>6 DEF New
  <2>2. QED
    BY <1>4, <2>1, NewFits
<1>8. /\ stack \in [Goroutines -> Seq(Frames)] /\ s \in Seq(Frames) /\ StackInv /\ MutexInv /\ AnswerInv
      /\ (IsSerial(f.h) => Fresher(f, g[1]))
  BY <1>2, <1>5 DEF ActionsInv, TypeInv, ReadInv
<1>9. PICK t : t = Append(s, e)
  OBVIOUS
<1>10. /\ t \in Seq(Frames) /\ Len(t) = n + 1 /\ DOMAIN t = 1..n + 1 /\ t[n + 1] = e /\ t # <<>>
       /\ DOMAIN s = 1..n /\ \A i \in 1..n : t[i] = s[i]
  <2>1. /\ t \in Seq(Frames) /\ Len(t) = n + 1 /\ DOMAIN t = 1..Len(t) /\ t[n + 1] = e
        /\ DOMAIN s = 1..n /\ \A i \in 1..n : t[i] = s[i]
    BY <1>3, <1>7, <1>8, <1>9, AppendProperties, LenProperties
  <2>2. n + 1 # 0
    BY <1>5
  <2>3. QED
    BY <2>1, <2>2, EmptySeq
<1>11. /\ stack' \in [Goroutines -> Seq(Frames)] /\ stack'[g] = t
       /\ \A k \in Goroutines : k # g => stack'[k] = stack[k]
  <2>1. stack' = [stack EXCEPT ![g] = t]
    BY <1>2, <1>6, <1>9
  <2>2. QED
    BY <1>8, <1>10, <2>1, StackOf
<1>12. \A i \in 1..n + 1 : i \in 1..n \/ (i = n + 1 /\ i \notin 1..n)
  BY <1>5
<1>13. Changes(g, n, f)
  <2>1. ASSUME NEW k \in Goroutines, NEW i \in DOMAIN stack'[k]
        PROVE  \/ i \in DOMAIN stack[k] /\ stack'[k][i] = stack[k][i] /\ <<k, i>> # <<g, n>>
               \/ k = g /\ i = n /\ stack'[k][i] = f
               \/ i \notin DOMAIN stack[k] /\ New(stack'[k][i])
    <3>1. CASE k # g
      BY <1>11, <2>1, <3>1
    <3>2. CASE k = g
      <4>1. i \in 1..n + 1
        BY <1>10, <1>11, <2>1, <3>2
      <4>2. CASE i = n + 1 /\ i \notin 1..n
        BY <1>2, <1>7, <1>10, <1>11, <3>2, <4>2
      <4>3. CASE i \in 1..n
        BY <1>2, <1>5, <1>10, <1>11, <3>2, <4>3
      <4>4. QED
        BY <1>12, <4>1, <4>2, <4>3
    <3>3. QED
      BY <3>1, <3>2
  <2>2. ASSUME NEW k \in Goroutines, NEW i \in DOMAIN stack[k]
        PROVE  i \in DOMAIN stack'[k]
    <3>1. 1..n \subseteq 1..n + 1
      BY <1>5
    <3>2. QED
      BY <1>2, <1>10, <1>11, <2>2, <3>1
  <2>3. f.pc # "lock" /\ f.h = stack[g][n].h /\ n \in DOMAIN stack[g]
    BY <1>2, <1>4, <1>5
  <2>4. QED
    BY <1>4, <1>11, <2>1, <2>2, <2>3 DEF Changes
<1>14. MutexInv'
  <2>1. stack[g][n].pc # "lock"
    BY <1>2, <1>4, <1>5
  <2>2. QED
    BY <1>8, <1>13, <2>1, MutexKept
<1>15. StackInv'
  <2>1. ASSUME NEW k \in Goroutines, NEW i \in DOMAIN stack'[k], i < Len(stack'[k])
        PROVE  \/ i \in DOMAIN stack[k] /\ i < Len(stack[k]) /\ stack'[k][i] = stack[k][i]
               \/ k = g /\ i = n /\ stack'[k][i] = f /\ f.pc = "run" /\ Script(f)[f.ip].op = "enter"
    <3>1. CASE k # g
      BY <1>11, <2>1, <3>1
    <3>2. CASE k = g
      <4>1. i \in 1..n + 1 /\ i < n + 1
        BY <1>10, <1>11, <2>1, <3>2
      <4>2. i \in 1..n /\ (i < n \/ i = n)
        BY <1>5, <4>1
      <4>3. QED
        BY <1>2, <1>3, <1>4, <1>5, <1>10, <1>11, <3>2, <4>2
    <3>3. QED
      BY <3>1, <3>2
  <2>2. QED
    BY <1>4, <1>8, <1>13, <2>1, StackKept
<1>16. ASSUME NEW m \in Inbox
       PROVE  stack'[<<m, "main">>] = <<>> <=> stack[<<m, "main">>] = <<>>
  <2>1. PICK k : k = <<m, "main">>
    OBVIOUS
  <2>2. k \in Goroutines
    BY <2>1 DEF Goroutines
  <2>3. QED
    BY <1>2, <1>4, <1>10, <1>11, <2>1, <2>2
<1>17. LogKeeps(Counted) /\ LogKeeps(Shared)
  BY DEF LogKeeps
<1>18. f = stack[g][n] /\ n \in DOMAIN stack'[g]
  <2>1. n \in 1..n + 1
    BY <1>5, <1>10
  <2>2. QED
    BY <1>2, <1>5, <1>10, <1>11, <2>1
<1>19. AnswerInv'
  <2>1. {"reply", "error", "end"} \subseteq Shared
    BY DEF Shared
  <2>2. QED
    BY <1>4, <1>8, <1>13, <1>16, <1>17, <1>18, <2>1, AnswerKept
<1>20. IsSerial(f.h) => Fresher(f, g[1])'
  BY <1>8, FresherSame
<1>21. WritesSame(stack[g][n], f)
  BY <1>18 DEF WritesSame
<1>22. stored' \in BOOLEAN /\ UNCHANGED <<config, missing, reg, chat, there, clock>>
  BY DEF ActionsInv, TypeInv
<1>23. QED
  BY <1>13, <1>14, <1>15, <1>17, <1>18, <1>19, <1>20, <1>21, <1>22, QuietChange

(* A built-in begins a handler beside its own and goes on.                 *)
LEMMA EnterAside ==
  ASSUME ActionsInv, NEW g \in Goroutines, Runs(g, "enter"), NEW h \in HandlerNames, config[h] # None,
         NEW aside, aside = <<g[1], "aside">>, stack[aside] = <<>>,
         stack' = [stack EXCEPT ![g] = Append(Front(@), Passed(Top(g))), ![aside] = <<Frame(h)>>],
         UNCHANGED <<config, missing, reg, chat, stored, there, clock, log>>
  PROVE  ActionsInv'
<1>1. PICK f : f = Top(g)
  OBVIOUS
<1>2. PICK s : s = stack[g]
  OBVIOUS
<1>3. PICK n : n = Len(s)
  OBVIOUS
<1>4. PICK e : e = Passed(f)
  OBVIOUS
<1>5. /\ s # <<>> /\ f \in Frames /\ FrameFits(f) /\ f.pc = "run" /\ Script(f)[f.ip].op = "enter"
      /\ config \in Setups /\ log \in Seq(Entries)
  BY <1>1, <1>2, AtInstruction
<1>6. n \in Nat /\ n \in DOMAIN s /\ s[n] = f
  BY <1>1, <1>2, <1>3, <1>5, AtTop
<1>7. Lands(f, f.got, e) /\ "enter" \notin Sharing
  <2>1. "enter" \notin Sharing
    BY DEF Sharing
  <2>2. QED
    BY <1>4, <1>5, <2>1, PassesLands
<1>8. e \in Frames /\ FrameFits(e) /\ e.h = f.h /\ e.pc # "lock"
  BY <1>7 DEF Lands
<1>9. PICK w : w = Frame(h)
  OBVIOUS
<1>10. New(w) /\ w \in Frames /\ FrameFits(w) /\ w.pc = "lock"
  <2>1. New(w)
    BY <1>9 DEF New
  <2>2. QED
    BY <1>5, <2>1, NewFits
<1>11. /\ stack \in [Goroutines -> Seq(Frames)] /\ s \in Seq(Frames) /\ StackInv /\ MutexInv
  BY <1>2 DEF ActionsInv, TypeInv
<1>12. PICK t : t = Append(Front(s), e)
  OBVIOUS
<1>13. /\ t \in Seq(Frames) /\ Len(t) = n /\ DOMAIN t = 1..n /\ DOMAIN s = 1..n /\ t[n] = e /\ t # <<>>
       /\ \A i \in 1..n : i # n => t[i] = s[i]
  <2>1. /\ t \in Seq(Frames) /\ Len(t) = n /\ DOMAIN t = 1..n /\ DOMAIN s = 1..n /\ t[n] = e /\ n # 0
        /\ \A i \in 1..n : i # n => t[i] = s[i]
    BY <1>3, <1>5, <1>8, <1>11, <1>12, TopReplaced
  <2>2. QED
    BY <2>1, EmptySeq
<1>14. aside \in Goroutines /\ aside # g /\ aside[2] = "aside"
  BY <1>2, <1>5 DEF Goroutines
<1>15. PICK q : q = <<w>>
  OBVIOUS
<1>16. q \in Seq(Frames) /\ Len(q) = 1 /\ DOMAIN q = {1} /\ q[1] = w
  BY <1>10, <1>15
<1>17. /\ stack' \in [Goroutines -> Seq(Frames)] /\ stack'[g] = t /\ stack'[aside] = q
       /\ \A k \in Goroutines : k \notin {g, aside} => stack'[k] = stack[k]
  <2>1. stack' = [stack EXCEPT ![g] = t, ![aside] = q]
    BY <1>1, <1>2, <1>4, <1>9, <1>12, <1>15
  <2>2. QED
    BY <1>11, <1>13, <1>14, <1>16, <2>1, ZenonT(40)
<1>18. DOMAIN stack[aside] = {}
  OBVIOUS
<1>19. Changes(g, n, e)
  <2>1. ASSUME NEW k \in Goroutines, NEW i \in DOMAIN stack'[k]
        PROVE  \/ i \in DOMAIN stack[k] /\ stack'[k][i] = stack[k][i] /\ <<k, i>> # <<g, n>>
               \/ k = g /\ i = n /\ stack'[k][i] = e
               \/ i \notin DOMAIN stack[k] /\ New(stack'[k][i])
    <3>1. CASE k \notin {g, aside}
      BY <1>17, <2>1, <3>1
    <3>2. CASE k = g
      <4>1. i \in 1..n
        BY <1>13, <1>17, <2>1, <3>2
      <4>2. QED
        BY <1>2, <1>13, <1>17, <3>2, <4>1
    <3>3. CASE k = aside
      <4>1. i = 1 /\ stack'[k][i] = w
        BY <1>16, <1>17, <2>1, <3>3
      <4>2. QED
        BY <1>10, <1>18, <3>3, <4>1
    <3>4. QED
      BY <3>1, <3>2, <3>3
  <2>2. ASSUME NEW k \in Goroutines, NEW i \in DOMAIN stack[k]
        PROVE  i \in DOMAIN stack'[k]
    <3>1. k # aside
      BY <1>18, <2>2
    <3>2. QED
      BY <1>2, <1>13, <1>17, <2>2, <3>1
  <2>3. e.h = stack[g][n].h /\ n \in DOMAIN stack[g]
    BY <1>2, <1>6, <1>8
  <2>4. QED
    BY <1>8, <1>17, <2>1, <2>2, <2>3 DEF Changes
<1>20. MutexInv'
  <2>1. stack[g][n].pc # "lock"
    BY <1>2, <1>5, <1>6
  <2>2. QED
    BY <1>11, <1>19, <2>1, MutexKept
<1>21. StackInv'
  <2>1. ASSUME NEW k \in Goroutines, NEW i \in DOMAIN stack'[k], i < Len(stack'[k])
        PROVE  i \in DOMAIN stack[k] /\ i < Len(stack[k]) /\ stack'[k][i] = stack[k][i]
    <3>1. CASE k \notin {g, aside}
      BY <1>17, <2>1, <3>1
    <3>2. CASE k = g
      <4>1. i \in 1..n /\ i < n
        BY <1>13, <1>17, <2>1, <3>2
      <4>2. i # n
        BY <1>6, <4>1
      <4>3. QED
        BY <1>2, <1>3, <1>13, <1>17, <3>2, <4>1, <4>2
    <3>3. CASE k = aside
      BY <1>16, <1>17, <2>1, <3>3
    <3>4. QED
      BY <3>1, <3>2, <3>3
  <2>2. \A k \in Goroutines : \A i \in DOMAIN stack'[k] : i < Len(stack'[k]) =>
          \/ i \in DOMAIN stack[k] /\ i < Len(stack[k]) /\ stack'[k][i] = stack[k][i]
          \/ k = g /\ i = n /\ stack'[k][i] = e /\ e.pc = "run" /\ Script(e)[e.ip].op = "enter"
    BY <2>1
  <2>3. QED
    BY ONLY <1>5, <1>11, <1>19, <2>2, StackKept, SMTT(40)
<1>22. ASSUME NEW m \in Inbox
       PROVE  stack'[<<m, "main">>] = <<>> <=> stack[<<m, "main">>] = <<>>
  <2>1. PICK k : k = <<m, "main">>
    OBVIOUS
  <2>2. k \in Goroutines /\ k # aside
    BY <1>14, <2>1 DEF Goroutines
  <2>3. QED
    BY <1>2, <1>5, <1>13, <1>17, <2>1, <2>2
<1>23. f = stack[g][n] /\ n \in DOMAIN stack'[g]
  BY <1>2, <1>6, <1>13, <1>17
<1>24. QED
  BY <1>5, <1>7, <1>19, <1>20, <1>21, <1>22, <1>23, CalmChange

(* A handler inside or beside another.                                     *)
LEMMA EnterKeeps ==
  ASSUME ActionsInv, NEW g \in Goroutines, EnterHandler(g)
  PROVE  ActionsInv'
<1>1. PICK f : f = Top(g)
  OBVIOUS
<1>2. PICK h : h = StepOf(f).target
  OBVIOUS
<1>3. Runs(g, "enter") /\ UNCHANGED <<config, missing, reg, chat, stored, there, clock, log>>
  BY DEF EnterHandler, shared
<1>4. /\ h \in HandlerNames /\ On(g) \in {"inside", "aside"} /\ stack[g] # <<>>
  <2>1. /\ Fits(StepOf(f).uses, f.ip, Script(f)[f.ip]) /\ Script(f)[f.ip].op = "enter"
        /\ On(g) = Script(f)[f.ip].on /\ StepOf(f).target \in HandlerNames /\ stack[g] # <<>>
    BY <1>1, <1>3, AtInstruction
  <2>2. QED
    BY <1>2, <2>1 DEF Fits
<1>5. CASE config[h] = None
  <2>1. Becomes(g, Stepped(f, "fail"))
    BY <1>1, <1>2, <1>5 DEF EnterHandler, Fails
  <2>2. "enter" \notin Sharing
    BY DEF Sharing
  <2>3. Lands(f, f.got, Stepped(f, "fail"))
    BY <1>1, <1>3, <2>2, CalmEnds
  <2>4. LogKeeps(Shared) /\ stored' \in BOOLEAN
    BY <1>3 DEF LogKeeps, ActionsInv, TypeInv
  <2>5. QED
    BY <1>1, <1>3, <2>1, <2>2, <2>3, <2>4, CalmInstruction
<1>6. CASE config[h] # None /\ On(g) = "inside"
  <2>1. stack' = [stack EXCEPT ![g] = Append(@, Frame(h))]
    BY <1>1, <1>2, <1>6 DEF EnterHandler
  <2>2. QED
    BY <1>3, <1>4, <1>6, <2>1, EnterInside
<1>7. CASE config[h] # None /\ On(g) = "aside"
  <2>1. PICK aside : aside = <<g[1], "aside">>
    OBVIOUS
  <2>2. /\ stack[aside] = <<>>
        /\ stack' = [stack EXCEPT ![g] = Append(Front(@), Passed(Top(g))), ![aside] = <<Frame(h)>>]
    BY <1>1, <1>2, <1>7, <2>1 DEF EnterHandler
  <2>3. QED
    BY <1>3, <1>4, <1>7, <2>1, <2>2, EnterAside
<1>8. QED
  BY <1>4, <1>5, <1>6, <1>7

-----------------------------------------------------------------------------
(* Instructions that share something *)

(* A frame that lands has told nothing.                                    *)
LEMMA LandsUntold ==
  ASSUME NEW f, NEW v, NEW e, Lands(f, v, e)
  PROVE  Untold(e) /\ e \in Frames /\ FrameFits(e) /\ e.h = f.h /\ e.pc # "lock"
BY DEF Lands, Untold

(* What every instruction establishes.                                     *)
LEMMA RunStep ==
  ASSUME ActionsInv, NEW g \in Goroutines, NEW op, Runs(g, op), NEW f, f = Top(g), NEW e, Becomes(g, e),
         e \in Frames, FrameFits(e), e.h = f.h, e.pc # "lock", Untold(e), config' = config,
         LogKeeps({"reply", "error", "end"})
  PROVE  LET n == Len(stack[g]) IN
         /\ Changes(g, n, e) /\ n \in DOMAIN stack[g] /\ n \in DOMAIN stack'[g]
         /\ stack[g][n] = f /\ stack'[g][n] = e
         /\ (IsSerial(f.h) => Fresher(f, g[1]))
         /\ stack \in [Goroutines -> Seq(Frames)] /\ stack' \in [Goroutines -> Seq(Frames)]
         /\ MutexInv' /\ StackInv' /\ AnswerInv'
<1> DEFINE n == Len(stack[g])
<1>1. stack[g] # <<>> /\ f.pc = "run"
  BY AtInstruction
<1>2. /\ Changes(g, n, e) /\ n \in DOMAIN stack[g] /\ n \in DOMAIN stack'[g]
      /\ stack[g][n] = f /\ stack'[g][n] = e
      /\ (IsSerial(f.h) => Fresher(f, g[1])) /\ log \in Seq(Entries)
      /\ stack \in [Goroutines -> Seq(Frames)] /\ stack' \in [Goroutines -> Seq(Frames)]
      /\ \A m \in Inbox : stack'[<<m, "main">>] = <<>> <=> stack[<<m, "main">>] = <<>>
      /\ MutexInv' /\ StackInv'
  BY <1>1, GoesOn
<1> HIDE DEF n
<1>3. AnswerInv
  BY DEF ActionsInv
<1>4. stack[g][n].pc \notin {"return", "all"} /\ Untold(e)
  BY <1>1, <1>2
<1>5. AnswerInv'
  BY <1>2, <1>3, <1>4, AnswerKept
<1>6. QED
  BY <1>2, <1>5 DEF n

(* Which frames write, and where one comes to write.                       *)
LEMMA Writers ==
  ASSUME config \in Setups, NEW f \in Frames, FrameFits(f), f.pc = "run"
  PROVE  /\ \A h : Rotating(f, h) => Script(f)[f.ip].op = "keep" /\ f.ip = 6
         /\ \A h, c : Spreading(f, h, c) => Script(f)[f.ip].op = "spread"
         /\ \A v, e, h : Lands(f, v, e) /\ Rotating(e, h) => Script(f)[f.ip].op = "rotate"
         /\ \A v, e, h, c : Lands(f, v, e) /\ Spreading(e, h, c) =>
              f.ip = 3 /\ StepOf(f).uses = "throttle-broadcast" /\ e.got = v /\ v.sent = c
<1>1. Marked(StepOf(f).uses, Script(f)) /\ f.ip \in Nat
  BY AtScript DEF FrameFits, Frames
<1>2. ASSUME NEW h, Rotating(f, h)
      PROVE  Script(f)[f.ip].op = "keep" /\ f.ip = 6
  BY <1>1, <1>2 DEF Rotating, Runner, Marked
<1>3. ASSUME NEW h, NEW c, Spreading(f, h, c)
      PROVE  Script(f)[f.ip].op = "spread"
  BY <1>1, <1>3 DEF Spreading, Runner, Marked
<1>4. ASSUME NEW v, NEW e, NEW h, Lands(f, v, e), Rotating(e, h)
      PROVE  Script(f)[f.ip].op = "rotate"
  <2>1. StepOf(f).uses = "round-robin" /\ e.ip = f.ip + 1 /\ e.ip \in {6}
    BY <1>4, CameFrom DEF Rotating
  <2>2. f.ip = 5
    BY <1>1, <2>1
  <2>3. QED
    BY <1>1, <2>1, <2>2 DEF Marked
<1>5. ASSUME NEW v, NEW e, NEW h, NEW c, Lands(f, v, e), Spreading(e, h, c)
      PROVE  f.ip = 3 /\ StepOf(f).uses = "throttle-broadcast" /\ e.got = v /\ v.sent = c
  <2>1. StepOf(f).uses = "throttle-broadcast" /\ e.ip = f.ip + 1 /\ e.ip \in {4} /\ e.got = v
    BY <1>5, CameFrom DEF Spreading
  <2>2. QED
    BY <1>1, <1>5, <2>1 DEF Spreading
<1>6. QED
  BY <1>2, <1>3, <1>4, <1>5

(* Who has written, taken or sent holds nothing that was read.             *)
LEMMA NotReading ==
  ASSUME config \in Setups, config' = config, NEW f \in Frames, FrameFits(f), f.pc = "run",
         Script(f)[f.ip].op \in {"keep", "rotate", "take", "spread"}, NEW v, NEW e, Lands(f, v, e), NEW m
  PROVE  Fresher(e, m)'
<1>1. Marked(StepOf(f).uses, Script(f)) /\ Fits(StepOf(f).uses, f.ip, Script(f)[f.ip]) /\ f.ip \in Nat
  BY AtScript DEF FrameFits, Frames
<1>2. ASSUME NEW c, NEW P, Runner(e, c, P), 1 \notin P
      PROVE  StepOf(f).uses = c /\ e.ip = f.ip + 1 /\ e.ip \in P
  BY <1>2, CameFrom
<1> DEFINE x == Script(f)[f.ip]
           b == StepOf(f).uses
<1>8. Fits(b, f.ip, x) /\ x.op \in {"keep", "rotate", "take", "spread"} /\ f.ip \in Nat
  BY <1>1
<1> HIDE DEF x, b
<1>9. /\ ~(b = "round-robin" /\ f.ip \in {3, 4}) /\ ~(b = "lua" /\ f.ip = 2)
      /\ ~(b \in Chats /\ f.ip \in {2, 3, 4})
  <2>1. x.op = "keep" => \/ b = "round-robin" /\ f.ip = 6
                         \/ b = "lua" /\ f.ip = 3
                         \/ b \in Chats /\ f.ip = 5
    BY <1>8 DEF Fits
  <2>2. x.op # "keep" => b \in {"round-robin", "throttle-broadcast", "sequence", "sample", "rate-limit"}
    BY <1>8 DEF Fits
  <2>3. x.op # "keep" /\ b = "round-robin" => f.ip = 5
    BY <1>8 DEF Fits
  <2>4. b = "lua" /\ f.ip = 2 => FALSE
    BY <2>1, <2>2 DEF Chats
  <2>5. b = "round-robin" /\ f.ip \in {3, 4} => FALSE
    BY <2>1, <2>3 DEF Chats
  <2>6. b \in Chats /\ f.ip \in {2, 3, 4} => FALSE
    BY <2>1, <2>2 DEF Chats
  <2>7. QED
    BY <2>4, <2>5, <2>6
<1>3. ASSUME Runner(e, "round-robin", {4, 5}) PROVE FALSE
  <2>1. StepOf(f).uses = "round-robin" /\ f.ip \in {3, 4}
    BY <1>1, <1>2, <1>3
  <2>2. QED
    BY <1>9, <2>1 DEF b
<1>4. ASSUME Runner(e, "lua", {3}) PROVE FALSE
  <2>1. StepOf(f).uses = "lua" /\ f.ip = 2
    BY <1>1, <1>2, <1>4
  <2>2. QED
    BY <1>9, <2>1 DEF b
<1>5. ASSUME NEW c \in Chats, Runner(e, c, 3..5) PROVE FALSE
  <2>1. StepOf(f).uses = c /\ f.ip \in {2, 3, 4}
    BY <1>1, <1>2, <1>5
  <2>2. QED
    BY <1>9, <2>1 DEF b
<1>6. \A c, P : Runner(e, c, P)' = Runner(e, c, P)
  BY SameConfig
<1>7. QED
  BY <1>3, <1>4, <1>5, <1>6 DEF Fresher

(* The last elements of a sequence.                                        *)
LEMMA KeptLast ==
  ASSUME config \in Setups, NEW h \in HandlerNames, NEW S, NEW s \in Seq(S)
  PROVE  LET t == Kept(h, s) IN
         /\ t \in Seq(S) /\ Len(s) \in Nat /\ Len(t) \in Nat /\ Limit(h) \in Nat /\ DOMAIN t = 1..Len(t)
         /\ Len(t) = IF Limit(h) > 0 /\ Len(s) > Limit(h) THEN Limit(h) ELSE Len(s)
         /\ \A k \in 1..Len(t) : t[k] = s[Len(s) - (Len(t) - k)]
<1> DEFINE l == Limit(h)
           n == Len(s)
           t == SubSeq(s, n - l + 1, n)
<1>1. l \in Nat /\ n \in Nat
  BY ActionsAssumption, LenProperties DEF Limit
<1> HIDE DEF l, n
<1>2. CASE l > 0 /\ n > l
  <2>1. n - l + 1 \in 1..n + 1 /\ n \in 0..n /\ n - l + 1 <= n
    BY <1>1, <1>2
  <2>2. \A k \in n - l + 1 .. n : s[k] \in S
    BY <2>1, <1>1, ElementOfSeq DEF n
  <2>3. t \in Seq(S) /\ Len(t) = l /\ \A k \in 1..l : t[k] = s[n - l + 1 + k - 1]
    BY <1>1, <1>2, <2>1, <2>2, SubSeqProperties DEF n
  <2> HIDE DEF t
  <2>4. \A k \in 1..l : n - l + 1 + k - 1 = n - (l - k)
    BY <1>1
  <2>5. t \in Seq(S) /\ Len(t) = l /\ \A k \in 1..l : t[k] = s[n - (l - k)]
    BY <2>3, <2>4
  <2>6. Kept(h, s) = t
    BY <1>2 DEF Kept, l, n, t
  <2>7. QED
    BY <1>1, <1>2, <2>5, <2>6, LenProperties DEF l, n
<1>3. CASE ~(l > 0 /\ n > l)
  <2>1. Kept(h, s) = s
    BY <1>3 DEF Kept, l, n
  <2>2. \A k \in 1..n : n - (n - k) = k
    BY <1>1
  <2>3. QED
    BY <1>1, <1>3, <2>1, <2>2, LenProperties DEF l, n
<1>4. QED
  BY <1>2, <1>3

(* A turn more.                                                            *)
LEMMA SaidTurn ==
  \A m \in Inbox : Said("user", m) \in Turns /\ Said("assistant", m) \in Turns
BY DEF Said, Turns

-----------------------------------------------------------------------------
(* What a built-in has read is as the next instructions need it.           *)
LookedUp(f, m, v) ==
  /\ v \in Gots /\ GotFits(StepOf(f).uses, f.ip + 1, v)
  /\ StepOf(f).uses = "round-robin" => f.ip = 3 /\ v = reg[f.h].rotation
  /\ StepOf(f).uses = "lua" => f.ip = 2 /\ v = reg[f.h].state
  /\ StepOf(f).uses \in Chats => f.ip = 2 /\ v = Asked(f.h, StepOf(f).uses, m)
  /\ StepOf(f).uses = "throttle-broadcast" => v.sent = None

(* The conversation the model is sent is one.                              *)
LEMMA AskedType ==
  ASSUME TypeInv, NEW h \in HandlerNames, NEW b \in Chats, NEW m \in Inbox
  PROVE  Asked(h, b, m) \in Seq(Turns)
<1>1. config \in Setups /\ chat[b] \in Seq(Turns) /\ Said("user", m) \in Turns
  BY SaidTurn DEF TypeInv
<1>2. Append(chat[b], Said("user", m)) \in Seq(Turns)
  BY <1>1, AppendProperties
<1>3. QED
  BY <1>1, <1>2, KeptLast DEF Asked

(* What a built-in reads to use it later.                                  *)
LEMMA LookKeeps ==
  ASSUME ActionsInv, NEW g \in Goroutines, LookAt(g)
  PROVE  ActionsInv'
<1>1. PICK f : f = Top(g)
  OBVIOUS
<1>2. Runs(g, "look") /\ UNCHANGED <<config, missing, reg, chat, stored, there, clock, log>>
  BY DEF LookAt, shared
<1>3. /\ f \in Frames /\ FrameFits(f) /\ Stands(f) /\ f.pc = "run" /\ f.how = "ok"
      /\ config \in Setups /\ f.h \in HandlerNames
      /\ Script(f)[f.ip].op = "look" /\ On(g) = Script(f)[f.ip].on
      /\ Fits(StepOf(f).uses, f.ip, Script(f)[f.ip])
      /\ f.ip \in Nat
  BY <1>1, <1>2, AtInstruction
<1>4. g[1] \in Inbox /\ TypeInv
  BY DEF Goroutines, ActionsInv
<1> DEFINE b == StepOf(f).uses
           Reads(v) == v = CASE On(g) = "stored" -> stored
                             [] On(g) = "rotation" -> reg[f.h].rotation
                             [] On(g) = "state" -> reg[f.h].state
                             [] On(g) = "clock" -> [now |-> clock, todo |-> there, sent |-> None]
                             [] On(g) = "history" -> Asked(f.h, b, g[1])
<1>5. PICK v : Becomes(g, Passed([f EXCEPT !.got = v])) /\ Reads(v)
  BY <1>1 DEF LookAt, PassesWith
<1>6. \/ On(g) = "stored" /\ b \in {"kv-get", "kv-list", "gate"}
      \/ On(g) = "rotation" /\ b = "round-robin" /\ f.ip = 3
      \/ On(g) = "state" /\ b = "lua" /\ f.ip = 2
      \/ On(g) = "clock" /\ b = "throttle-broadcast" /\ f.ip = 3
      \/ On(g) = "history" /\ b \in Chats /\ f.ip = 2
  BY <1>3 DEF Fits
<1>7. LookedUp(f, g[1], v)
  <2>1. CASE On(g) = "stored" /\ b \in {"kv-get", "kv-list", "gate"}
    <3>1. v = stored /\ stored \in BOOLEAN
      BY <1>4, <1>5, <2>1 DEF TypeInv
    <3>2. QED
      BY <2>1, <3>1 DEF LookedUp, GotFits, Gots, Chats
  <2>2. CASE On(g) = "rotation" /\ b = "round-robin" /\ f.ip = 3
    <3>1. v = reg[f.h].rotation /\ reg[f.h].rotation \in Places
      BY <1>3, <1>4, <1>5, <2>2 DEF TypeInv, Registers
    <3>2. v \in Gots
      BY <3>1, LenProperties, ActionsAssumption DEF Gots, Places
    <3>3. QED
      BY <2>2, <3>1, <3>2 DEF LookedUp, GotFits, Chats
  <2>3. CASE On(g) = "state" /\ b = "lua" /\ f.ip = 2
    <3>1. v = reg[f.h].state /\ reg[f.h].state \in Nat
      BY <1>3, <1>4, <1>5, <2>3 DEF TypeInv, Registers
    <3>2. QED
      BY <2>3, <3>1 DEF LookedUp, GotFits, Gots, Chats
  <2>4. CASE On(g) = "clock" /\ b = "throttle-broadcast" /\ f.ip = 3
    <3>1. v = [now |-> clock, todo |-> there, sent |-> None]
      BY <1>5, <2>4
    <3>2. v \in Looks /\ v.sent = None
      BY <1>4, <3>1 DEF TypeInv, Looks
    <3>3. QED
      BY <2>4, <3>2 DEF LookedUp, GotFits, Gots, Chats
  <2>5. CASE On(g) = "history" /\ b \in Chats /\ f.ip = 2
    <3>1. v = Asked(f.h, b, g[1])
      BY <1>5, <2>5
    <3>2. v \in Seq(Turns)
      BY <1>3, <1>4, <2>5, <3>1, AskedType
    <3>3. QED
      BY <2>5, <3>1, <3>2 DEF LookedUp, GotFits, Gots, Chats
  <2>6. QED
    BY <1>6, <2>1, <2>2, <2>3, <2>4, <2>5
<1> HIDE DEF Reads, b
<1>8. PICK e : e = Passed([f EXCEPT !.got = v])
  OBVIOUS
<1>9. Becomes(g, e) /\ Lands(f, v, e)
  BY <1>3, <1>5, <1>7, <1>8, PassedLands DEF LookedUp
<1>10. LogKeeps({"reply", "error", "end"}) /\ LogKeeps(Counted)
  BY <1>2 DEF LogKeeps
<1>11. Untold(e) /\ e \in Frames /\ FrameFits(e) /\ e.h = f.h /\ e.pc # "lock"
  BY <1>9, LandsUntold
<1> DEFINE n == Len(stack[g])
<1>12. /\ Changes(g, n, e) /\ n \in DOMAIN stack'[g] /\ stack[g][n] = f
       /\ (IsSerial(f.h) => Fresher(f, g[1]))
       /\ MutexInv' /\ StackInv' /\ AnswerInv'
  BY <1>1, <1>2, <1>9, <1>10, <1>11, RunStep
<1> HIDE DEF n
<1>13. WritesSame(f, e)
  <2>1. \A h : ~Rotating(f, h) /\ ~Rotating(e, h)
    BY <1>3, <1>9, Writers
  <2>2. ASSUME NEW h, NEW c \in ToSet(Pool)
        PROVE  ~Spreading(f, h, c) /\ ~Spreading(e, h, c)
    <3>1. ~Spreading(f, h, c)
      BY <1>3, Writers
    <3>2. Spreading(e, h, c) => StepOf(f).uses = "throttle-broadcast" /\ v.sent = c
      BY <1>3, <1>9, Writers
    <3>3. c # None
      BY ActionsAssumption
    <3>4. QED
      BY <1>7, <3>1, <3>2, <3>3 DEF LookedUp
  <2>3. /\ \A h : Rotating(f, h) = FALSE /\ Rotating(e, h) = FALSE
        /\ \A h : \A c \in ToSet(Pool) : Spreading(f, h, c) = FALSE /\ Spreading(e, h, c) = FALSE
    BY <2>1, <2>2 DEF Rotating, Spreading
  <2>4. QED
    BY <2>3 DEF WritesSame
<1>14. ASSUME IsSerial(e.h)
       PROVE  Fresher(e, g[1])'
  <2>1. ASSUME NEW c, NEW P, Runner(e, c, P), 1 \notin P
        PROVE  StepOf(f).uses = c /\ e.ip = f.ip + 1 /\ e.ip \in P /\ e.got = v
    BY <1>3, <1>9, <2>1, CameFrom
  <2>2. Fresher(e, g[1])
    BY <1>7, <1>11, <2>1 DEF Fresher, LookedUp
  <2>3. QED
    BY <1>2, <2>2, FresherSame
<1>15. UNCHANGED <<config, missing, reg, chat, there, clock>> /\ stored' \in BOOLEAN
  BY <1>2, <1>4 DEF TypeInv
<1>16. QED
  <2>1. WritesSame(stack[g][n], e)
    BY <1>12, <1>13
  <2>2. QED
    BY ONLY ActionsInv, <1>10, <1>12, <1>14, <1>15, <2>1, QuietChange

-----------------------------------------------------------------------------
(* One field of one handler's register is set.                             *)
Sets(h, k, v) == reg' = [reg EXCEPT ![h][k] = v]

(* What setting it leaves, field by field.                                 *)
LEMMA RegisterSet ==
  ASSUME reg \in [HandlerNames -> Registers], NEW h \in HandlerNames,
         NEW k \in {"sequence", "sample", "rotation", "limit", "state"}, NEW v,
         Sets(h, k, v),
         k = "sequence" => v \in 0..Responses - 1, k = "sample" => v \in Nat,
         k = "rotation" => v \in Places, k = "limit" => v \in 0..Burst, k = "state" => v \in Nat
  PROVE  /\ reg' \in [HandlerNames -> Registers]
         /\ \A x \in HandlerNames : x # h => reg'[x] = reg[x]
         /\ reg'[h].last = reg[h].last
         /\ reg'[h].sequence = IF k = "sequence" THEN v ELSE reg[h].sequence
         /\ reg'[h].sample = IF k = "sample" THEN v ELSE reg[h].sample
         /\ reg'[h].rotation = IF k = "rotation" THEN v ELSE reg[h].rotation
         /\ reg'[h].limit = IF k = "limit" THEN v ELSE reg[h].limit
         /\ reg'[h].state = IF k = "state" THEN v ELSE reg[h].state
<1> DEFINE r == reg[h]
           q == [r EXCEPT ![k] = v]
<1>1. r \in Registers /\ reg' = [reg EXCEPT ![h] = q]
  BY DEF Sets
<1> HIDE DEF r, q
<1>2. /\ q \in Registers /\ q.last = r.last
      /\ q.sequence = IF k = "sequence" THEN v ELSE r.sequence
      /\ q.sample = IF k = "sample" THEN v ELSE r.sample
      /\ q.rotation = IF k = "rotation" THEN v ELSE r.rotation
      /\ q.limit = IF k = "limit" THEN v ELSE r.limit
      /\ q.state = IF k = "state" THEN v ELSE r.state
  <2>1. CASE k = "sequence"
    BY <1>1, <2>1 DEF q, Registers
  <2>2. CASE k = "sample"
    BY <1>1, <2>2 DEF q, Registers
  <2>3. CASE k = "rotation"
    BY <1>1, <2>3 DEF q, Registers
  <2>4. CASE k = "limit"
    BY <1>1, <2>4 DEF q, Registers
  <2>5. CASE k = "state"
    BY <1>1, <2>5 DEF q, Registers
  <2>6. QED
    BY <2>1, <2>2, <2>3, <2>4, <2>5
<1>3. reg'[h] = q /\ reg' \in [HandlerNames -> Registers] /\ \A x \in HandlerNames : x # h => reg'[x] = reg[x]
  BY <1>1, <1>2
<1>4. QED
  BY <1>2, <1>3 DEF r

(* What the log says of a conversation.                                    *)
LEMMA RememberedKept ==
  ASSUME config' = config, log \in Seq(Entries), NEW K, LogKeeps(K), "turn" \in K,
         NEW h, NEW b, NEW seq, Remembered(h, b, seq)
  PROVE  Remembered(h, b, seq)'
<1>1. Logged(h, "turn")' = Logged(h, "turn") /\ \A i \in Logged(h, "turn") : log'[i] = log[i]
  BY AtKept
<1>2. {i \in Logged(h, "turn") : log[i].val = b}' = {i \in Logged(h, "turn") : log[i].val = b}
  BY <1>1
<1>3. Limit(h)' = Limit(h)
  BY SameConfig
<1>4. QED
  BY <1>1, <1>2, <1>3 DEF Remembered

(* What a frame has in got fits its next instruction.                      *)
Onward(f, v) == v \in Gots /\ GotFits(StepOf(f).uses, f.ip + 1, v)

(* What it is after an instruction that puts v there.                      *)
Onto(f, v) == Passed([f EXCEPT !.got = v])

(* What every step that stores, takes or sends establishes.                *)
Shifts(g, n, op, f, v, e) ==
  /\ Lands(f, v, e) /\ Changes(g, n, e) /\ n \in DOMAIN stack'[g] /\ n \in DOMAIN stack[g]
  /\ stack[g][n] = f /\ stack'[g][n] = e /\ e.h = f.h
  /\ (IsSerial(f.h) => Fresher(f, g[1])) /\ Fresher(e, g[1])'
  /\ MutexInv' /\ StackInv' /\ AnswerInv'
  /\ stack \in [Goroutines -> Seq(Frames)] /\ stack' \in [Goroutines -> Seq(Frames)]
  /\ \A h : op # "rotate" => Rotating(e, h) = FALSE
  /\ \A h : op # "keep" => Rotating(f, h) = FALSE
  /\ \A h : \A c : Spreading(f, h, c) = FALSE /\ Spreading(e, h, c) = FALSE

(* A step that stores, takes or sends does so.                             *)
LEMMA SharedStep ==
  ASSUME ActionsInv, NEW g \in Goroutines, NEW op \in {"keep", "take", "rotate"}, Runs(g, op),
         NEW f, f = Top(g), NEW v, Onward(f, v), NEW e, e = Onto(f, v), Becomes(g, e), config' = config,
         LogKeeps({"reply", "error", "end"})
  PROVE  Shifts(g, Len(stack[g]), op, f, v, e)
<1> DEFINE n == Len(stack[g])
<1>1. /\ f \in Frames /\ FrameFits(f) /\ Stands(f) /\ f.pc = "run" /\ config \in Setups
      /\ Script(f)[f.ip].op = op
  BY AtInstruction
<1>2. Lands(f, v, e)
  BY <1>1, PassedLands DEF Onward, Onto
<1>3. Untold(e) /\ e \in Frames /\ FrameFits(e) /\ e.h = f.h /\ e.pc # "lock"
  BY <1>2, LandsUntold
<1>4. /\ Changes(g, n, e) /\ n \in DOMAIN stack[g] /\ n \in DOMAIN stack'[g]
      /\ stack[g][n] = f /\ stack'[g][n] = e
      /\ (IsSerial(f.h) => Fresher(f, g[1]))
      /\ stack \in [Goroutines -> Seq(Frames)] /\ stack' \in [Goroutines -> Seq(Frames)]
      /\ MutexInv' /\ StackInv' /\ AnswerInv'
  BY <1>3, RunStep
<1> HIDE DEF n
<1>5. Fresher(e, g[1])'
  BY <1>1, <1>2, NotReading
<1>6. /\ \A h : Rotating(f, h) => op = "keep"
      /\ \A h : Rotating(e, h) => op = "rotate"
      /\ \A h, c : Spreading(f, h, c) => op = "spread"
      /\ \A h, c : ~Spreading(e, h, c)
  <2>1. \A h : Rotating(f, h) => op = "keep"
    BY <1>1, Writers
  <2>2. \A h : Rotating(e, h) => op = "rotate"
    BY <1>1, <1>2, Writers
  <2>3. \A h, c : Spreading(f, h, c) => op = "spread"
    BY <1>1, Writers
  <2>4. ASSUME NEW h, NEW c, Spreading(e, h, c)
        PROVE  FALSE
    <3>1. StepOf(f).uses = "throttle-broadcast" /\ f.ip = 3
      BY <1>1, <1>2, <2>4, Writers
    <3>2. Marked(StepOf(f).uses, Script(f))
      BY AtInstruction
    <3>3. QED
      BY <1>1, <3>1, <3>2 DEF Marked
  <2>5. QED
    BY <2>1, <2>2, <2>3, <2>4
<1>7. /\ \A h : op # "rotate" => Rotating(e, h) = FALSE
      /\ \A h : op # "keep" => Rotating(f, h) = FALSE
      /\ \A h : \A c : Spreading(f, h, c) = FALSE /\ Spreading(e, h, c) = FALSE
  BY <1>6 DEF Rotating, Spreading
<1>8. QED
  BY <1>2, <1>3, <1>4, <1>5, <1>7 DEF n, Shifts

-----------------------------------------------------------------------------
(* Storing back                                                            *)

(* A frame that passes has in got what it had.                             *)
LEMMA PassedSame ==
  ASSUME NEW f \in Frames
  PROVE  Passed(f) = Onto(f, f.got)
<1>1. [f EXCEPT !.got = f.got] = f
  BY DEF Frames
<1>2. QED
  BY <1>1 DEF Onto

(* An instruction that stores has what it is to store.                     *)
LEMMA KeepsOnward ==
  ASSUME ActionsInv, NEW g \in Goroutines, Runs(g, "keep"), NEW f, f = Top(g)
  PROVE  /\ Onward(f, f.got)
         /\ \/ On(g) = "rotation" /\ StepOf(f).uses = "round-robin" /\ f.ip = 6 /\ f.got \in Places \cup {None}
            \/ On(g) = "state" /\ StepOf(f).uses = "lua" /\ f.ip = 3 /\ f.got \in Nat
            \/ On(g) = "history" /\ StepOf(f).uses \in Chats /\ f.ip = 5 /\ f.got \in Seq(Turns)
<1>1. /\ f.pc = "run" /\ Script(f)[f.ip].op = "keep" /\ On(g) = Script(f)[f.ip].on
      /\ Fits(StepOf(f).uses, f.ip, Script(f)[f.ip])
      /\ GotFits(StepOf(f).uses, f.ip, f.got) /\ f.got \in Gots
  BY AtInstruction
<1> DEFINE b == StepOf(f).uses
           x == Script(f)[f.ip]
<1>2. /\ x.op = "keep" /\ On(g) = x.on /\ Fits(b, f.ip, x) /\ GotFits(b, f.ip, f.got)
  BY <1>1
<1> HIDE DEF b, x
<1>3. \/ On(g) = "rotation" /\ b = "round-robin" /\ f.ip = 6
      \/ On(g) = "state" /\ b = "lua" /\ f.ip = 3
      \/ On(g) = "history" /\ b \in Chats /\ f.ip = 5
  BY <1>2 DEF Fits
<1>4. /\ b = "round-robin" /\ f.ip = 6 => f.got \in Places \cup {None}
      /\ b = "lua" /\ f.ip = 3 => f.got \in Nat
      /\ b \in Chats /\ f.ip = 5 => f.got \in Seq(Turns)
  BY <1>2 DEF GotFits
<1>5. GotFits(b, f.ip + 1, f.got)
  <2>1. CASE b = "round-robin" /\ f.ip = 6
    BY <2>1 DEF GotFits, Chats
  <2>2. CASE b = "lua" /\ f.ip = 3
    BY <2>2 DEF GotFits, Chats
  <2>3. CASE b \in Chats /\ f.ip = 5
    BY <2>3 DEF GotFits, Chats
  <2>4. QED
    BY <1>3, <2>1, <2>2, <2>3
<1>6. QED
  BY <1>1, <1>3, <1>4, <1>5 DEF b, Onward

(* The table of a script.                                                  *)
LEMMA KeepStateKeeps ==
  ASSUME ActionsInv, NEW g \in Goroutines, KeepBack(g), On(g) = "state"
  PROVE  ActionsInv'
<1>1. PICK f : f = Top(g)
  OBVIOUS
<1>20. PICK k : k = On(g)
  OBVIOUS
<1>21. PICK w : w = f.got + 1
  OBVIOUS
<1>2. /\ Runs(g, "keep") /\ Becomes(g, Passed(f)) /\ Logs(g, "state", 0)
      /\ Sets(f.h, k, w)
      /\ UNCHANGED <<config, missing, chat, stored, there, clock>>
  BY <1>1, <1>20, <1>21 DEF Sets, KeepBack, Passes
<1>3. /\ f \in Frames /\ f.h \in HandlerNames /\ log \in Seq(Entries) /\ config \in Setups /\ FrameFits(f)
      /\ stack[g] # <<>> /\ f.pc = "run"
  BY <1>1, <1>2, AtInstruction
<1>4. /\ Onward(f, f.got)
      /\ StepOf(f).uses = "lua" /\ f.ip = 3 /\ f.got \in Nat
  BY <1>1, <1>2, KeepsOnward
<1>5. PICK x \in Entries : log' = Append(log, x) /\ x.what = "state" /\ x.h = f.h
  <2>1. 0 \in Vals /\ "state" \in Kinds
    BY DEF Vals, Gots, Kinds
  <2>2. QED
    BY <1>1, <1>2, <1>3, <2>1, Noted DEF Logs
<1> DEFINE K == {"reply", "error", "end", "sequence", "sample", "rotated", "spread", "turn"}
<1>6. LogKeeps(K) /\ LogKeeps({"reply", "error", "end"})
  BY <1>5 DEF LogKeeps
<1>7. PICK e : e = Onto(f, f.got)
  OBVIOUS
<1>8. Becomes(g, e)
  BY <1>2, <1>3, <1>7, PassedSame
<1>9. config' = config /\ there' = there /\ "keep" \in {"keep", "take", "rotate"}
  BY <1>2
<1> DEFINE n == Len(stack[g])
<1>22. Runs(g, "keep") /\ Shifts(g, n, "keep", f, f.got, e)
  BY <1>1, <1>2, <1>4, <1>6, <1>7, <1>8, <1>9, SharedStep
<1> HIDE DEF n
<1>10. /\ Changes(g, n, e) /\ n \in DOMAIN stack'[g]
       /\ stack[g][n] = f /\ e.h = f.h
       /\ (IsSerial(f.h) => Fresher(f, g[1])) /\ Fresher(e, g[1])'
       /\ MutexInv' /\ StackInv' /\ AnswerInv'
       /\ stack' \in [Goroutines -> Seq(Frames)]
       /\ \A h : Rotating(e, h) = FALSE
       /\ \A h : \A c : Spreading(f, h, c) = FALSE /\ Spreading(e, h, c) = FALSE
  BY <1>22 DEF Shifts
<1>11. \A h : Rotating(f, h) = FALSE
  BY <1>4 DEF Rotating, Runner
<1>12. /\ reg' \in [HandlerNames -> Registers]
       /\ \A y \in HandlerNames : y # f.h => reg'[y] = reg[y]
       /\ reg'[f.h].last = reg[f.h].last /\ reg'[f.h].sequence = reg[f.h].sequence
       /\ reg'[f.h].sample = reg[f.h].sample /\ reg'[f.h].rotation = reg[f.h].rotation
       /\ reg'[f.h].state = f.got + 1
  <2>1. reg \in [HandlerNames -> Registers] /\ w \in Nat /\ f.h \in HandlerNames
    BY <1>3, <1>4, <1>21 DEF ActionsInv, TypeInv
  <2>2. /\ Sets(f.h, k, w) /\ k = "state"
        /\ k \in {"sequence", "sample", "rotation", "limit", "state"}
    BY <1>2, <1>20
  <2>3. QED
    BY ONLY <1>21, <2>1, <2>2, RegisterSet
<1>13. TypeInv'
  <2>1. log' \in Seq(Entries)
    BY <1>3, <1>6, LogKept
  <2>2. TypeInv
    BY DEF ActionsInv
  <2>3. QED
    BY <1>2, <1>10, <1>12, <2>1, <2>2 DEF TypeInv
<1>14. ReadInv'
  <2>1. ReadInv
    BY DEF ActionsInv
  <2>2. \A h \in HandlerNames : h # e.h \/ n \notin DOMAIN stack'[g] =>
          reg'[h].rotation = reg[h].rotation /\ reg'[h].state = reg[h].state
    BY <1>10, <1>12
  <2>3. \A b \in Chats : chat'[b] = chat[b]
    BY <1>2
  <2>4. QED
    BY <1>3, <1>10, <2>1, <2>2, <2>3, ReadKept
<1>15. CountInv'
  <2>1. CountInv
    BY DEF ActionsInv
  <2>2. \A h \in HandlerNames : reg'[h].sequence = reg[h].sequence /\ reg'[h].sample = reg[h].sample
    BY <1>12
  <2>3. QED
    BY <1>2, <1>3, <1>6, <2>1, <2>2, CountKept
<1>16. RotationInv'
  <2>1. RotationInv
    BY DEF ActionsInv
  <2>2. \A h \in HandlerNames : reg'[h].rotation = reg[h].rotation
    BY <1>12
  <2>3. "rotated" \in K
    OBVIOUS
  <2> HIDE DEF K
  <2>4. QED
    BY <1>3, <1>6, <1>10, <1>11, <2>1, <2>2, <2>3, RotationKept
<1>17. SpreadInv'
  <2>1. SpreadInv
    BY DEF ActionsInv
  <2>2. \A h \in HandlerNames : reg'[h].last = reg[h].last
    BY <1>12
  <2>3. "spread" \in K
    OBVIOUS
  <2> HIDE DEF K
  <2>4. QED
    <3>1. \A h \in HandlerNames, c \in ToSet(Pool) :
            /\ Spreading(e, h, c) = Spreading(stack[g][n], h, c)
            /\ Spreading(e, h, c) => e.got.now = stack[g][n].got.now
      BY <1>10
    <3>2. QED
      BY ONLY <1>3, <1>6, <1>9, <1>10, <2>1, <2>2, <2>3, <3>1, SpreadKept
<1>18. TurnInv'
  <2>1. TurnsRemembered
    BY DEF ActionsInv, TurnInv
  <2>2. \A h, b : IsSerial(h)' = IsSerial(h) /\ OnlyIn(h, b)' = OnlyIn(h, b)
    BY <1>2, SameConfig
  <2>3. ASSUME NEW h \in HandlerNames, IsSerial(h)
        PROVE  reg'[h].state = Cardinality(Logged(h, "state")')
    <3>1. /\ reg[h].state = Cardinality(Logged(h, "state")) /\ IsFiniteSet(Logged(h, "state"))
          /\ Len(log) + 1 \notin Logged(h, "state")
      <4>1. Logged(h, "state") \subseteq 1..Len(log) /\ Len(log) \in Nat /\ IsFiniteSet(Logged(h, "state"))
        BY <1>3, Finite
      <4>2. QED
        BY <2>1, <2>3, <4>1 DEF TurnsRemembered
    <3>2. Logged(h, "state")' = IF f.h = h THEN Logged(h, "state") \cup {Len(log) + 1} ELSE Logged(h, "state")
      BY <1>3, <1>5, LogGrows
    <3>3. CASE h = f.h
      <4>1. f.got = reg[h].state
        BY <1>3, <1>4, <1>10, <2>3, <3>3 DEF Fresher, Runner
      <4>2. Cardinality(Logged(h, "state") \cup {Len(log) + 1}) = Cardinality(Logged(h, "state")) + 1
        BY <3>1, FS_AddElement
      <4>3. QED
        BY <1>12, <3>1, <3>2, <3>3, <4>1, <4>2
    <3>4. CASE h # f.h
      BY <1>12, <3>1, <3>2, <3>4
    <3>5. QED
      BY <3>3, <3>4
  <2>4. ASSUME NEW h \in HandlerNames, IsSerial(h), NEW b \in Chats, OnlyIn(h, b)
        PROVE  Remembered(h, b, chat[b])'
    <3>1. Remembered(h, b, chat[b])
      BY <2>1, <2>4 DEF TurnsRemembered
    <3>2. PICK s : s = chat[b]
      OBVIOUS
    <3>3. Remembered(h, b, s)'
      <4>1. Remembered(h, b, s) /\ "turn" \in K
        BY <3>1, <3>2
      <4> HIDE DEF K
      <4>2. QED
        BY <1>2, <1>3, <1>6, <4>1, RememberedKept
    <3>4. s = chat'[b]
      BY <1>2, <3>2
    <3>5. QED
      BY <3>3, <3>4
  <2>5. QED
    BY <2>2, <2>3, <2>4 DEF TurnInv, TurnsRemembered
<1>19. QED
  BY <1>10, <1>13, <1>14, <1>15, <1>16, <1>17, <1>18 DEF ActionsInv

-----------------------------------------------------------------------------
(* What a step that stores or takes leaves of the other registers.         *)
LEMMA Elsewhere ==
  ASSUME ActionsInv, NEW g, NEW n, NEW op, NEW f, NEW v, NEW e, Shifts(g, n, op, f, v, e), FrameFits(f),
         there' = there,
         \A h \in HandlerNames : h # f.h => reg'[h] = reg[h],
         \A h \in HandlerNames : reg'[h].last = reg[h].last,
         \A b \in Chats : chat'[b] = chat[b] \/ StepOf(f).uses = b,
         NEW K, LogKeeps(K), "spread" \in K
  PROVE  ReadInv' /\ SpreadInv'
<1>1. /\ Changes(g, n, e) /\ n \in DOMAIN stack'[g] /\ stack[g][n] = f /\ e.h = f.h
      /\ Fresher(e, g[1])' /\ MutexInv'
      /\ \A h : \A c : Spreading(f, h, c) = FALSE /\ Spreading(e, h, c) = FALSE
  BY DEF Shifts
<1>2. ReadInv /\ SpreadInv /\ log \in Seq(Entries)
  BY DEF ActionsInv, TypeInv
<1>3. ReadInv'
  <2>1. \A h \in HandlerNames : h # e.h \/ n \notin DOMAIN stack'[g] =>
          reg'[h].rotation = reg[h].rotation /\ reg'[h].state = reg[h].state
    BY <1>1
  <2>2. \A b \in Chats : chat'[b] = chat[b] \/ (StepOf(stack[g][n]).uses = b /\ n \in DOMAIN stack'[g])
    BY <1>1
  <2>3. QED
    BY <1>1, <1>2, <2>1, <2>2, ReadKept
<1>4. SpreadInv'
  <2>1. \A h \in HandlerNames, c \in ToSet(Pool) :
          /\ Spreading(e, h, c) = Spreading(stack[g][n], h, c)
          /\ Spreading(e, h, c) => e.got.now = stack[g][n].got.now
    BY <1>1
  <2>2. n \in DOMAIN stack'[g] \/ stack[g][n].pc = "return"
    BY <1>1
  <2>3. QED
    BY <1>1, <1>2, <2>1, <2>2, SpreadKept
<1>5. QED
  BY <1>3, <1>4

(* In a serial handler, no other frame is past the lock.                   *)
LEMMA Alone ==
  ASSUME MutexInv, NEW g, NEW n, NEW e, Changes(g, n, e), NEW h, IsSerial(h), e.h = h,
         stack[g][n].pc # "lock", NEW k \in Goroutines, NEW j \in DOMAIN stack'[k],
         stack'[k][j].h = h, stack'[k][j].pc # "lock"
  PROVE  k = g /\ j = n /\ stack'[k][j] = e
<1>1. g \in Goroutines /\ n \in DOMAIN stack[g] /\ stack[g][n].h = h
  BY DEF Changes
<1>2. ~New(stack'[k][j])
  <2>1. \A x \in HandlerNames : Frame(x).pc = "lock"
    BY DEF Frame
  <2>2. QED
    BY <2>1 DEF New
<1>3. CASE j \in DOMAIN stack[k] /\ stack'[k][j] = stack[k][j] /\ <<k, j>> # <<g, n>>
  BY <1>1, <1>3 DEF MutexInv
<1>4. QED
  BY <1>2, <1>3 DEF Changes

(* The place after the client that was sent to.                            *)
LEMMA KeepRotationKeeps ==
  ASSUME ActionsInv, NEW g \in Goroutines, KeepBack(g), On(g) = "rotation"
  PROVE  ActionsInv'
<1>1. PICK f : f = Top(g)
  OBVIOUS
<1>2. PICK k : k = On(g)
  OBVIOUS
<1>3. /\ Runs(g, "keep") /\ Becomes(g, Passed(f))
      /\ f.got = None => UNCHANGED <<reg, chat>>
      /\ f.got # None => Sets(f.h, k, f.got) /\ UNCHANGED chat
      /\ UNCHANGED <<config, missing, stored, there, clock, log>>
  BY <1>1, <1>2 DEF KeepBack, Passes, Sets
<1>4. /\ f \in Frames /\ f.h \in HandlerNames /\ log \in Seq(Entries) /\ config \in Setups /\ FrameFits(f)
      /\ stack[g] # <<>> /\ f.pc = "run"
  BY <1>1, <1>3, AtInstruction
<1>5. /\ Onward(f, f.got) /\ StepOf(f).uses = "round-robin" /\ f.ip = 6 /\ f.got \in Places \cup {None}
  BY <1>1, <1>3, KeepsOnward
<1>6. LogKeeps(Counted) /\ LogKeeps({"reply", "error", "end"})
  BY <1>3 DEF LogKeeps
<1>7. PICK e : e = Onto(f, f.got)
  OBVIOUS
<1>8. Becomes(g, e) /\ config' = config /\ there' = there /\ "keep" \in {"keep", "take", "rotate"}
  BY <1>3, <1>4, <1>7, PassedSame
<1> DEFINE n == Len(stack[g])
<1>9. Shifts(g, n, "keep", f, f.got, e)
  BY <1>1, <1>3, <1>5, <1>6, <1>7, <1>8, SharedStep
<1> HIDE DEF n
<1>10. /\ Changes(g, n, e) /\ n \in DOMAIN stack'[g] /\ n \in DOMAIN stack[g]
       /\ stack[g][n] = f /\ e.h = f.h /\ Fresher(e, g[1])'
       /\ MutexInv' /\ StackInv' /\ AnswerInv'
       /\ stack' \in [Goroutines -> Seq(Frames)]
       /\ \A h : Rotating(e, h) = FALSE
       /\ \A h : \A c : Spreading(f, h, c) = FALSE /\ Spreading(e, h, c) = FALSE
  BY <1>9 DEF Shifts
<1>11. CASE f.got = None
  <2>1. \A h : Rotating(f, h) = FALSE
    BY <1>11 DEF Rotating
  <2>2. WritesSame(stack[g][n], e)
    BY <1>10, <2>1 DEF WritesSame
  <2>3. UNCHANGED <<config, missing, reg, chat, there, clock>> /\ stored' \in BOOLEAN
    BY <1>3, <1>11 DEF ActionsInv, TypeInv
  <2>4. QED
    BY ONLY ActionsInv, <1>6, <1>10, <2>2, <2>3, QuietChange
<1>12. CASE f.got # None
  <2>1. /\ reg' \in [HandlerNames -> Registers]
        /\ \A y \in HandlerNames : y # f.h => reg'[y] = reg[y]
        /\ reg'[f.h].last = reg[f.h].last /\ reg'[f.h].sequence = reg[f.h].sequence
        /\ reg'[f.h].sample = reg[f.h].sample /\ reg'[f.h].rotation = f.got
        /\ reg'[f.h].state = reg[f.h].state
    <3>1. reg \in [HandlerNames -> Registers] /\ f.got \in Places /\ k = "rotation"
          /\ k \in {"sequence", "sample", "rotation", "limit", "state"} /\ Sets(f.h, k, f.got)
      BY <1>2, <1>3, <1>5, <1>12 DEF ActionsInv, TypeInv
    <3>2. QED
      BY ONLY <1>4, <3>1, RegisterSet
  <2>2. TypeInv'
    <3>1. TypeInv
      BY DEF ActionsInv
    <3>2. QED
      BY <1>3, <1>10, <1>12, <2>1, <3>1 DEF TypeInv
  <2>3. ReadInv' /\ SpreadInv'
    <3>1. /\ \A h \in HandlerNames : h # f.h => reg'[h] = reg[h]
          /\ \A h \in HandlerNames : reg'[h].last = reg[h].last
          /\ \A b \in Chats : chat'[b] = chat[b] \/ StepOf(f).uses = b
          /\ "spread" \in Counted
      BY <1>3, <1>12, <2>1 DEF Counted
    <3>2. QED
      BY ONLY ActionsInv, <1>4, <1>6, <1>8, <1>9, <3>1, Elsewhere
  <2>4. CountInv'
    <3>1. CountInv /\ {"sequence", "sample"} \subseteq Counted
      BY DEF ActionsInv, Counted
    <3>2. \A h \in HandlerNames : reg'[h].sequence = reg[h].sequence /\ reg'[h].sample = reg[h].sample
      BY <2>1
    <3>3. QED
      BY <1>3, <1>4, <1>6, <3>1, <3>2, CountKept
  <2>5. TurnInv'
    <3>1. TurnInv /\ {"state", "turn"} \subseteq Counted
      BY DEF ActionsInv, Counted
    <3>2. (\A h \in HandlerNames : reg'[h].state = reg[h].state) /\ chat' = chat
      BY <1>3, <1>12, <2>1
    <3>3. QED
      BY <1>3, <1>4, <1>6, <3>1, <3>2, TurnKept
  <2>6. \A h : IsSerial(h)' = IsSerial(h)
    BY <1>3, SameConfig
  <2>7. \A h, w : Logged(h, w)' = Logged(h, w)
    BY <1>3 DEF Logged
  <2>8. ASSUME NEW h \in HandlerNames, IsSerial(h), h # f.h
        PROVE  RotationOf(h)'
    <3>1. RotationOf(h) /\ reg'[h].rotation = reg[h].rotation
      BY <2>1, <2>8 DEF ActionsInv, RotationInv
    <3>2. Rotating(f, h) = FALSE
      BY <2>8 DEF Rotating
    <3>3. /\ Logged(h, "rotated")' = Logged(h, "rotated") /\ \A i \in Logged(h, "rotated") : log'[i] = log[i]
      BY <1>3, <2>7
    <3>4. /\ n \in DOMAIN stack'[g] \/ stack[g][n].pc = "return"
          /\ Rotating(e, h) = Rotating(stack[g][n], h)
          /\ Rotating(e, h) => e.got = stack[g][n].got
      BY <1>10, <3>2
    <3>5. QED
      BY ONLY <1>10, <2>8, <3>1, <3>3, <3>4, RotationOfKept
  <2>9. ASSUME NEW h \in HandlerNames, IsSerial(h), h = f.h
        PROVE  RotationOf(h)'
    <3>1. RotationOf(h) /\ MutexInv
      BY <2>9 DEF ActionsInv, RotationInv
    <3>2. Rotating(f, h)
      BY <1>4, <1>5, <1>12, <2>9 DEF Rotating, Runner
    <3>3. ASSUME NEW x \in Goroutines, NEW j \in DOMAIN stack'[x], Rotating(stack'[x][j], h)
          PROVE  FALSE
      <4>1. stack'[x][j].h = h /\ stack'[x][j].pc # "lock" /\ stack[g][n].pc # "lock" /\ e.h = h
        BY <1>4, <1>10, <2>9, <3>3 DEF Rotating, Runner
      <4>2. stack'[x][j] = e
        BY ONLY <1>10, <2>9, <3>1, <3>3, <4>1, Alone
      <4>3. QED
        BY <1>10, <3>3, <4>2
    <3>4. Rotated(h)'
      BY <1>3, <2>7, <3>1 DEF Rotated, RotationOf
    <3>5. \A i \in Logged(h, "rotated") : LastRotated(h, i) => reg'[h].rotation = After(log[i].val.place)
      BY <1>8, <1>10, <2>1, <2>9, <3>1, <3>2 DEF RotationOf
    <3>6. \A i : LastRotated(h, i)' = LastRotated(h, i)
      BY <2>7 DEF LastRotated
    <3>7. \A y : Rotating(y, h)' = Rotating(y, h)
      BY <1>8, SameConfig DEF Rotating
    <3>8. \A i \in Logged(h, "rotated") : log'[i].val \in [place : Places, up : SUBSET ToSet(Pool)]
      BY <1>3, <3>1 DEF RotationOf
    <3>9. QED
      BY <1>3, <2>7, <3>3, <3>4, <3>5, <3>6, <3>7, <3>8 DEF RotationOf, After
  <2>10. RotationInv'
    BY <2>6, <2>8, <2>9 DEF RotationInv
  <2>11. QED
    BY <1>10, <2>2, <2>3, <2>4, <2>5, <2>10 DEF ActionsInv
<1>13. QED
  BY <1>11, <1>12

-----------------------------------------------------------------------------
(* Conversations                                                           *)

(* A length within the limit of h.                                         *)
Within(h, n) == IF Limit(h) > 0 /\ n > Limit(h) THEN Limit(h) ELSE n

(* t is what is kept of s with x after it, read backwards.                 *)
Extends(h, s, x, t) ==
  /\ Len(t) \in Nat /\ Len(s) \in Nat /\ DOMAIN t = 1..Len(t)
  /\ Len(t) = Within(h, Len(s) + 1)
  /\ \A k \in 1..Len(t) :
       IF k = Len(t) THEN t[k] = x
       ELSE LET i == Len(s) - (Len(t) - k - 1) IN i \in 1..Len(s) /\ t[k] = s[i]

(* What is kept of a conversation with one more turn is that turn before   *)
(* the last ones it had.                                                   *)
LEMMA KeptBack ==
  ASSUME config \in Setups, NEW h \in HandlerNames, NEW S, NEW s \in Seq(S), NEW x \in S
  PROVE  /\ Kept(h, Append(s, x)) \in Seq(S)
         /\ Extends(h, s, x, Kept(h, Append(s, x)))
<1> DEFINE a == Append(s, x)
           t == Kept(h, a)
<1>1. /\ a \in Seq(S) /\ Len(a) = Len(s) + 1 /\ Len(s) \in Nat /\ a[Len(s) + 1] = x
      /\ \A i \in 1..Len(s) : a[i] = s[i]
  BY AppendProperties, LenProperties
<1> HIDE DEF a
<1>2. /\ t \in Seq(S) /\ Len(t) \in Nat /\ DOMAIN t = 1..Len(t) /\ Limit(h) \in Nat
      /\ Len(t) = Within(h, Len(a))
      /\ \A k \in 1..Len(t) : t[k] = a[Len(a) - (Len(t) - k)]
  BY <1>1, KeptLast DEF Within
<1>3. Len(t) <= Len(a)
  BY <1>1, <1>2 DEF Within
<1> HIDE DEF t
<1>4. ASSUME NEW k \in 1..Len(t)
      PROVE  IF k = Len(t) THEN t[k] = x
             ELSE LET i == Len(s) - (Len(t) - k - 1) IN i \in 1..Len(s) /\ t[k] = s[i]
  <2>1. PICK i : i = Len(a) - (Len(t) - k)
    OBVIOUS
  <2>2. t[k] = a[i]
    BY <1>2, <2>1
  <2>3. /\ k = Len(t) => i = Len(s) + 1
        /\ k # Len(t) => i \in 1..Len(s) /\ i = Len(s) - (Len(t) - k - 1)
    <3>1. \A p, q \in Nat : \A l \in 1..q : q <= p + 1 =>
            /\ l = q => p + 1 - (q - l) = p + 1
            /\ l # q => p + 1 - (q - l) \in 1..p /\ p + 1 - (q - l) = p - (q - l - 1)
      OBVIOUS
    <3>2. Len(s) \in Nat /\ Len(t) \in Nat /\ Len(t) <= Len(s) + 1 /\ i = Len(s) + 1 - (Len(t) - k)
      BY <1>1, <1>2, <1>3, <2>1
    <3>3. QED
      BY ONLY <1>4, <3>1, <3>2
  <2>4. QED
    BY <1>1, <2>2, <2>3
<1>5. QED
  BY <1>1, <1>2, <1>4 DEF t, a, Extends

(* A limit applied at every step is the limit applied once.                *)
LEMMA WithinTwice ==
  ASSUME config \in Setups, NEW h \in HandlerNames, NEW n \in Nat
  PROVE  Within(h, Within(h, Within(h, n) + 1) + 1) = Within(h, n + 2)
<1>1. Limit(h) \in Nat
  BY ActionsAssumption DEF Limit
<1>2. QED
  BY <1>1 DEF Within

(* A set of places with a last one more, and those of them after i.        *)
Beyond(T, i) == {j \in T : j > i}

LastAdded(T, z, R) ==
  IsFiniteSet(T) /\ z \in Nat /\ (\A i \in T : i \in Nat /\ i < z) /\ R = T \cup {z}

(* One more place after every other, and none after itself.                *)
LEMMA LaterPlaces ==
  ASSUME NEW T, NEW z, NEW R, LastAdded(T, z, R)
  PROVE  /\ Cardinality(T) \in Nat /\ Cardinality(R) = Cardinality(T) + 1
         /\ \A i \in T : /\ Cardinality(Beyond(T, i)) \in Nat
                         /\ Cardinality(Beyond(R, i)) = Cardinality(Beyond(T, i)) + 1
         /\ Cardinality(Beyond(R, z)) = 0
<1>1. IsFiniteSet(T) /\ z \in Nat /\ (\A i \in T : i \in Nat /\ i < z) /\ R = T \cup {z}
  BY DEF LastAdded
<1>2. IsFiniteSet(T) /\ Cardinality(T) \in Nat
  BY <1>1, FS_CardinalityType
<1>3. z \notin T
  BY <1>1
<1>4. Cardinality(R) = Cardinality(T) + 1
  BY <1>1, <1>2, <1>3, FS_AddElement
<1>5. ASSUME NEW i \in T
      PROVE  /\ Cardinality(Beyond(T, i)) \in Nat
             /\ Cardinality(Beyond(R, i)) = Cardinality(Beyond(T, i)) + 1
  <2> DEFINE P == Beyond(T, i)
             Q == Beyond(R, i)
  <2>1. P \subseteq T /\ z \notin P /\ Q = P \cup {z}
    BY <1>1, <1>3 DEF Beyond
  <2> HIDE DEF P, Q
  <2>2. IsFiniteSet(P) /\ Cardinality(P) \in Nat
    BY <1>2, <2>1, FS_Subset, FS_CardinalityType
  <2>3. Cardinality(Q) = Cardinality(P) + 1
    BY <2>1, <2>2, FS_AddElement
  <2>4. QED
    BY <2>2, <2>3 DEF P, Q
<1>6. Cardinality(Beyond(R, z)) = 0
  <2>1. \A j \in R : ~(j > z)
    BY <1>1
  <2>2. Beyond(R, z) = {}
    BY <2>1 DEF Beyond
  <2>3. QED
    BY <2>2, FS_EmptySet
<1>7. QED
  BY <1>2, <1>4, <1>5, <1>6

(* A turn more is remembered.                                              *)
LEMMA TurnAdded ==
  ASSUME TypeInv, config' = config, NEW h \in HandlerNames, NEW b \in Chats, Remembered(h, b, chat[b]),
         NEW x \in Entries, log' = Append(log, x), x.h = h, x.what = "turn", x.val = b,
         NEW t, t = Kept(h, Append(Asked(h, b, x.m), Said("assistant", x.m)))
  PROVE  Remembered(h, b, t)'
<1> DEFINE T == {i \in Logged(h, "turn") : log[i].val = b}
<1>1. PICK N : N = Len(log)
  OBVIOUS
<1>2. PICK R : R = T'
  OBVIOUS
<1>3. PICK s : s = chat[b]
  OBVIOUS
<1>4. config \in Setups /\ log \in Seq(Entries) /\ s \in Seq(Turns) /\ x.m \in Inbox
  BY <1>3 DEF TypeInv, Entries
<1>5. /\ N \in Nat /\ T \subseteq 1..N /\ R = T \cup {N + 1}
      /\ log'[N + 1] = x /\ \A i \in T : log'[i] = log[i]
  <2>1. /\ N \in Nat /\ DOMAIN log = 1..N /\ log'[N + 1] = x /\ \A i \in DOMAIN log : log'[i] = log[i]
        /\ Logged(h, "turn")' = Logged(h, "turn") \cup {N + 1}
    BY <1>1, <1>4, LogGrows
  <2>2. Logged(h, "turn") \subseteq 1..N
    BY <2>1 DEF Logged
  <2>3. QED
    BY <1>2, <2>1, <2>2
<1>6. /\ Len(s) = Within(h, 2 * Cardinality(T))
      /\ \A k \in DOMAIN s : \E i \in T :
           LET later == Cardinality(Beyond(T, i)) IN
           \/ Len(s) - k = 2 * later /\ s[k] = Said("assistant", log[i].m)
           \/ Len(s) - k = 2 * later + 1 /\ s[k] = Said("user", log[i].m)
  BY <1>3 DEF Remembered, Within, Beyond
<1> HIDE DEF T
<1>18. LastAdded(T, N + 1, R)
  <2>1. IsFiniteSet(1..N)
    BY <1>5, FS_Interval
  <2>2. IsFiniteSet(T)
    BY <1>5, <2>1, FS_Subset
  <2>3. \A i \in T : i \in Nat /\ i < N + 1
    BY <1>5
  <2>4. QED
    BY <1>5, <2>2, <2>3 DEF LastAdded
<1>7. /\ Cardinality(T) \in Nat /\ Cardinality(R) = Cardinality(T) + 1
      /\ \A i \in T : /\ Cardinality(Beyond(T, i)) \in Nat
                      /\ Cardinality(Beyond(R, i)) = Cardinality(Beyond(T, i)) + 1
      /\ Cardinality(Beyond(R, N + 1)) = 0
  BY ONLY <1>18, LaterPlaces
<1>8. PICK u : u = Kept(h, Append(s, Said("user", x.m)))
  OBVIOUS
<1>9. t = Kept(h, Append(u, Said("assistant", x.m)))
  BY <1>3, <1>8 DEF Asked
<1>10. Said("user", x.m) \in Turns /\ Said("assistant", x.m) \in Turns
  BY <1>4, SaidTurn
<1>11. /\ u \in Seq(Turns) /\ Len(u) \in Nat /\ Len(s) \in Nat /\ DOMAIN s = 1..Len(s)
       /\ Len(u) = Within(h, Len(s) + 1)
       /\ \A k \in 1..Len(u) :
            IF k = Len(u) THEN u[k] = Said("user", x.m)
            ELSE LET i == Len(s) - (Len(u) - k - 1) IN i \in 1..Len(s) /\ u[k] = s[i]
  <2>1. u \in Seq(Turns) /\ Extends(h, s, Said("user", x.m), u)
    BY <1>4, <1>8, <1>10, KeptBack
  <2>2. QED
    BY <1>4, <2>1, LenProperties DEF Extends
<1>12. /\ t \in Seq(Turns) /\ Len(t) \in Nat /\ DOMAIN t = 1..Len(t)
       /\ Len(t) = Within(h, Len(u) + 1)
       /\ \A k \in 1..Len(t) :
            IF k = Len(t) THEN t[k] = Said("assistant", x.m)
            ELSE LET i == Len(u) - (Len(t) - k - 1) IN i \in 1..Len(u) /\ t[k] = u[i]
  <2>1. t \in Seq(Turns) /\ Extends(h, u, Said("assistant", x.m), t)
    BY <1>4, <1>9, <1>10, <1>11, KeptBack
  <2>2. QED
    BY <2>1 DEF Extends
<1>13. Len(t) = Within(h, 2 * Cardinality(R))
  <2>1. 2 * Cardinality(T) \in Nat /\ 2 * Cardinality(T) + 2 = 2 * Cardinality(R)
    BY <1>7
  <2>2. QED
    BY <1>4, <1>6, <1>11, <1>12, <2>1, WithinTwice, SMTT(40)
<1>14. ASSUME NEW k \in 1..Len(t)
       PROVE  \E i \in R :
                LET later == Cardinality(Beyond(R, i)) IN
                \/ Len(t) - k = 2 * later /\ t[k] = Said("assistant", log'[i].m)
                \/ Len(t) - k = 2 * later + 1 /\ t[k] = Said("user", log'[i].m)
  <2>1. N + 1 \in R /\ log'[N + 1].m = x.m /\ Cardinality(Beyond(R, N + 1)) = 0
    BY <1>5, <1>7
  <2>2. CASE k = Len(t)
    <3>1. t[k] = Said("assistant", x.m) /\ Len(t) - k = 2 * 0
      BY <1>12, <2>2
    <3>2. QED
      BY <2>1, <3>1
  <2>3. CASE k # Len(t)
    <3>1. PICK i : i = Len(u) - (Len(t) - k - 1)
      OBVIOUS
    <3>2. i \in 1..Len(u) /\ t[k] = u[i]
      BY <1>12, <2>3, <3>1
    <3>3. CASE i = Len(u)
      <4>1. t[k] = Said("user", x.m)
        BY <1>11, <3>2, <3>3
      <4>2. Len(t) - k = 2 * 0 + 1
        BY <1>11, <1>12, <1>14, <3>1, <3>3, SMTT(40)
      <4>3. QED
        BY <2>1, <4>1, <4>2
    <3>4. CASE i # Len(u)
      <4>1. PICK l : l = Len(s) - (Len(u) - i - 1)
        OBVIOUS
      <4>2. l \in 1..Len(s) /\ t[k] = s[l]
        BY <1>11, <3>2, <3>4, <4>1
      <4>3. Len(s) - l = Len(t) - k - 2
        <5>1. PICK a, d, q : a = Len(s) /\ d = Len(t) /\ q = Len(u)
          OBVIOUS
        <5>2. a \in Nat /\ d \in Nat /\ q \in Nat /\ k \in Int /\ i \in Int /\ l \in Int
          BY <1>11, <1>12, <1>14, <3>2, <4>2, <5>1
        <5>3. i = q - (d - k - 1) /\ l = a - (q - i - 1)
          BY <3>1, <4>1, <5>1
        <5>4. a - l = d - k - 2
          BY ONLY <5>2, <5>3
        <5>5. QED
          BY <5>1, <5>4
      <4>4. PICK p \in T : \/ Len(s) - l = 2 * Cardinality(Beyond(T, p)) /\ s[l] = Said("assistant", log[p].m)
                           \/ Len(s) - l = 2 * Cardinality(Beyond(T, p)) + 1 /\ s[l] = Said("user", log[p].m)
        BY <1>6, <1>11, <4>2
      <4>5. /\ p \in R /\ log'[p] = log[p] /\ Cardinality(Beyond(T, p)) \in Nat
            /\ Cardinality(Beyond(R, p)) = Cardinality(Beyond(T, p)) + 1
        BY <1>5, <1>7
      <4>6. PICK c, d : c = Cardinality(Beyond(T, p)) /\ d = Cardinality(Beyond(R, p))
        OBVIOUS
      <4>7. /\ Len(s) - l = 2 * c => Len(t) - k = 2 * d
            /\ Len(s) - l = 2 * c + 1 => Len(t) - k = 2 * d + 1
        <5>1. c \in Nat /\ d = c + 1
          BY <4>5, <4>6
        <5>2. Len(t) - k \in Int
          BY <1>12, <1>14
        <5>3. QED
          BY ONLY <4>3, <5>1, <5>2
      <4>8. \/ Len(t) - k = 2 * d /\ t[k] = Said("assistant", log'[p].m)
            \/ Len(t) - k = 2 * d + 1 /\ t[k] = Said("user", log'[p].m)
        BY <4>2, <4>4, <4>5, <4>6, <4>7
      <4>9. QED
        BY <4>5, <4>6, <4>8
    <3>5. QED
      BY <3>3, <3>4
  <2>4. QED
    BY <2>2, <2>3
<1>15. Limit(h)' = Limit(h)
  BY SameConfig
<1>16. R = {i \in Logged(h, "turn")' : log'[i].val = b}
  BY <1>2 DEF T
<1>17. QED
  <2>1. Len(t) = IF Limit(h)' > 0 /\ 2 * Cardinality(R) > Limit(h)' THEN Limit(h)' ELSE 2 * Cardinality(R)
    BY <1>13, <1>15 DEF Within
  <2>2. \A k \in DOMAIN t : \E i \in R :
          LET later == Cardinality(Beyond(R, i)) IN
          \/ Len(t) - k = 2 * later /\ t[k] = Said("assistant", log'[i].m)
          \/ Len(t) - k = 2 * later + 1 /\ t[k] = Said("user", log'[i].m)
    <3>1. DOMAIN t = 1..Len(t)
      BY <1>12
    <3>2. QED
      BY ONLY <1>14, <3>1
  <2>3. QED
    BY ONLY <1>16, <2>1, <2>2 DEF Remembered, Beyond

-----------------------------------------------------------------------------
(* What the log says of a conversation none of whose turns was added.      *)
LEMMA RememberedSame ==
  ASSUME config' = config, NEW h, NEW b, NEW seq, Remembered(h, b, seq),
         {i \in Logged(h, "turn") : log[i].val = b}' = {i \in Logged(h, "turn") : log[i].val = b},
         \A i \in Logged(h, "turn") : log'[i] = log[i]
  PROVE  Remembered(h, b, seq)'
<1>1. Limit(h)' = Limit(h)
  BY SameConfig
<1>2. QED
  BY <1>1 DEF Remembered

(* The conversation with the model's answer.                               *)
LEMMA KeepHistoryKeeps ==
  ASSUME ActionsInv, NEW g \in Goroutines, KeepBack(g), On(g) = "history"
  PROVE  ActionsInv'
<1>1. PICK f : f = Top(g)
  OBVIOUS
<1>2. PICK b : b = StepOf(f).uses
  OBVIOUS
<1>3. /\ Runs(g, "keep") /\ Becomes(g, Passed(f)) /\ Logs(g, "turn", b)
      /\ chat' = [chat EXCEPT ![b] = Kept(f.h, Append(f.got, Said("assistant", g[1])))]
      /\ UNCHANGED <<config, missing, reg, stored, there, clock>>
  BY <1>1, <1>2 DEF KeepBack, Passes
<1>4. /\ f \in Frames /\ f.h \in HandlerNames /\ log \in Seq(Entries) /\ config \in Setups /\ FrameFits(f)
      /\ stack[g] # <<>> /\ f.pc = "run" /\ g[1] \in Inbox /\ TypeInv
  BY <1>1, <1>3, AtInstruction DEF Goroutines, ActionsInv
<1>5. /\ Onward(f, f.got) /\ b \in Chats /\ f.ip = 5 /\ f.got \in Seq(Turns)
  BY <1>1, <1>2, <1>3, KeepsOnward
<1>6. PICK x \in Entries : log' = Append(log, x) /\ x.what = "turn" /\ x.h = f.h /\ x.val = b /\ x.m = g[1]
  <2>1. b \in Vals /\ "turn" \in Kinds
    BY <1>5 DEF Vals, Kinds
  <2>2. QED
    BY <1>1, <1>3, <1>4, <2>1, Noted DEF Logs
<1> DEFINE K == {"reply", "error", "end", "sequence", "sample", "rotated", "spread", "state"}
<1>7. LogKeeps(K) /\ LogKeeps({"reply", "error", "end"})
  BY <1>6 DEF LogKeeps
<1>8. PICK e : e = Onto(f, f.got)
  OBVIOUS
<1>9. Becomes(g, e) /\ config' = config /\ there' = there /\ "keep" \in {"keep", "take", "rotate"}
  BY <1>3, <1>4, <1>8, PassedSame
<1> DEFINE n == Len(stack[g])
<1>10. Shifts(g, n, "keep", f, f.got, e)
  BY <1>1, <1>3, <1>5, <1>7, <1>8, <1>9, SharedStep
<1> HIDE DEF n
<1>11. /\ Changes(g, n, e) /\ n \in DOMAIN stack'[g] /\ n \in DOMAIN stack[g]
       /\ stack[g][n] = f /\ e.h = f.h
       /\ (IsSerial(f.h) => Fresher(f, g[1]))
       /\ MutexInv' /\ StackInv' /\ AnswerInv'
       /\ stack' \in [Goroutines -> Seq(Frames)]
       /\ \A h : Rotating(e, h) = FALSE
  BY <1>10 DEF Shifts
<1>12. PICK t : t = Kept(f.h, Append(f.got, Said("assistant", g[1])))
  OBVIOUS
<1>13. /\ t \in Seq(Turns) /\ chat'[b] = t /\ \A c \in Chats : c # b => chat'[c] = chat[c]
       /\ chat' \in [Chats -> Seq(Turns)]
  <2>1. Said("assistant", g[1]) \in Turns
    BY <1>4, SaidTurn
  <2>2. t \in Seq(Turns)
    BY <1>4, <1>5, <1>12, <2>1, KeptBack
  <2>3. chat' = [chat EXCEPT ![b] = t] /\ chat \in [Chats -> Seq(Turns)]
    BY <1>3, <1>4, <1>12 DEF TypeInv
  <2>4. QED
    BY <1>5, <2>2, <2>3
<1>14. TypeInv'
  <2>1. log' \in Seq(Entries)
    BY <1>4, <1>7, LogKept
  <2>2. QED
    BY <1>3, <1>4, <1>11, <1>13, <2>1 DEF TypeInv
<1>15. ReadInv' /\ SpreadInv'
  <2>1. /\ \A h \in HandlerNames : h # f.h => reg'[h] = reg[h]
        /\ \A h \in HandlerNames : reg'[h].last = reg[h].last
        /\ \A c \in Chats : chat'[c] = chat[c] \/ StepOf(f).uses = c
        /\ "spread" \in K
    BY <1>2, <1>3, <1>13
  <2> HIDE DEF K
  <2>2. QED
    BY ONLY ActionsInv, <1>4, <1>7, <1>9, <1>10, <2>1, Elsewhere
<1>16. CountInv'
  <2>1. CountInv /\ {"sequence", "sample"} \subseteq K
    BY DEF ActionsInv
  <2> HIDE DEF K
  <2>2. \A h \in HandlerNames : reg'[h].sequence = reg[h].sequence /\ reg'[h].sample = reg[h].sample
    BY <1>3
  <2>3. QED
    BY <1>4, <1>7, <1>9, <2>1, <2>2, CountKept
<1>17. RotationInv'
  <2>1. RotationInv /\ "rotated" \in K
    BY DEF ActionsInv
  <2> HIDE DEF K
  <2>2. \A h \in HandlerNames : reg'[h].rotation = reg[h].rotation
    BY <1>3
  <2>3. \A h : Rotating(f, h) = FALSE
    BY <1>5 DEF Rotating, Runner
  <2>4. QED
    BY <1>4, <1>7, <1>11, <2>1, <2>2, <2>3, RotationKept
<1>18. /\ \A i \in DOMAIN log : log'[i] = log[i]
       /\ DOMAIN log = 1..Len(log) /\ Len(log) \in Nat
       /\ log'[Len(log) + 1] = x
       /\ \A h : Logged(h, "state")' = Logged(h, "state")
       /\ \A h : Logged(h, "turn")' = IF f.h = h THEN Logged(h, "turn") \cup {Len(log) + 1} ELSE Logged(h, "turn")
       /\ \A h, w : Logged(h, w) \subseteq DOMAIN log
  <2>1. /\ \A i \in DOMAIN log : log'[i] = log[i]
        /\ DOMAIN log = 1..Len(log) /\ Len(log) \in Nat /\ log'[Len(log) + 1] = x
        /\ \A h, w : Logged(h, w)' = IF x.h = h /\ x.what = w THEN Logged(h, w) \cup {Len(log) + 1} ELSE Logged(h, w)
    BY <1>4, <1>6, LogGrows
  <2>2. QED
    BY <1>6, <2>1 DEF Logged
<1>19. TurnInv'
  <2>1. TurnsRemembered
    BY DEF ActionsInv, TurnInv
  <2>2. \A h, c : IsSerial(h)' = IsSerial(h) /\ OnlyIn(h, c)' = OnlyIn(h, c)
    BY <1>9, SameConfig
  <2>3. ASSUME NEW h \in HandlerNames, IsSerial(h), NEW c \in Chats, OnlyIn(h, c), h # f.h \/ c # b
        PROVE  Remembered(h, c, chat[c])'
    <3>1. PICK s : s = chat[c]
      OBVIOUS
    <3>2. Remembered(h, c, s)
      BY <2>1, <2>3, <3>1 DEF TurnsRemembered
    <3>3. {i \in Logged(h, "turn") : log[i].val = c}' = {i \in Logged(h, "turn") : log[i].val = c}
      BY <1>6, <1>18, <2>3
    <3>4. \A i \in Logged(h, "turn") : log'[i] = log[i]
      BY <1>18
    <3>5. Remembered(h, c, s)'
      BY ONLY <1>9, <3>2, <3>3, <3>4, RememberedSame
    <3>6. chat'[c] = chat[c]
      <4>1. c = b => f.h = h
        BY <1>2, <1>4, <2>3 DEF OnlyIn, StepOf, FrameFits, Stands
      <4>2. QED
        BY <1>13, <2>3, <4>1
    <3>7. QED
      BY <3>1, <3>5, <3>6
  <2>4. ASSUME IsSerial(f.h), OnlyIn(f.h, b)
        PROVE  Remembered(f.h, b, chat[b])'
    <3>1. Remembered(f.h, b, chat[b])
      BY <1>4, <1>5, <2>1, <2>4 DEF TurnsRemembered
    <3>2. f.got = Asked(f.h, b, g[1])
      BY <1>2, <1>4, <1>5, <1>11, <2>4 DEF Fresher, Runner
    <3>3. t = Kept(f.h, Append(Asked(f.h, b, x.m), Said("assistant", x.m)))
      BY <1>6, <1>12, <3>2
    <3>4. Remembered(f.h, b, t)'
      BY ONLY <1>4, <1>5, <1>6, <1>9, <3>1, <3>3, TurnAdded
    <3>5. QED
      BY <1>13, <3>4
  <2>5. \A h \in HandlerNames : IsSerial(h) => reg'[h].state = Cardinality(Logged(h, "state"))'
    BY <1>3, <1>18, <2>1 DEF TurnsRemembered
  <2>6. QED
    BY <2>2, <2>3, <2>4, <2>5 DEF TurnInv, TurnsRemembered
<1>20. QED
  BY <1>11, <1>14, <1>15, <1>16, <1>17, <1>19 DEF ActionsInv

(* Storing back, whichever of the three it is.                             *)
LEMMA KeepBackKeeps ==
  ASSUME ActionsInv, NEW g \in Goroutines, KeepBack(g)
  PROVE  ActionsInv'
<1>1. PICK f : f = Top(g)
  OBVIOUS
<1>2. On(g) \in {"rotation", "state", "history"}
  BY <1>1, KeepsOnward DEF KeepBack
<1>3. QED
  BY <1>2, KeepStateKeeps, KeepRotationKeeps, KeepHistoryKeeps

-----------------------------------------------------------------------------
(* Going round the pool                                                    *)

(* A remainder, once round at most.                                        *)
LEMMA ModOnce ==
  ASSUME NEW L \in Nat \ {0}, NEW x \in 0..2 * L - 1
  PROVE  x % L = IF x < L THEN x ELSE x - L
OBVIOUS

(* Who is after first: the k-th after that, and how many were passed.      *)
OneRound(L, first, k, from, p) ==
  /\ L \in Nat \ {0} /\ first \in 1..L /\ k \in 0..L - 1
  /\ from = (first % L) + 1 /\ p = ((from - 1 + k) % L) + 1

(* Both count the same clients.                                            *)
LEMMA Round ==
  ASSUME NEW L, NEW first, NEW k, NEW from, NEW p, OneRound(L, first, k, from, p)
  PROVE  /\ from \in 1..L /\ p \in 1..L /\ (p - first - 1 + L) % L = k
         /\ \A m \in 1..k : m - 1 \in 0..L - 1 /\ ((first - 1 + m) % L) + 1 = ((from - 1 + (m - 1)) % L) + 1
<1>0. /\ L \in Nat \ {0} /\ first \in 1..L /\ k \in 0..L - 1
       /\ from = (first % L) + 1 /\ p = ((from - 1 + k) % L) + 1
  BY DEF OneRound
<1>1. first % L = IF first < L THEN first ELSE 0
  <2>1. first \in 0..2 * L - 1
    BY <1>0
  <2>2. first % L = IF first < L THEN first ELSE first - L
    BY ONLY <1>0, <2>1, ModOnce
  <2>3. QED
    BY <1>0, <2>2
<1>2. from \in 1..L /\ from - 1 = IF first < L THEN first ELSE 0
  BY <1>1, <1>0
<1>3. PICK x : x = from - 1 + k
  OBVIOUS
<1>4. x \in 0..2 * L - 1
  BY <1>2, <1>0, <1>3
<1>5. x % L = IF x < L THEN x ELSE x - L
  BY ONLY <1>0, <1>4, ModOnce
<1>6. p \in 1..L /\ p = IF x < L THEN from + k ELSE from + k - L
  <2>1. p = (x % L) + 1
    BY ONLY <1>3, <1>0
  <2>2. QED
    BY <1>2, <1>0, <1>3, <1>4, <1>5, <2>1
<1>7. PICK y : y = p - first - 1 + L
  OBVIOUS
<1>8. y \in 0..2 * L - 1 /\ (IF y < L THEN y ELSE y - L) = k
  BY <1>0, <1>2, <1>3, <1>4, <1>6, <1>7
<1>9. y % L = k
  BY ONLY <1>0, <1>8, ModOnce
<1>10. ASSUME NEW m \in 1..k
       PROVE  m - 1 \in 0..L - 1 /\ ((first - 1 + m) % L) + 1 = ((from - 1 + (m - 1)) % L) + 1
  <2>1. PICK a : a = first - 1 + m
    OBVIOUS
  <2>2. PICK b : b = from - 1 + (m - 1)
    OBVIOUS
  <2>3. a \in 0..2 * L - 1 /\ b \in 0..2 * L - 1
    BY <1>2, <1>0, <2>1, <2>2
  <2>4. (a % L = IF a < L THEN a ELSE a - L) /\ (b % L = IF b < L THEN b ELSE b - L)
    BY ONLY <1>0, <2>3, ModOnce
  <2>5. (IF a < L THEN a ELSE a - L) = (IF b < L THEN b ELSE b - L)
    BY <1>2, <1>0, <2>1, <2>2
  <2>6. a % L = b % L
    BY <2>4, <2>5
  <2>7. ((first - 1 + m) % L) + 1 = ((from - 1 + (m - 1)) % L) + 1
    BY ONLY <2>1, <2>2, <2>6
  <2>8. QED
    BY <1>0, <2>7
<1>11. (p - first - 1 + L) % L = k
  BY ONLY <1>7, <1>9
<1>12. QED
  BY <1>2, <1>6, <1>10, <1>11

-----------------------------------------------------------------------------
(* The place of the k-th client a frame tries, and the tries that reach    *)
(* one.                                                                    *)
Aim(f, k) == ((f.got - 1 + k) % Len(Pool)) + 1

Reach(f, deaf) == {k \in 0..Len(Pool) - 1 : Pool[Aim(f, k)] \in there \ deaf}

(* The places of the pool.                                                 *)
LEMMA PoolPlaces ==
  /\ Len(Pool) \in Nat \ {0} /\ \A p \in Places : After(p) \in Places /\ p \in Nat
  /\ None \notin Places
<1>1. Pool \in Seq(ToSet(Pool)) /\ Pool # <<>>
  BY ActionsAssumption
<1>2. Len(Pool) \in Nat \ {0}
  BY <1>1, LenProperties, EmptySeq
<1>3. PICK L \in Nat \ {0} : L = Len(Pool)
  BY <1>2
<1>4. \A p \in 1..L : (p % L) + 1 \in 1..L /\ p \in Nat
  OBVIOUS
<1>5. QED
  BY <1>2, <1>3, <1>4, ActionsAssumption DEF Places, After

(* Where a handler sent last is where it goes on from, unless a frame of   *)
(* its own has yet to note it.                                             *)
LEMMA Reached ==
  ASSUME NEW first \in Places, NEW f, f.got = After(first), NEW k \in 0..Len(Pool) - 1, NEW p, p = Aim(f, k),
         NEW who, \A m \in 0..Len(Pool) - 1 : m < k => Pool[Aim(f, m)] \notin who
  PROVE  LET passed == (p - first - 1 + Len(Pool)) % Len(Pool) IN
         \A m \in 1..passed : Pool[((first - 1 + m) % Len(Pool)) + 1] \notin who
<1>1. PICK L \in Nat \ {0} : L = Len(Pool)
  BY PoolPlaces
<1>2. PICK from : from = f.got
  OBVIOUS
<1>3. OneRound(L, first, k, from, p) /\ k \in 0..L - 1
  BY <1>1, <1>2 DEF OneRound, Places, After, Aim
<1>4. /\ (p - first - 1 + L) % L = k
      /\ \A m \in 1..k : m - 1 \in 0..L - 1 /\ ((first - 1 + m) % L) + 1 = ((from - 1 + (m - 1)) % L) + 1
  BY <1>3, Round
<1>5. ASSUME NEW m \in 1..k
      PROVE  Pool[((first - 1 + m) % L) + 1] \notin who
  <2>1. PICK j : j = m - 1
    OBVIOUS
  <2>2. j \in 0..L - 1 /\ j < k
    BY <1>3, <2>1
  <2>3. Aim(f, j) = ((from - 1 + (m - 1)) % L) + 1
    BY <1>1, <1>2, <2>1 DEF Aim
  <2>4. Pool[Aim(f, j)] \notin who
    BY <1>1, <2>2
  <2>5. Aim(f, j) = ((first - 1 + m) % L) + 1
    BY <1>4, <2>3
  <2>6. QED
    BY <2>4, <2>5
<1>6. QED
  BY <1>1, <1>4, <1>5

(* What a round-robin frame does when it sends.                            *)
LEMMA RotateCases ==
  ASSUME ActionsInv, NEW g \in Goroutines, RotateOn(g), NEW f, f = Top(g)
  PROVE  \/ Becomes(g, Onto(f, None)) /\ log' = log
         \/ \E k \in 0..Len(Pool) - 1 : \E who \in SUBSET ToSet(Pool) :
              /\ \A m \in 0..Len(Pool) - 1 : m < k => Pool[Aim(f, m)] \notin who
              /\ Becomes(g, Onto(f, After(Aim(f, k))))
              /\ Logs(g, "rotated", [place |-> Aim(f, k), up |-> who])
<1>5. \E deaf \in SUBSET there :
        LET up == Reach(Top(g), deaf) IN
        IF up = {} THEN Becomes(g, Onto(Top(g), None)) /\ log' = log
        ELSE LET k == CHOOSE k \in up : \A j \in up : k <= j IN
             /\ Becomes(g, Onto(Top(g), After(Aim(Top(g), k))))
             /\ Logs(g, "rotated", [place |-> Aim(Top(g), k), up |-> there \ deaf])
  BY DEF RotateOn, Reach, Aim, PassesWith, Onto
<1>1. PICK deaf \in SUBSET there :
        LET up == Reach(f, deaf) IN
        IF up = {} THEN Becomes(g, Onto(f, None)) /\ log' = log
        ELSE LET k == CHOOSE k \in up : \A j \in up : k <= j IN
             /\ Becomes(g, Onto(f, After(Aim(f, k))))
             /\ Logs(g, "rotated", [place |-> Aim(f, k), up |-> there \ deaf])
  BY <1>5
<1>2. CASE Reach(f, deaf) = {}
  BY <1>1, <1>2
<1>3. CASE Reach(f, deaf) # {}
  <2>1. PICK up : up = Reach(f, deaf)
    OBVIOUS
  <2>2. up \subseteq 0..Len(Pool) - 1 /\ 0..Len(Pool) - 1 \subseteq Nat
    BY <2>1, PoolPlaces DEF Reach
  <2>3. \E k \in up : \A j \in up : k <= j
    <3>1. up \subseteq Nat /\ up # {}
      BY <1>3, <2>1, <2>2
    <3>2. QED
      BY ONLY <3>1, Smallest
  <2>4. PICK k : k = CHOOSE q \in up : \A j \in up : q <= j
    OBVIOUS
  <2>5. k \in up /\ \A j \in up : k <= j
    BY <2>3, <2>4, Zenon
  <2>6. /\ Becomes(g, Onto(f, After(Aim(f, k))))
        /\ Logs(g, "rotated", [place |-> Aim(f, k), up |-> there \ deaf])
    BY <1>1, <1>3, <2>1, <2>4
  <2>7. PICK who : who = there \ deaf
    OBVIOUS
  <2>8. who \in SUBSET ToSet(Pool)
    BY <2>7 DEF ActionsInv, TypeInv
  <2>9. ASSUME NEW m \in 0..Len(Pool) - 1, m < k
        PROVE  Pool[Aim(f, m)] \notin who
    <3>1. m \in Nat /\ k \in Nat
      BY <2>2, <2>5
    <3>2. m \notin up
      <4>1. ~(k <= m)
        BY ONLY <2>9, <3>1
      <4>2. QED
        BY <2>5, <4>1
    <3>3. QED
      BY <2>1, <2>7, <3>2 DEF Reach
  <2>10. QED
    BY <2>2, <2>5, <2>6, <2>7, <2>8, <2>9
<1>4. QED
  BY <1>2, <1>3

(* A frame that rotates goes to where its place is noted.                  *)
LEMMA RotatesAt ==
  ASSUME ActionsInv, NEW g \in Goroutines, Runs(g, "rotate"), NEW f, f = Top(g)
  PROVE  /\ StepOf(f).uses = "round-robin" /\ f.ip = 5 /\ f.got \in Places /\ f.pc = "run"
         /\ \A v \in Places \cup {None} : Onward(f, v)
         /\ \A v : Onto(f, v).pc = "run" /\ Onto(f, v).ip = 6 /\ Onto(f, v).got = v /\ Onto(f, v).h = f.h
                   /\ Onto(f, v).at = f.at
<1>1. /\ f \in Frames /\ f.pc = "run" /\ Script(f)[f.ip].op = "rotate"
      /\ Fits(StepOf(f).uses, f.ip, Script(f)[f.ip]) /\ Marked(StepOf(f).uses, Script(f))
      /\ GotFits(StepOf(f).uses, f.ip, f.got)
  BY AtInstruction
<1>2. StepOf(f).uses = "round-robin" /\ f.ip = 5
  BY <1>1 DEF Fits
<1>3. f.got \in Places /\ Len(Script(f)) # 5
  BY <1>1, <1>2 DEF GotFits, Marked
<1>4. ASSUME NEW v \in Places \cup {None}
      PROVE  Onward(f, v)
  <2>1. v \in Gots
    BY PoolPlaces DEF Gots
  <2>2. GotFits("round-robin", 6, v)
    BY <1>4 DEF GotFits, Chats
  <2>3. f.ip + 1 = 6
    BY <1>2
  <2>4. QED
    BY <1>2, <2>1, <2>2, <2>3 DEF Onward
<1>5. ASSUME NEW v
      PROVE  /\ Onto(f, v).pc = "run" /\ Onto(f, v).ip = 6 /\ Onto(f, v).got = v /\ Onto(f, v).h = f.h
             /\ Onto(f, v).at = f.at
  <2>1. PICK d : d = [f EXCEPT !.got = v]
    OBVIOUS
  <2>2. d.h = f.h /\ d.at = f.at /\ d.ip = 5 /\ d.pc = "run" /\ d.got = v
        /\ DOMAIN d = DOMAIN f
    BY <1>1, <1>2, <2>1 DEF Frames
  <2>3. Script(d) = Script(f)
    BY <2>2, SamePlace
  <2>4. Passed(d) = [d EXCEPT !.ip = @ + 1]
    BY <1>3, <2>2, <2>3 DEF Passed
  <2>5. /\ [d EXCEPT !.ip = @ + 1].pc = "run" /\ [d EXCEPT !.ip = @ + 1].ip = 6
        /\ [d EXCEPT !.ip = @ + 1].got = v /\ [d EXCEPT !.ip = @ + 1].h = f.h
        /\ [d EXCEPT !.ip = @ + 1].at = f.at
    BY <1>1, <2>2 DEF Frames
  <2>6. QED
    BY <2>1, <2>4, <2>5 DEF Onto
<1>6. QED
  BY <1>1, <1>2, <1>3, <1>4, <1>5

-----------------------------------------------------------------------------
(* Nobody can be reached.                                                  *)
LEMMA NobodyKeeps ==
  ASSUME ActionsInv, NEW g \in Goroutines, Runs(g, "rotate"), NEW f, f = Top(g),
         Becomes(g, Onto(f, None)), UNCHANGED <<config, missing, reg, chat, stored, there, clock, log>>
  PROVE  ActionsInv'
<1>1. /\ StepOf(f).uses = "round-robin" /\ f.ip = 5 /\ f.pc = "run" /\ Onward(f, None)
      /\ Onto(f, None).got = None
  BY RotatesAt
<1>2. LogKeeps(Counted) /\ LogKeeps({"reply", "error", "end"})
  BY DEF LogKeeps
<1>3. PICK e : e = Onto(f, None)
  OBVIOUS
<1>4. Becomes(g, e) /\ config' = config /\ "rotate" \in {"keep", "take", "rotate"}
  BY <1>3
<1> DEFINE n == Len(stack[g])
<1>5. Shifts(g, n, "rotate", f, None, e)
  BY <1>1, <1>2, <1>3, <1>4, SharedStep
<1> HIDE DEF n
<1>6. /\ Changes(g, n, e) /\ n \in DOMAIN stack'[g] /\ stack[g][n] = f /\ Fresher(e, g[1])'
      /\ MutexInv' /\ StackInv' /\ AnswerInv'
      /\ \A h : Rotating(f, h) = FALSE
      /\ \A h : \A c : Spreading(f, h, c) = FALSE /\ Spreading(e, h, c) = FALSE
  BY <1>5 DEF Shifts
<1>7. \A h : Rotating(e, h) = FALSE
  BY <1>1, <1>3 DEF Rotating
<1>8. WritesSame(stack[g][n], e)
  BY <1>6, <1>7 DEF WritesSame
<1>9. UNCHANGED <<config, missing, reg, chat, there, clock>> /\ stored' \in BOOLEAN
  BY DEF ActionsInv, TypeInv
<1>10. QED
  BY ONLY ActionsInv, <1>2, <1>6, <1>8, <1>9, QuietChange

(* The places of the sendings of h with a last one more.                   *)
LEMMA NextRotated ==
  ASSUME NEW h, NEW z, NEW f, NEW k \in 0..Len(Pool) - 1, NEW p, p = Aim(f, k), NEW who,
         \A m \in 0..Len(Pool) - 1 : m < k => Pool[Aim(f, m)] \notin who,
         Rotated(h), Logged(h, "rotated") \subseteq 1..z - 1, z \in Nat \ {0},
         \A i \in Logged(h, "rotated") : log[i].val.place \in Places,
         Logged(h, "rotated")' = Logged(h, "rotated") \cup {z}, \A i \in Logged(h, "rotated") : log'[i] = log[i],
         log'[z].val.place = p, log'[z].val.up = who,
         \A i \in Logged(h, "rotated") : LastRotated(h, i) => f.got = After(log[i].val.place)
  PROVE  Rotated(h)'
<1> DEFINE A == Logged(h, "rotated")
<1>0. \A i \in A : i \in Nat /\ i < z
  OBVIOUS
<1> HIDE DEF A
<1>1. ASSUME NEW i \in A \cup {z}, NEW j \in A \cup {z}, i < j, \A m \in A \cup {z} : m <= i \/ j <= m
      PROVE  LET first == log'[i].val.place
                 passed == (log'[j].val.place - first - 1 + Len(Pool)) % Len(Pool) IN
             \A m \in 1..passed : Pool[((first - 1 + m) % Len(Pool)) + 1] \notin log'[j].val.up
  <2>1. i \in A
    BY <1>0, <1>1
  <2>2. CASE j \in A
    <3>1. /\ \A m \in A : m <= i \/ j <= m
          /\ log'[i] = log[i] /\ log'[j] = log[j]
      BY <1>1, <2>1, <2>2 DEF A
    <3>2. QED
      BY <1>1, <2>1, <2>2, <3>1 DEF Rotated, A
  <2>3. CASE j = z
    <3>1. LastRotated(h, i)
      <4>1. ASSUME NEW m \in A
            PROVE  m <= i
        <5>1. m <= i \/ z <= m
          BY <1>1, <2>3
        <5>2. m \in Nat /\ i \in Nat /\ m < z
          BY <1>0, <2>1
        <5>3. QED
          BY ONLY <5>1, <5>2, z \in Nat \ {0}
      <4>2. QED
        BY <2>1, <4>1 DEF LastRotated, A
    <3>2. PICK first : first = log[i].val.place
      OBVIOUS
    <3>3. first \in Places /\ f.got = After(first) /\ log'[i].val.place = first
      BY <2>1, <3>1, <3>2 DEF A
    <3>4. LET passed == (p - first - 1 + Len(Pool)) % Len(Pool) IN
          \A m \in 1..passed : Pool[((first - 1 + m) % Len(Pool)) + 1] \notin who
      BY <3>3, Reached
    <3>5. QED
      BY <2>3, <3>3, <3>4
  <2>4. QED
    BY <1>1, <2>2, <2>3
<1>2. QED
  BY <1>1 DEF Rotated, A

(* The first that can be reached is sent to.                               *)
LEMMA SomebodyKeeps ==
  ASSUME ActionsInv, NEW g \in Goroutines, Runs(g, "rotate"), NEW f, f = Top(g),
         NEW k \in 0..Len(Pool) - 1, NEW who \in SUBSET ToSet(Pool), NEW p, p = Aim(f, k),
         \A m \in 0..Len(Pool) - 1 : m < k => Pool[Aim(f, m)] \notin who,
         Becomes(g, Onto(f, After(p))), Logs(g, "rotated", [place |-> p, up |-> who]),
         UNCHANGED <<config, missing, reg, chat, stored, there, clock>>
  PROVE  ActionsInv'
<1>1. /\ StepOf(f).uses = "round-robin" /\ f.ip = 5 /\ f.got \in Places /\ f.pc = "run"
      /\ \A v \in Places \cup {None} : Onward(f, v)
      /\ \A v : Onto(f, v).pc = "run" /\ Onto(f, v).ip = 6 /\ Onto(f, v).got = v /\ Onto(f, v).h = f.h
                /\ Onto(f, v).at = f.at
  BY RotatesAt
<1>2. PICK v : v = After(p)
  OBVIOUS
<1>3. p \in Places /\ v \in Places /\ v # None
  <2>1. p \in Places
    <3>1. PICK L \in Nat \ {0} : L = Len(Pool)
      BY PoolPlaces
    <3>2. PICK x : x = f.got - 1 + k
      OBVIOUS
    <3>3. x \in Nat
      BY <1>1, <3>1, <3>2 DEF Places
    <3>4. (x % L) + 1 \in 1..L
      BY <3>1, <3>3
    <3>5. QED
      BY <3>1, <3>2, <3>4 DEF Aim, Places
  <2>2. QED
    BY <1>2, <2>1, PoolPlaces
<1>4. /\ f \in Frames /\ f.h \in HandlerNames /\ log \in Seq(Entries) /\ config \in Setups /\ FrameFits(f)
      /\ stack[g] # <<>> /\ TypeInv /\ MutexInv
  BY AtInstruction DEF ActionsInv
<1>5. PICK x \in Entries : log' = Append(log, x) /\ x.what = "rotated" /\ x.h = f.h
                           /\ x.val = [place |-> p, up |-> who]
  <2>1. [place |-> p, up |-> who] \in Vals /\ "rotated" \in Kinds
    BY <1>3 DEF Vals, Kinds
  <2>2. QED
    BY <1>4, <2>1, Noted DEF Logs
<1> DEFINE K == {"reply", "error", "end", "sequence", "sample", "spread", "state", "turn"}
<1>6. LogKeeps(K) /\ LogKeeps({"reply", "error", "end"})
  BY <1>5 DEF LogKeeps
<1>7. PICK e : e = Onto(f, v)
  OBVIOUS
<1>8. Becomes(g, e) /\ config' = config /\ there' = there /\ "rotate" \in {"keep", "take", "rotate"}
  BY <1>2, <1>7
<1> DEFINE n == Len(stack[g])
<1>9. Shifts(g, n, "rotate", f, v, e)
  BY <1>1, <1>3, <1>6, <1>7, <1>8, SharedStep
<1> HIDE DEF n
<1>10. /\ Changes(g, n, e) /\ n \in DOMAIN stack'[g] /\ n \in DOMAIN stack[g]
       /\ stack[g][n] = f /\ stack'[g][n] = e /\ e.h = f.h
       /\ (IsSerial(f.h) => Fresher(f, g[1]))
       /\ MutexInv' /\ StackInv' /\ AnswerInv'
       /\ stack' \in [Goroutines -> Seq(Frames)]
       /\ \A h : Rotating(f, h) = FALSE
  BY <1>9 DEF Shifts
<1>11. TypeInv'
  <2>1. log' \in Seq(Entries)
    BY <1>4, <1>6, LogKept
  <2>2. QED
    BY <1>4, <1>10, <2>1 DEF TypeInv
<1>12. ReadInv' /\ SpreadInv'
  <2>1. /\ \A h \in HandlerNames : h # f.h => reg'[h] = reg[h]
        /\ \A h \in HandlerNames : reg'[h].last = reg[h].last
        /\ \A c \in Chats : chat'[c] = chat[c] \/ StepOf(f).uses = c
        /\ "spread" \in K
    OBVIOUS
  <2> HIDE DEF K
  <2>2. QED
    BY ONLY ActionsInv, <1>4, <1>6, <1>8, <1>9, <2>1, Elsewhere
<1>13. CountInv'
  <2>1. CountInv /\ {"sequence", "sample"} \subseteq K
    BY DEF ActionsInv
  <2> HIDE DEF K
  <2>2. \A h \in HandlerNames : reg'[h].sequence = reg[h].sequence /\ reg'[h].sample = reg[h].sample
    OBVIOUS
  <2>3. QED
    BY <1>4, <1>6, <1>8, <2>1, <2>2, CountKept
<1>14. TurnInv'
  <2>1. TurnInv /\ {"state", "turn"} \subseteq K
    BY DEF ActionsInv
  <2> HIDE DEF K
  <2>2. (\A h \in HandlerNames : reg'[h].state = reg[h].state) /\ chat' = chat
    OBVIOUS
  <2>3. QED
    BY <1>4, <1>6, <1>8, <2>1, <2>2, TurnKept
<1>15. PICK z : z = Len(log) + 1
  OBVIOUS
<1>16. /\ \A h : Logged(h, "rotated")' = IF f.h = h THEN Logged(h, "rotated") \cup {z} ELSE Logged(h, "rotated")
       /\ \A i \in DOMAIN log : log'[i] = log[i]
       /\ log'[z] = x /\ z \in Nat \ {0} /\ \A h, w : Logged(h, w) \subseteq 1..z - 1
       /\ \A h, w : Logged(h, w) \subseteq DOMAIN log
  <2>1. /\ \A i \in DOMAIN log : log'[i] = log[i]
        /\ DOMAIN log = 1..Len(log) /\ Len(log) \in Nat /\ log'[Len(log) + 1] = x
        /\ \A h, w : Logged(h, w)' = IF x.h = h /\ x.what = w THEN Logged(h, w) \cup {Len(log) + 1} ELSE Logged(h, w)
    BY <1>4, <1>5, LogGrows
  <2>2. \A h, w : Logged(h, w) \subseteq DOMAIN log
    BY DEF Logged
  <2>3. z \in Nat \ {0} /\ z - 1 = Len(log)
    BY <1>15, <2>1
  <2>4. QED
    BY <1>5, <1>15, <2>1, <2>2, <2>3
<1>17. ASSUME NEW h \in HandlerNames, IsSerial(h), h # f.h
       PROVE  RotationOf(h)'
  <2>1. RotationOf(h) /\ reg'[h].rotation = reg[h].rotation
    BY <1>17 DEF ActionsInv, RotationInv
  <2>2. Rotating(f, h) = FALSE /\ Rotating(e, h) = FALSE
    BY <1>10, <1>17 DEF Rotating
  <2>3. Logged(h, "rotated")' = Logged(h, "rotated") /\ \A i \in Logged(h, "rotated") : log'[i] = log[i]
    BY <1>16, <1>17
  <2>4. /\ n \in DOMAIN stack'[g] \/ stack[g][n].pc = "return"
        /\ Rotating(e, h) = Rotating(stack[g][n], h)
        /\ Rotating(e, h) => e.got = stack[g][n].got
    BY <1>10, <2>2
  <2>5. QED
    BY ONLY <1>10, <1>17, <2>1, <2>3, <2>4, RotationOfKept
<1>18. ASSUME NEW h \in HandlerNames, IsSerial(h), h = f.h
       PROVE  RotationOf(h)'
  <2>1. /\ RotationOf(h) /\ Rotated(h)
        /\ \A i \in Logged(h, "rotated") : log[i].val \in [place : Places, up : SUBSET ToSet(Pool)]
    BY <1>18 DEF ActionsInv, RotationInv, RotationOf
  <2>2. ASSUME NEW q \in Goroutines, NEW j \in DOMAIN stack[q], Rotating(stack[q][j], h)
        PROVE  FALSE
    <3>1. stack[q][j].h = h /\ stack[q][j].pc = "run"
      BY <2>2 DEF Rotating, Runner
    <3>2. /\ IsSerial(stack[g][n].h) /\ stack[g][n].h = stack[q][j].h
          /\ stack[g][n].pc # "lock" /\ stack[q][j].pc # "lock" /\ n \in DOMAIN stack[g]
      BY <1>1, <1>10, <1>18, <3>1
    <3>4. q = g /\ j = n
      BY <1>4, <2>2, <3>2 DEF MutexInv
    <3>3. QED
      BY <1>10, <2>2, <3>4
  <2>3. f.got = reg[h].rotation
    BY <1>1, <1>10, <1>18 DEF Fresher, Runner
  <2>4. \A i \in Logged(h, "rotated") : LastRotated(h, i) => f.got = After(log[i].val.place)
    BY <2>1, <2>2, <2>3 DEF RotationOf
  <2>5. /\ Logged(h, "rotated")' = Logged(h, "rotated") \cup {z} /\ Logged(h, "rotated") \subseteq 1..z - 1
        /\ \A i \in Logged(h, "rotated") : log'[i] = log[i]
        /\ log'[z].val = [place |-> p, up |-> who]
        /\ \A i \in Logged(h, "rotated") : log[i].val.place \in Places
    BY <1>5, <1>16, <1>18, <2>1
  <2>6. log'[z].val.place = p /\ log'[z].val.up = who
    BY <2>5
  <2>7. Rotated(h)'
    BY <1>16, <2>1, <2>4, <2>5, <2>6, NextRotated
  <2>8. \A i \in Logged(h, "rotated")' : log'[i].val \in [place : Places, up : SUBSET ToSet(Pool)]
    BY <1>3, <2>1, <2>5
  <2>9. ASSUME NEW i \in Logged(h, "rotated")', LastRotated(h, i)'
        PROVE  i = z
    <3>1. z <= i
      BY <2>5, <2>9 DEF LastRotated
    <3>2. QED
      BY <1>16, <2>5, <2>9, <3>1
  <2>10. Rotating(e, h)
    BY <1>1, <1>3, <1>7, <1>18, SamePlace DEF Rotating, Runner
  <2>11. e.got = After(log'[z].val.place)
    BY <1>1, <1>2, <1>7, <2>6
  <2>12. \A y : Rotating(y, h)' = Rotating(y, h)
    BY <1>8, SameConfig DEF Rotating
  <2>13. ASSUME NEW q \in Goroutines, NEW j \in DOMAIN stack'[q], Rotating(stack'[q][j], h)
         PROVE  stack'[q][j] = e
    <3>1. stack'[q][j].h = h /\ stack'[q][j].pc # "lock" /\ stack[g][n].pc # "lock" /\ e.h = h
      BY <1>1, <1>10, <1>18, <2>13 DEF Rotating, Runner
    <3>2. QED
      BY ONLY <1>4, <1>10, <1>18, <2>13, <3>1, Alone
  <2>14. \E q \in Goroutines : \E j \in DOMAIN stack'[q] : Rotating(stack'[q][j], h)
    BY <1>10, <2>10
  <2>15. QED
    BY <2>7, <2>8, <2>9, <2>11, <2>12, <2>13, <2>14 DEF RotationOf, After
<1>19. RotationInv'
  <2>1. \A h : IsSerial(h)' = IsSerial(h)
    BY <1>8, SameConfig
  <2>2. QED
    BY <1>17, <1>18, <2>1 DEF RotationInv
<1>20. QED
  BY <1>10, <1>11, <1>12, <1>13, <1>14, <1>19 DEF ActionsInv

(* The rotation of round-robin.                                            *)
LEMMA RotateKeeps ==
  ASSUME ActionsInv, NEW g \in Goroutines, RotateOn(g)
  PROVE  ActionsInv'
<1>1. PICK f : f = Top(g)
  OBVIOUS
<1>2. Runs(g, "rotate") /\ UNCHANGED <<config, missing, reg, chat, stored, there, clock>>
  BY DEF RotateOn, shared
<1>3. \/ Becomes(g, Onto(f, None)) /\ log' = log
      \/ \E k \in 0..Len(Pool) - 1 : \E who \in SUBSET ToSet(Pool) :
           /\ \A m \in 0..Len(Pool) - 1 : m < k => Pool[Aim(f, m)] \notin who
           /\ Becomes(g, Onto(f, After(Aim(f, k))))
           /\ Logs(g, "rotated", [place |-> Aim(f, k), up |-> who])
  BY <1>1, RotateCases
<1>4. CASE Becomes(g, Onto(f, None)) /\ log' = log
  BY <1>1, <1>2, <1>4, NobodyKeeps
<1>5. CASE \E k \in 0..Len(Pool) - 1 : \E who \in SUBSET ToSet(Pool) :
             /\ \A m \in 0..Len(Pool) - 1 : m < k => Pool[Aim(f, m)] \notin who
             /\ Becomes(g, Onto(f, After(Aim(f, k))))
             /\ Logs(g, "rotated", [place |-> Aim(f, k), up |-> who])
  <2>1. PICK k \in 0..Len(Pool) - 1 : \E who \in SUBSET ToSet(Pool) :
             /\ \A m \in 0..Len(Pool) - 1 : m < k => Pool[Aim(f, m)] \notin who
             /\ Becomes(g, Onto(f, After(Aim(f, k))))
             /\ Logs(g, "rotated", [place |-> Aim(f, k), up |-> who])
    BY <1>5
  <2>2. PICK p : p = Aim(f, k)
    OBVIOUS
  <2>3. PICK who \in SUBSET ToSet(Pool) :
             /\ \A m \in 0..Len(Pool) - 1 : m < k => Pool[Aim(f, m)] \notin who
             /\ Becomes(g, Onto(f, After(p)))
             /\ Logs(g, "rotated", [place |-> p, up |-> who])
    BY <2>1, <2>2
  <2>4. QED
    BY <1>1, <1>2, <2>1, <2>2, <2>3, SomebodyKeeps
<1>6. QED
  BY <1>3, <1>4, <1>5

-----------------------------------------------------------------------------
(* Counting                                                                *)

(* Two quotients with remainders of one number have the same remainder.    *)
LEMMA OneRemainder ==
  ASSUME NEW R \in Nat \ {0}, NEW q \in Int, NEW d \in Int, NEW r \in 0..R - 1, NEW m \in 0..R - 1,
         q * R + r = d * R + m
  PROVE  r = m
<1>1. ASSUME NEW a \in Int, NEW b \in Int, a < b
      PROVE  a * R + R <= b * R
  <2>1. (a + 1) * R <= b * R
    BY <1>1
  <2>2. (a + 1) * R = a * R + R
    OBVIOUS
  <2>3. QED
    BY <2>1, <2>2
<1>2. ~(q < d)
  BY <1>1
<1>3. ~(d < q)
  BY <1>1
<1>4. QED
  BY <1>2, <1>3

(* The remainders go round.                                                *)
LEMMA ModNext ==
  ASSUME NEW R \in Nat \ {0}, NEW n \in Nat
  PROVE  /\ n % R \in 0..R - 1
         /\ (n + 1) % R = IF (n % R) + 1 < R THEN (n % R) + 1 ELSE 0
         /\ ((n % R) + 1) % R = (n + 1) % R
<1>1. PICK r : r = n % R
  OBVIOUS
<1>2. PICK q : q = n \div R
  OBVIOUS
<1>3. r \in 0..R - 1 /\ q \in Int /\ n = q * R + r
  BY <1>1, <1>2
<1>4. PICK w \in Nat : w = n + 1
  OBVIOUS
<1>5. PICK m : m = w % R
  OBVIOUS
<1>6. PICK d : d = w \div R
  OBVIOUS
<1>7. m \in 0..R - 1 /\ d \in Int /\ w = d * R + m
  BY <1>5, <1>6
<1>8. CASE r + 1 < R
  <2>1. PICK s : s = r + 1
    OBVIOUS
  <2>2. s \in 0..R - 1 /\ q * R + s = d * R + m
    BY <1>3, <1>4, <1>7, <1>8, <2>1
  <2>3. s = m
    BY ONLY R \in Nat \ {0}, <1>3, <1>7, <2>2, OneRemainder
  <2>4. s % R = s
    BY <2>2
  <2>5. (n + 1) % R = s /\ ((n % R) + 1) % R = s
    BY <1>1, <1>4, <1>5, <2>1, <2>3, <2>4
  <2>6. QED
    BY <1>1, <1>3, <1>8, <2>1, <2>5
<1>9. CASE ~(r + 1 < R)
  <2>1. r + 1 = R
    BY <1>3, <1>9
  <2>2. PICK p \in Int : p = q + 1
    BY <1>3
  <2>3. p * R + 0 = d * R + m /\ 0 \in 0..R - 1
    BY <1>3, <1>4, <1>7, <2>1, <2>2
  <2>4. m = 0
    BY ONLY R \in Nat \ {0}, <1>7, <2>2, <2>3, OneRemainder
  <2>5. R % R = 0
    OBVIOUS
  <2>6. (n + 1) % R = 0 /\ ((n % R) + 1) % R = 0
    BY <1>1, <1>4, <1>5, <2>1, <2>4, <2>5
  <2>7. QED
    BY <1>1, <1>3, <1>9, <2>6
<1>10. QED
  BY <1>8, <1>9

(* The register of a sequence after n responses, and after one more.       *)
LEMMA GivenNext ==
  ASSUME NEW h, NEW n \in Nat, config[h].loop \in BOOLEAN
  PROVE  /\ Given(h, n) \in 0..Responses - 1 /\ Given(h, n) % Responses = Given(h, n)
         /\ NextInSequence(Given(h, n), config[h].loop) = Given(h, n + 1)
         /\ Given(h, n + 1) \in 0..Responses - 1
<1>1. PICK R \in Nat \ {0} : R = Responses
  BY ActionsAssumption
<1>2. PICK loop \in BOOLEAN : loop = config[h].loop
  OBVIOUS
<1>3. PICK a : a = Given(h, n)
  OBVIOUS
<1>4. PICK w \in Nat : w = n + 1
  OBVIOUS
<1>5. PICK b : b = Given(h, w)
  OBVIOUS
<1>6. /\ a = IF loop \/ n < R THEN n % R ELSE R - 1
      /\ b = IF loop \/ w < R THEN w % R ELSE R - 1
      /\ n % R \in 0..R - 1 /\ w % R \in 0..R - 1
  BY <1>1, <1>2, <1>3, <1>4, <1>5 DEF Given
<1>7. /\ w % R = IF (n % R) + 1 < R THEN (n % R) + 1 ELSE 0
      /\ ((n % R) + 1) % R = w % R
  BY <1>4, ModNext
<1>8. a \in 0..R - 1 /\ b \in 0..R - 1
  BY <1>6
<1>9. a % R = a
  BY <1>8
<1>10. CASE loop
  <2>1. NextInSequence(a, loop) = (a + 1) % R
    BY <1>1, <1>10 DEF NextInSequence
  <2>2. a = n % R /\ b = w % R
    BY <1>6, <1>10
  <2>3. QED
    BY <1>1, <1>2, <1>3, <1>4, <1>5, <1>7, <1>8, <1>9, <2>1, <2>2
<1>11. CASE ~loop
  <2>1. NextInSequence(a, loop) = IF a + 1 >= R THEN R - 1 ELSE (a + 1) % R
    BY <1>1, <1>11 DEF NextInSequence
  <2>2. CASE n < R
    <3>1. n % R = n
      BY <2>2
    <3>2. a = n
      BY <1>6, <2>2, <3>1
    <3>3. NextInSequence(a, loop) = b
      BY <1>4, <1>6, <1>11, <2>1, <2>2, <3>2
    <3>4. QED
      BY <1>1, <1>2, <1>3, <1>4, <1>5, <1>8, <1>9, <3>3
  <2>3. CASE ~(n < R)
    <3>1. a = R - 1 /\ b = R - 1
      BY <1>4, <1>6, <1>11, <2>3
    <3>2. NextInSequence(a, loop) = b
      BY <2>1, <3>1
    <3>3. QED
      BY <1>1, <1>2, <1>3, <1>4, <1>5, <1>8, <1>9, <3>2
  <2>4. QED
    BY <2>2, <2>3
<1>12. QED
  BY <1>10, <1>11

(* Those before i when a last one is added.                                *)
LEMMA EarlierPlaces ==
  ASSUME NEW T, NEW z, NEW R, LastAdded(T, z, R)
  PROVE  /\ \A i \in T : Earlier(R, i) = Earlier(T, i)
         /\ Earlier(R, z) = Cardinality(T) /\ z \notin T
         /\ Cardinality(T) \in Nat /\ Cardinality(R) = Cardinality(T) + 1
<1>1. IsFiniteSet(T) /\ z \in Nat /\ (\A i \in T : i \in Nat /\ i < z) /\ R = T \cup {z}
  BY DEF LastAdded
<1>2. ASSUME NEW i \in T
      PROVE  Earlier(R, i) = Earlier(T, i)
  <2>1. i \in Nat /\ i < z
    BY <1>1
  <2>2. {j \in R : j < i} = {j \in T : j < i}
    BY <1>1, <2>1
  <2>3. QED
    BY <2>2 DEF Earlier
<1>3. {j \in R : j < z} = T /\ z \notin T
  BY <1>1
<1>4. QED
  BY <1>2, <1>3, LaterPlaces DEF Earlier

-----------------------------------------------------------------------------
(* What is taken from the register k of h, and what it becomes.            *)
Taken(h, k, v, got) ==
  /\ k \in {"sequence", "sample", "limit"}
  /\ k = "sequence" => v = NextInSequence(reg[h].sequence, config[h].loop) /\ got = reg[h].sequence % Responses
  /\ k = "sample" => v = reg[h].sample + 1 /\ got = reg[h].sample + 1
  /\ k = "limit" => v \in 0..Burst

(* An instruction that takes.                                              *)
LEMMA TakeCases ==
  ASSUME ActionsInv, NEW g \in Goroutines, TakeNext(g), NEW f, f = Top(g), NEW k, k = On(g)
  PROVE  \E v : \E got : /\ Taken(f.h, k, v, got) /\ Sets(f.h, k, v)
                         /\ Becomes(g, Onto(f, got)) /\ Logs(g, k, got) /\ Onward(f, got)
<1>1. /\ f.pc = "run" /\ Script(f)[f.ip].op = "take" /\ k = Script(f)[f.ip].on
      /\ Fits(StepOf(f).uses, f.ip, Script(f)[f.ip]) /\ f \in Frames /\ f.h \in HandlerNames
      /\ f.ip \in Nat
  BY AtInstruction DEF TakeNext
<1> DEFINE b == StepOf(f).uses
           x == Script(f)[f.ip]
           r == reg[f.h]
<1>2. x.op = "take" /\ x.on = k /\ Fits(b, f.ip, x) /\ r \in Registers
  BY <1>1 DEF ActionsInv, TypeInv
<1> HIDE DEF b, x, r
<1>3. \/ k = "sequence" /\ b = "sequence"
      \/ k = "sample" /\ b = "sample"
      \/ k = "limit" /\ b = "rate-limit" /\ f.ip = 2
  BY <1>2 DEF Fits
<1>4. /\ r.sequence \in 0..Responses - 1 /\ r.sample \in Nat /\ r.limit \in 0..Burst
      /\ Responses \in Nat \ {0} /\ Burst \in Nat
  BY <1>2, ActionsAssumption DEF Registers
<1>5. CASE k = "sequence" /\ b = "sequence"
  <2>1. PICK v : v = NextInSequence(r.sequence, config[f.h].loop)
    OBVIOUS
  <2>2. PICK got : got = r.sequence % Responses
    OBVIOUS
  <2>3. Sets(f.h, k, v) /\ Becomes(g, Onto(f, got)) /\ Logs(g, k, got)
    BY <1>5, <2>1, <2>2 DEF TakeNext, Sets, PassesWith, Onto, r
  <2>4. got \in Nat
    BY <1>4, <2>2
  <2>5. Onward(f, got)
    BY <1>1, <1>5, <2>4 DEF Onward, GotFits, Gots, Chats, b
  <2>6. Taken(f.h, k, v, got)
    BY <1>5, <2>1, <2>2 DEF Taken, r
  <2>7. QED
    BY <2>3, <2>5, <2>6
<1>6. CASE k = "sample" /\ b = "sample"
  <2>1. PICK v : v = r.sample + 1
    OBVIOUS
  <2>2. Sets(f.h, k, v) /\ Becomes(g, Onto(f, v)) /\ Logs(g, k, v)
    BY <1>6, <2>1 DEF TakeNext, Sets, PassesWith, Onto, r
  <2>3. v \in Nat
    BY <1>4, <2>1
  <2>4. Onward(f, v)
    BY <1>1, <1>6, <2>3 DEF Onward, GotFits, Gots, Chats, b
  <2>5. Taken(f.h, k, v, v)
    BY <1>6, <2>1 DEF Taken, r
  <2>6. QED
    BY <2>2, <2>4, <2>5
<1>7. CASE k = "limit" /\ b = "rate-limit" /\ f.ip = 2
  <2>1. PICK v : v = IF r.limit > 0 THEN r.limit - 1 ELSE 0
    OBVIOUS
  <2>2. PICK got : got = (r.limit > 0)
    OBVIOUS
  <2>3. Sets(f.h, k, v) /\ Becomes(g, Onto(f, got)) /\ Logs(g, k, got)
    BY <1>7, <2>1, <2>2 DEF TakeNext, Sets, PassesWith, Onto, r
  <2>4. got \in BOOLEAN
    BY <2>2
  <2>5. Onward(f, got)
    BY <1>1, <1>7, <2>4 DEF Onward, GotFits, Gots, Chats, b
  <2>6. v \in 0..Burst
    BY <1>4, <2>1
  <2>7. Taken(f.h, k, v, got)
    BY <1>7, <2>6 DEF Taken
  <2>8. QED
    BY <2>3, <2>5, <2>7
<1>8. QED
  BY <1>3, <1>5, <1>6, <1>7

(* What is logged is what was counted.                                     *)
LEMMA CountsOn ==
  ASSUME CountInv, config' = config, config \in Setups, log \in Seq(Entries), reg \in [HandlerNames -> Registers],
         NEW h \in HandlerNames, config[h] # None, NEW k, NEW v, NEW got, Taken(h, k, v, got),
         NEW x \in Entries, log' = Append(log, x), x.h = h, x.what = k, x.val = got,
         reg'[h].sequence = IF k = "sequence" THEN v ELSE reg[h].sequence,
         reg'[h].sample = IF k = "sample" THEN v ELSE reg[h].sample
  PROVE  /\ reg'[h].sequence = Given(h, Cardinality(Logged(h, "sequence")'))
         /\ reg'[h].sample = Cardinality(Logged(h, "sample")')
         /\ InSequence(h)'
<1>1. PICK z : z = Len(log) + 1
  OBVIOUS
<1>2. /\ \A w : Logged(h, w)' = IF k = w THEN Logged(h, w) \cup {z} ELSE Logged(h, w)
      /\ \A i \in DOMAIN log : log'[i] = log[i] /\ i \in Nat /\ i < z
      /\ log'[z].val = got /\ z \in Nat
      /\ \A w : Logged(h, w) \subseteq DOMAIN log
  <2>1. /\ \A i \in DOMAIN log : log'[i] = log[i]
        /\ DOMAIN log = 1..Len(log) /\ Len(log) \in Nat /\ log'[Len(log) + 1] = x
        /\ \A w : Logged(h, w)' = IF x.h = h /\ x.what = w THEN Logged(h, w) \cup {Len(log) + 1} ELSE Logged(h, w)
    BY LogGrows
  <2>2. \A w : Logged(h, w) \subseteq DOMAIN log
    BY DEF Logged
  <2>3. \A i \in 1..Len(log) : i \in Nat /\ i < z
    BY <1>1, <2>1
  <2>4. QED
    BY <1>1, <2>1, <2>2, <2>3
<1>3. \A w : IsFiniteSet(Logged(h, w)) /\ Cardinality(Logged(h, w)) \in Nat
  BY Finite
<1>4. ASSUME NEW w, k = w
      PROVE  LastAdded(Logged(h, w), z, Logged(h, w)')
  BY <1>2, <1>3, <1>4 DEF LastAdded
<1>5. /\ reg[h].sequence = Given(h, Cardinality(Logged(h, "sequence")))
      /\ reg[h].sample = Cardinality(Logged(h, "sample")) /\ InSequence(h)
      /\ config[h].loop \in BOOLEAN
  BY Configured DEF CountInv
<1>6. \A n : Given(h, n)' = Given(h, n)
  BY SameConfig
<1>7. /\ reg'[h].sequence = Given(h, Cardinality(Logged(h, "sequence")'))
      /\ \A i \in Logged(h, "sequence")' : log'[i].val = Given(h, Earlier(Logged(h, "sequence")', i))
  <2> DEFINE T == Logged(h, "sequence")
  <2>1. CASE k = "sequence"
    <3>1. PICK R : R = T'
      OBVIOUS
    <3>2. LastAdded(T, z, R)
      BY <1>4, <2>1, <3>1
    <3>3. PICK c : c = Cardinality(T)
      OBVIOUS
    <3>4. /\ \A i \in T : Earlier(R, i) = Earlier(T, i)
          /\ Earlier(R, z) = c /\ c \in Nat /\ Cardinality(R) = c + 1
      BY <3>2, <3>3, EarlierPlaces
    <3>5. /\ Given(h, c) % Responses = Given(h, c)
          /\ NextInSequence(Given(h, c), config[h].loop) = Given(h, c + 1)
      BY <1>5, <3>4, GivenNext
    <3>6. v = Given(h, c + 1) /\ got = Given(h, c)
      BY <1>5, <2>1, <3>3, <3>5 DEF Taken
    <3>7. reg'[h].sequence = Given(h, Cardinality(R))
      BY <2>1, <3>4, <3>6
    <3>8. ASSUME NEW i \in R
          PROVE  log'[i].val = Given(h, Earlier(R, i))
      <4>1. CASE i \in T
        BY <1>2, <1>5, <3>4, <4>1 DEF InSequence
      <4>2. CASE i = z
        BY <1>2, <3>4, <3>6, <4>2
      <4>3. QED
        BY <1>2, <2>1, <3>1, <4>1, <4>2
    <3>9. QED
      BY <3>1, <3>7, <3>8
  <2>2. CASE k # "sequence"
    BY <1>2, <1>5, <2>2 DEF InSequence
  <2>3. QED
    BY <2>1, <2>2
<1>8. /\ reg'[h].sample = Cardinality(Logged(h, "sample")')
      /\ \A i \in Logged(h, "sample")' : log'[i].val = Earlier(Logged(h, "sample")', i) + 1
  <2> DEFINE T == Logged(h, "sample")
  <2>1. CASE k = "sample"
    <3>1. PICK R : R = T'
      OBVIOUS
    <3>2. LastAdded(T, z, R)
      BY <1>4, <2>1, <3>1
    <3>3. /\ \A i \in T : Earlier(R, i) = Earlier(T, i)
          /\ Earlier(R, z) = Cardinality(T) /\ Cardinality(R) = Cardinality(T) + 1
      BY <3>2, EarlierPlaces
    <3>4. v = Cardinality(T) + 1 /\ got = Cardinality(T) + 1
      BY <1>5, <2>1 DEF Taken
    <3>5. ASSUME NEW i \in R
          PROVE  log'[i].val = Earlier(R, i) + 1
      <4>1. CASE i \in T
        BY <1>2, <1>5, <3>3, <4>1 DEF InSequence
      <4>2. CASE i = z
        BY <1>2, <3>3, <3>4, <4>2
      <4>3. QED
        BY <1>2, <2>1, <3>1, <4>1, <4>2
    <3>6. QED
      BY <2>1, <3>1, <3>3, <3>4, <3>5
  <2>2. CASE k # "sample"
    BY <1>2, <1>5, <2>2 DEF InSequence
  <2>3. QED
    BY <2>1, <2>2
<1>9. InSequence(h)'
  BY <1>6, <1>7, <1>8 DEF InSequence, Earlier
<1>10. QED
  BY <1>7, <1>8, <1>9

(* GetNextSequenceIndex, GetNextSampleCount and the limiter's token.       *)
LEMMA TakeKeeps ==
  ASSUME ActionsInv, NEW g \in Goroutines, TakeNext(g)
  PROVE  ActionsInv'
<1>1. PICK f : f = Top(g)
  OBVIOUS
<1>2. PICK k : k = On(g)
  OBVIOUS
<1>3. Runs(g, "take") /\ UNCHANGED <<config, missing, chat, stored, there, clock>>
  BY DEF TakeNext
<1>4. PICK v : \E y : /\ Taken(f.h, k, v, y) /\ Sets(f.h, k, v)
                      /\ Becomes(g, Onto(f, y)) /\ Logs(g, k, y) /\ Onward(f, y)
  BY <1>1, <1>2, TakeCases
<1>5. PICK got : /\ Taken(f.h, k, v, got) /\ Sets(f.h, k, v)
                 /\ Becomes(g, Onto(f, got)) /\ Logs(g, k, got) /\ Onward(f, got)
  BY <1>4
<1>6. /\ f \in Frames /\ f.h \in HandlerNames /\ log \in Seq(Entries) /\ config \in Setups /\ FrameFits(f)
      /\ stack[g] # <<>> /\ f.pc = "run" /\ TypeInv
      /\ config[f.h] # None
  BY <1>1, <1>3, AtInstruction DEF ActionsInv, FrameFits, Stands
<1>7. k \in {"sequence", "sample", "limit"} /\ got \in Gots
  BY <1>5 DEF Taken, Onward
<1>8. PICK x \in Entries : log' = Append(log, x) /\ x.what = k /\ x.h = f.h /\ x.val = got
  <2>1. got \in Vals /\ k \in Kinds
    BY <1>7 DEF Vals, Kinds
  <2>2. QED
    BY <1>1, <1>5, <1>6, <2>1, Noted DEF Logs
<1> DEFINE K == {"reply", "error", "end", "rotated", "spread", "state", "turn"}
<1>9. LogKeeps(K) /\ LogKeeps({"reply", "error", "end"})
  BY <1>7, <1>8 DEF LogKeeps
<1>10. PICK e : e = Onto(f, got)
  OBVIOUS
<1>11. Becomes(g, e) /\ config' = config /\ there' = there /\ "take" \in {"keep", "take", "rotate"}
  BY <1>3, <1>5, <1>10
<1> DEFINE n == Len(stack[g])
<1>12. Shifts(g, n, "take", f, got, e)
  BY <1>1, <1>3, <1>5, <1>9, <1>10, <1>11, SharedStep
<1> HIDE DEF n
<1>13. /\ Changes(g, n, e) /\ n \in DOMAIN stack'[g]
       /\ stack[g][n] = f /\ e.h = f.h
       /\ MutexInv' /\ StackInv' /\ AnswerInv'
       /\ stack' \in [Goroutines -> Seq(Frames)]
       /\ \A h : Rotating(e, h) = FALSE /\ Rotating(f, h) = FALSE
  BY <1>12 DEF Shifts
<1>14. reg \in [HandlerNames -> Registers] /\ reg[f.h] \in Registers /\ CountInv
  BY <1>6 DEF ActionsInv, TypeInv
<1>15. /\ k = "sequence" => v \in 0..Responses - 1
       /\ k = "sample" => v \in Nat
       /\ k = "limit" => v \in 0..Burst
  <2>1. CASE k = "sequence"
    <3>1. PICK c : c = Cardinality(Logged(f.h, "sequence"))
      OBVIOUS
    <3>2. c \in Nat /\ reg[f.h].sequence = Given(f.h, c) /\ config[f.h].loop \in BOOLEAN
      BY <1>6, <1>14, <3>1, Finite, Configured DEF CountInv
    <3>3. /\ NextInSequence(Given(f.h, c), config[f.h].loop) = Given(f.h, c + 1)
          /\ Given(f.h, c + 1) \in 0..Responses - 1
      BY <3>2, GivenNext
    <3>4. QED
      BY <1>5, <2>1, <3>2, <3>3 DEF Taken
  <2>2. CASE k # "sequence"
    BY <1>5, <1>14, <2>2 DEF Taken, Registers
  <2>3. QED
    BY <2>1, <2>2
<1>16. /\ reg' \in [HandlerNames -> Registers]
       /\ \A y \in HandlerNames : y # f.h => reg'[y] = reg[y]
       /\ reg'[f.h].last = reg[f.h].last
       /\ reg'[f.h].sequence = IF k = "sequence" THEN v ELSE reg[f.h].sequence
       /\ reg'[f.h].sample = IF k = "sample" THEN v ELSE reg[f.h].sample
       /\ reg'[f.h].rotation = reg[f.h].rotation /\ reg'[f.h].state = reg[f.h].state
  <2>1. PICK h : h = f.h
    OBVIOUS
  <2>2. /\ reg \in [HandlerNames -> Registers] /\ h \in HandlerNames /\ Sets(h, k, v)
        /\ k \in {"sequence", "sample", "rotation", "limit", "state"}
    BY <1>5, <1>6, <1>7, <1>14, <2>1
  <2>3. /\ k = "sequence" => v \in 0..Responses - 1
        /\ k = "sample" => v \in Nat
        /\ k = "rotation" => v \in Places
        /\ k = "limit" => v \in 0..Burst
        /\ k = "state" => v \in Nat
    BY <1>7, <1>15
  <2>4. /\ reg' \in [HandlerNames -> Registers]
        /\ \A y \in HandlerNames : y # h => reg'[y] = reg[y]
        /\ reg'[h].last = reg[h].last
        /\ reg'[h].sequence = IF k = "sequence" THEN v ELSE reg[h].sequence
        /\ reg'[h].sample = IF k = "sample" THEN v ELSE reg[h].sample
        /\ reg'[h].rotation = IF k = "rotation" THEN v ELSE reg[h].rotation
        /\ reg'[h].state = IF k = "state" THEN v ELSE reg[h].state
    BY ONLY <2>2, <2>3, RegisterSet
  <2>5. QED
    BY <1>7, <2>1, <2>4
<1>17. TypeInv'
  <2>1. log' \in Seq(Entries)
    BY <1>6, <1>9, LogKept
  <2>2. QED
    BY <1>3, <1>6, <1>13, <1>16, <2>1 DEF TypeInv
<1>18. ReadInv' /\ SpreadInv'
  <2>1. /\ \A h \in HandlerNames : h # f.h => reg'[h] = reg[h]
        /\ \A h \in HandlerNames : reg'[h].last = reg[h].last
        /\ \A c \in Chats : chat'[c] = chat[c] \/ StepOf(f).uses = c
        /\ "spread" \in K
    BY <1>3, <1>16
  <2> HIDE DEF K
  <2>2. QED
    BY ONLY ActionsInv, <1>6, <1>9, <1>11, <1>12, <2>1, Elsewhere
<1>19. CountInv'
  <2>1. /\ reg'[f.h].sequence = Given(f.h, Cardinality(Logged(f.h, "sequence")'))
        /\ reg'[f.h].sample = Cardinality(Logged(f.h, "sample")')
        /\ InSequence(f.h)'
    BY <1>5, <1>6, <1>8, <1>11, <1>14, <1>16, CountsOn
  <2>2. \A h, m : Given(h, m)' = Given(h, m)
    BY <1>11, SameConfig
  <2>3. ASSUME NEW h \in HandlerNames, config[h] # None, h # f.h
        PROVE  /\ reg'[h].sequence = Given(h, Cardinality(Logged(h, "sequence")'))
               /\ reg'[h].sample = Cardinality(Logged(h, "sample")')
               /\ InSequence(h)'
    <3>1. /\ reg[h].sequence = Given(h, Cardinality(Logged(h, "sequence")))
          /\ reg[h].sample = Cardinality(Logged(h, "sample")) /\ InSequence(h)
      BY <1>14, <2>3 DEF CountInv
    <3>2. /\ Logged(h, "sequence")' = Logged(h, "sequence") /\ Logged(h, "sample")' = Logged(h, "sample")
          /\ \A i \in DOMAIN log : log'[i] = log[i]
      BY <1>6, <1>8, <2>3, LogGrows
    <3>3. \A w : Logged(h, w) \subseteq DOMAIN log
      BY DEF Logged
    <3>4. InSequence(h)'
      BY <2>2, <3>1, <3>2, <3>3 DEF InSequence, Earlier
    <3>5. QED
      BY <1>16, <2>3, <3>1, <3>2, <3>4
  <2>4. QED
    BY <1>11, <2>1, <2>2, <2>3 DEF CountInv
<1>20. RotationInv'
  <2>1. RotationInv /\ "rotated" \in K
    BY DEF ActionsInv
  <2> HIDE DEF K
  <2>2. \A h \in HandlerNames : reg'[h].rotation = reg[h].rotation
    BY <1>16
  <2>3. QED
    BY <1>6, <1>9, <1>13, <2>1, <2>2, RotationKept
<1>21. TurnInv'
  <2>1. TurnInv /\ {"state", "turn"} \subseteq K
    BY DEF ActionsInv
  <2> HIDE DEF K
  <2>2. (\A h \in HandlerNames : reg'[h].state = reg[h].state) /\ chat' = chat
    BY <1>3, <1>16
  <2>3. QED
    BY <1>6, <1>9, <1>11, <2>1, <2>2, TurnKept
<1>22. QED
  BY <1>13, <1>17, <1>18, <1>19, <1>20, <1>21 DEF ActionsInv

-----------------------------------------------------------------------------
(* Going through the clients                                               *)

(* A frame of throttle-broadcast between two clients.                      *)
Between(f) == f \in Frames /\ FrameFits(f) /\ Runner(f, "throttle-broadcast", {4}) /\ f.got \in Looks

(* It is there, and alone of its handler if that is serial.                *)
LEMMA SpreadsAt ==
  ASSUME ActionsInv, NEW g \in Goroutines, Runs(g, "spread"), NEW f, f = Top(g)
  PROVE  Between(f)
<1>1. /\ f \in Frames /\ f.pc = "run" /\ Script(f)[f.ip].op = "spread" /\ FrameFits(f)
      /\ Fits(StepOf(f).uses, f.ip, Script(f)[f.ip])
      /\ GotFits(StepOf(f).uses, f.ip, f.got)
  BY AtInstruction
<1>2. StepOf(f).uses = "throttle-broadcast" /\ f.ip = 4
  BY <1>1 DEF Fits
<1>3. f.got \in Looks
  BY <1>1, <1>2 DEF GotFits
<1>4. QED
  BY <1>1, <1>2, <1>3 DEF Between, Runner

(* It stays there with what is left to do.                                 *)
Left(f, l, e) == e = [f EXCEPT !.got = l]

(* It is between two clients still, and has told and read nothing.         *)
LEMMA StaysBetween ==
  ASSUME NEW f, Between(f), NEW l \in Looks, NEW e, Left(f, l, e), config' = config
  PROVE  /\ Between(e) /\ e.got = l /\ e.h = f.h /\ e.pc = "run" /\ e.pc # "lock" /\ Untold(e)
         /\ \A m : Fresher(e, m)'
         /\ \A h : Rotating(e, h) = FALSE /\ Rotating(f, h) = FALSE
<1>1. l \in Gots
  BY DEF Gots
<1>2. /\ e \in Frames /\ e.h = f.h /\ e.pc = f.pc /\ e.at = f.at /\ e.ip = f.ip /\ e.got = l
      /\ e.try = f.try /\ e.how = f.how
  BY <1>1 DEF Between, Frames, Left
<1>3. StepOf(e) = StepOf(f) /\ Script(e) = Script(f)
  BY <1>2, SamePlace
<1>4. /\ f.pc = "run" /\ f.ip = 4 /\ StepOf(f).uses = "throttle-broadcast" /\ FrameFits(f)
  BY DEF Between, Runner
<1>5. GotFits("throttle-broadcast", 4, l)
  BY DEF GotFits, Chats
<1>6. FrameFits(e)
  BY <1>2, <1>3, <1>4, <1>5 DEF FrameFits, Stands
<1>7. Between(e)
  BY <1>2, <1>3, <1>4, <1>6 DEF Between, Runner
<1>8. \A b, P : b # "throttle-broadcast" => Runner(e, b, P) = FALSE /\ Runner(f, b, P) = FALSE
  BY <1>3, <1>4 DEF Runner
<1>9. \A b, P : Runner(e, b, P)' = Runner(e, b, P)
  BY SameConfig
<1>10. \A m : Fresher(e, m)'
  BY <1>8, <1>9 DEF Fresher, Chats
<1>11. \A h : Rotating(e, h) = FALSE /\ Rotating(f, h) = FALSE
  BY <1>8 DEF Rotating
<1>12. QED
  BY <1>2, <1>4, <1>7, <1>10, <1>11 DEF Untold

(* A step from client to client, but for what it sends or notes.           *)
Spreads(g, n, f, e) ==
  /\ Changes(g, n, e) /\ n \in DOMAIN stack[g] /\ n \in DOMAIN stack'[g]
  /\ stack[g][n] = f /\ stack'[g][n] = e /\ e.h = f.h /\ f.h \in HandlerNames
  /\ Between(f) /\ Between(e) /\ Fresher(e, g[1])'
  /\ stack' \in [Goroutines -> Seq(Frames)]
  /\ MutexInv' /\ StackInv' /\ AnswerInv'
  /\ \A h : Rotating(e, h) = FALSE /\ Rotating(f, h) = FALSE

(* Every step of a spreading frame that sends no answer is one.            *)
LEMMA SpreadStep ==
  ASSUME ActionsInv, NEW g \in Goroutines, Runs(g, "spread"), NEW f, f = Top(g),
         NEW l \in Looks, NEW e, Left(f, l, e), Becomes(g, e), config' = config,
         LogKeeps({"reply", "error", "end"})
  PROVE  Spreads(g, Len(stack[g]), f, e) /\ e.got = l
<1> DEFINE n == Len(stack[g])
<1>1. Between(f)
  BY SpreadsAt
<1>2. /\ Between(e) /\ e.got = l /\ e.h = f.h /\ e.pc # "lock" /\ Untold(e)
      /\ \A m : Fresher(e, m)'
      /\ \A h : Rotating(e, h) = FALSE /\ Rotating(f, h) = FALSE
  <2>1. l \in Looks /\ Left(f, l, e) /\ config' = config
    OBVIOUS
  <2>2. QED
    BY ONLY <1>1, <2>1, StaysBetween, ZenonT(40)
<1>3. e \in Frames /\ FrameFits(e) /\ f.h \in HandlerNames
  BY <1>1, <1>2 DEF Between, Frames
<1>4. /\ Changes(g, n, e) /\ n \in DOMAIN stack[g] /\ n \in DOMAIN stack'[g]
      /\ stack[g][n] = f /\ stack'[g][n] = e
      /\ stack' \in [Goroutines -> Seq(Frames)]
      /\ MutexInv' /\ StackInv' /\ AnswerInv'
  <2>1. e.h = f.h /\ e.pc # "lock" /\ Untold(e)
    BY <1>2
  <2>2. QED
    BY <1>3, <2>1, RunStep
<1> HIDE DEF n
<1>5. QED
  BY <1>1, <1>2, <1>3, <1>4 DEF Spreads, n

(* Who is spreading in a serial handler is this frame.                     *)
LEMMA OnlySpreader ==
  ASSUME MutexInv, NEW g, NEW n, NEW f, NEW e, Spreads(g, n, f, e), IsSerial(f.h)
  PROVE  /\ \A k \in Goroutines : \A j \in DOMAIN stack[k] : \A c :
              Spreading(stack[k][j], f.h, c) => stack[k][j] = f
         /\ \A k \in Goroutines : \A j \in DOMAIN stack'[k] : \A c :
              Spreading(stack'[k][j], f.h, c) => stack'[k][j] = e
<1>1. /\ Changes(g, n, e) /\ n \in DOMAIN stack[g] /\ stack[g][n] = f /\ e.h = f.h /\ f.pc = "run"
      /\ g \in Goroutines
  BY DEF Spreads, Between, Runner, Changes
<1>2. ASSUME NEW k \in Goroutines, NEW j \in DOMAIN stack[k], NEW c, Spreading(stack[k][j], f.h, c)
      PROVE  stack[k][j] = f
  <2>1. stack[k][j].h = f.h /\ stack[k][j].pc = "run"
    BY <1>2 DEF Spreading, Runner
  <2>2. /\ IsSerial(stack[g][n].h) /\ stack[g][n].h = stack[k][j].h
        /\ stack[g][n].pc # "lock" /\ stack[k][j].pc # "lock"
    BY <1>1, <2>1
  <2>3. g = k /\ n = j
    BY <1>1, <2>2 DEF MutexInv
  <2>4. QED
    BY <1>1, <2>3
<1>3. ASSUME NEW k \in Goroutines, NEW j \in DOMAIN stack'[k], NEW c, Spreading(stack'[k][j], f.h, c)
      PROVE  stack'[k][j] = e
  <2>1. stack'[k][j].h = f.h /\ stack'[k][j].pc # "lock" /\ stack[g][n].pc # "lock"
    BY <1>1, <1>3 DEF Spreading, Runner
  <2>2. PICK h : h = f.h
    OBVIOUS
  <2>3. IsSerial(h) /\ e.h = h /\ stack'[k][j].h = h
    BY <1>1, <2>1, <2>2
  <2>4. QED
    BY <1>1, <1>3, <2>1, <2>3, Alone
<1>4. QED
  BY <1>2, <1>3

(* What such a step leaves alone.                                          *)
LEMMA SpreadRest ==
  ASSUME ActionsInv, NEW g, NEW n, NEW f, NEW e, Spreads(g, n, f, e),
         UNCHANGED <<config, missing, chat, stored, there, clock>>,
         reg' \in [HandlerNames -> Registers],
         \A h \in HandlerNames : /\ reg'[h].sequence = reg[h].sequence /\ reg'[h].sample = reg[h].sample
                                 /\ reg'[h].rotation = reg[h].rotation /\ reg'[h].state = reg[h].state,
         \A h \in HandlerNames : h # f.h => reg'[h].last = reg[h].last,
         \/ log' = log
         \/ \E x \in Entries : log' = Append(log, x) /\ x.what = "spread" /\ x.h = f.h,
         IsSerial(f.h) => SpreadOf(f.h)'
  PROVE  ActionsInv'
<1>1. /\ Changes(g, n, e) /\ n \in DOMAIN stack[g] /\ n \in DOMAIN stack'[g]
      /\ stack[g][n] = f /\ e.h = f.h /\ Fresher(e, g[1])' /\ FrameFits(f)
      /\ stack' \in [Goroutines -> Seq(Frames)]
      /\ MutexInv' /\ StackInv' /\ AnswerInv' /\ f.h \in HandlerNames
      /\ \A h : Rotating(e, h) = FALSE /\ Rotating(f, h) = FALSE
  BY DEF Spreads, Between
<1>2. TypeInv /\ log \in Seq(Entries) /\ ReadInv /\ CountInv /\ RotationInv /\ SpreadInv /\ TurnInv
  BY DEF ActionsInv, TypeInv
<1> DEFINE K == {"reply", "error", "end", "sequence", "sample", "rotated", "state", "turn"}
<1>3. LogKeeps(K) /\ {"sequence", "sample"} \subseteq K /\ {"state", "turn"} \subseteq K /\ "rotated" \in K
  BY DEF LogKeeps
<1> HIDE DEF K
<1>4. TypeInv'
  <2>1. log' \in Seq(Entries)
    BY <1>2, <1>3, LogKept
  <2>2. QED
    BY <1>1, <1>2, <2>1 DEF TypeInv
<1>5. ReadInv'
  <2>1. \A h \in HandlerNames : h # e.h \/ n \notin DOMAIN stack'[g] =>
          reg'[h].rotation = reg[h].rotation /\ reg'[h].state = reg[h].state
    OBVIOUS
  <2>2. \A b \in Chats : chat'[b] = chat[b] \/ (StepOf(stack[g][n]).uses = b /\ n \in DOMAIN stack'[g])
    OBVIOUS
  <2>3. QED
    BY <1>1, <1>2, <2>1, <2>2, ReadKept
<1>6. CountInv'
  BY <1>2, <1>3, CountKept
<1>7. RotationInv'
  <2>1. \A h \in HandlerNames : reg'[h].rotation = reg[h].rotation
    OBVIOUS
  <2>2. \A h \in HandlerNames : Rotating(e, h) = Rotating(stack[g][n], h)
    BY <1>1
  <2>3. \A h \in HandlerNames : Rotating(e, h) => e.got = stack[g][n].got
    BY <1>1
  <2>4. n \in DOMAIN stack'[g] \/ stack[g][n].pc = "return"
    BY <1>1
  <2>5. QED
    BY ONLY <1>1, <1>2, <1>3, <2>1, <2>2, <2>3, <2>4, RotationKept
<1>8. TurnInv'
  <2>1. \A h \in HandlerNames : reg'[h].state = reg[h].state
    OBVIOUS
  <2>2. QED
    BY <1>2, <1>3, <2>1, TurnKept
<1>9. SpreadInv'
  <2>1. \A h : IsSerial(h)' = IsSerial(h)
    BY SameConfig
  <2>2. ASSUME NEW h \in HandlerNames, IsSerial(h), h # f.h
        PROVE  SpreadOf(h)'
    <3>1. SpreadOf(h) /\ reg'[h].last = reg[h].last
      BY <1>2, <2>2 DEF SpreadInv
    <3>2. Logged(h, "spread")' = Logged(h, "spread") /\ \A i \in Logged(h, "spread") : log'[i] = log[i]
      <4>1. CASE log' = log
        BY <4>1 DEF Logged
      <4>2. ASSUME NEW x \in Entries, log' = Append(log, x), x.h = f.h
            PROVE  Logged(h, "spread")' = Logged(h, "spread") /\ \A i \in Logged(h, "spread") : log'[i] = log[i]
        <5>1. /\ \A i \in DOMAIN log : log'[i] = log[i]
              /\ \A w : Logged(h, w)' = IF x.h = h /\ x.what = w THEN Logged(h, w) \cup {Len(log) + 1} ELSE Logged(h, w)
          BY <1>2, <4>2, LogGrows
        <5>2. Logged(h, "spread") \subseteq DOMAIN log
          BY DEF Logged
        <5>3. QED
          BY <2>2, <4>2, <5>1, <5>2
      <4>3. QED
        BY <4>1, <4>2
    <3>3. \A c : Spreading(e, h, c) = FALSE /\ Spreading(stack[g][n], h, c) = FALSE
      BY <1>1, <2>2 DEF Spreading
    <3>4. \A c \in ToSet(Pool) : /\ Spreading(e, h, c) = Spreading(stack[g][n], h, c)
                                 /\ Spreading(e, h, c) => e.got.now = stack[g][n].got.now
      BY <3>3
    <3>5. n \in DOMAIN stack'[g] \/ stack[g][n].pc = "return"
      BY <1>1
    <3>6. there' = there
      OBVIOUS
    <3>7. QED
      BY ONLY <1>1, <2>2, <3>1, <3>2, <3>4, <3>5, <3>6, SpreadOfKept
  <2>3. ASSUME NEW h \in HandlerNames, IsSerial(h)
        PROVE  SpreadOf(h)'
    <3>1. CASE h = f.h
      BY <2>3, <3>1
    <3>2. QED
      BY <2>2, <2>3, <3>1
  <2>4. QED
    BY <2>1, <2>3 DEF SpreadInv
<1>10. QED
  BY <1>1, <1>4, <1>5, <1>6, <1>7, <1>8, <1>9 DEF ActionsInv

-----------------------------------------------------------------------------
(* A client is skipped, or could not be sent to.                           *)
LEMMA ClientSkipped ==
  ASSUME ActionsInv, NEW g \in Goroutines, Runs(g, "spread"), NEW f, f = Top(g),
         NEW l \in Looks, l.sent = None, f.got.sent = None, NEW e, Left(f, l, e), Becomes(g, e),
         UNCHANGED <<config, missing, reg, chat, stored, there, clock, log>>
  PROVE  ActionsInv'
<1>1. LogKeeps({"reply", "error", "end"}) /\ config' = config
  BY DEF LogKeeps
<1> DEFINE n == Len(stack[g])
<1>2. Spreads(g, n, f, e) /\ e.got = l
  BY <1>1, SpreadStep
<1> HIDE DEF n
<1>3. /\ Changes(g, n, e) /\ n \in DOMAIN stack'[g] /\ stack[g][n] = f /\ f.h \in HandlerNames
  BY <1>2 DEF Spreads
<1>4. ASSUME IsSerial(f.h)
      PROVE  SpreadOf(f.h)'
  <2>1. PICK h : h = f.h
    OBVIOUS
  <2>2. h \in HandlerNames /\ IsSerial(h) /\ SpreadOf(h)
    BY <1>3, <1>4, <2>1 DEF ActionsInv, SpreadInv
  <2>3. Logged(h, "spread")' = Logged(h, "spread") /\ \A i \in Logged(h, "spread") : log'[i] = log[i]
    BY DEF Logged
  <2>4. \A c \in ToSet(Pool) : Spreading(e, h, c) = FALSE /\ Spreading(stack[g][n], h, c) = FALSE
    BY <1>2, <1>3, ActionsAssumption DEF Spreading
  <2>5. \A c \in ToSet(Pool) : /\ Spreading(e, h, c) = Spreading(stack[g][n], h, c)
                               /\ Spreading(e, h, c) => e.got.now = stack[g][n].got.now
    BY <2>4
  <2>6. there' = there /\ reg'[h].last = reg[h].last /\ (n \in DOMAIN stack'[g] \/ stack[g][n].pc = "return")
    BY <1>3
  <2>7. SpreadOf(h)'
    BY ONLY <1>3, <2>2, <2>3, <2>5, <2>6, SpreadOfKept
  <2>8. QED
    BY <2>1, <2>7
<1>5. reg' \in [HandlerNames -> Registers]
  BY DEF ActionsInv, TypeInv
<1>6. \A h \in HandlerNames : /\ reg'[h].sequence = reg[h].sequence /\ reg'[h].sample = reg[h].sample
                              /\ reg'[h].rotation = reg[h].rotation /\ reg'[h].state = reg[h].state
  OBVIOUS
<1>7. \A h \in HandlerNames : h # f.h => reg'[h].last = reg[h].last
  OBVIOUS
<1>8. QED
  BY <1>2, <1>4, <1>5, <1>6, <1>7, SpreadRest

(* What the invariant says of one broadcast.                               *)
LEMMA SpreadEntry ==
  ASSUME NEW h, SpreadOf(h), NEW i \in Logged(h, "spread"), NEW c, c = log[i].val.to
  PROVE  /\ log[i].val \in [to : ToSet(Pool), at : 0..MaxTime] /\ c \in ToSet(Pool) /\ log[i].val.at \in Nat
         /\ \A j \in Logged(h, "spread") :
              i < j /\ log[i].val.to = log[j].val.to => log[j].val.at >= log[i].val.at + Window
         /\ \/ c \notin there
            \/ reg[h].last[c] # None /\ reg[h].last[c] >= log[i].val.at
            \/ \E g \in Goroutines : \E j \in DOMAIN stack[g] : Spreading(stack[g][j], h, c)
         /\ \A g \in Goroutines : \A j \in DOMAIN stack[g] :
              Spreading(stack[g][j], h, c) => stack[g][j].got.now >= log[i].val.at
BY DEF SpreadOf

(* A client is sent to.                                                    *)
LEMMA ClientSent ==
  ASSUME ActionsInv, NEW g \in Goroutines, Runs(g, "spread"), NEW f, f = Top(g),
         NEW l \in Looks, NEW c, c \in there, l.sent = c, l.now = f.got.now, f.got.sent = None,
         NEW e, Left(f, l, e), Becomes(g, e),
         reg[f.h].last[c] # None => f.got.now >= reg[f.h].last[c] + Window,
         Logs(g, "spread", [to |-> c, at |-> f.got.now]),
         UNCHANGED <<config, missing, reg, chat, stored, there, clock>>
  PROVE  ActionsInv'
<1>1. /\ c \in ToSet(Pool) /\ f.got.now \in 0..MaxTime /\ TypeInv /\ log \in Seq(Entries) /\ MutexInv
      /\ reg \in [HandlerNames -> Registers] /\ Window \in Nat /\ MaxTime \in Nat
  <2>1. Between(f)
    BY SpreadsAt
  <2>2. f.got.now \in 0..MaxTime
    BY <2>1 DEF Between, Looks
  <2>3. c \in ToSet(Pool)
    BY DEF ActionsInv, TypeInv
  <2>4. QED
    BY <2>2, <2>3, ActionsAssumption DEF ActionsInv, TypeInv
<1>2. PICK x \in Entries : log' = Append(log, x) /\ x.what = "spread" /\ x.h = f.h
                           /\ x.val = [to |-> c, at |-> f.got.now]
  <2>1. [to |-> c, at |-> f.got.now] \in Vals /\ "spread" \in Kinds
    BY <1>1 DEF Vals, Kinds
  <2>2. stack[g] # <<>>
    BY AtInstruction
  <2>3. QED
    BY <1>1, <2>1, <2>2, Noted DEF Logs
<1>3. LogKeeps({"reply", "error", "end"}) /\ config' = config
  BY <1>2 DEF LogKeeps
<1> DEFINE n == Len(stack[g])
<1>4. Spreads(g, n, f, e) /\ e.got = l
  BY <1>3, SpreadStep
<1> HIDE DEF n
<1>5. /\ g \in Goroutines /\ n \in DOMAIN stack'[g] /\ stack'[g][n] = e /\ e.h = f.h /\ f.h \in HandlerNames
      /\ Runner(e, "throttle-broadcast", {4}) /\ config' = config
  BY <1>3, <1>4 DEF Spreads, Between
<1>6. PICK h \in HandlerNames : h = f.h
  BY <1>5
<1>7. PICK z : z = Len(log) + 1
  OBVIOUS
<1>8. /\ Logged(h, "spread")' = Logged(h, "spread") \cup {z}
      /\ \A i \in Logged(h, "spread") : log'[i] = log[i] /\ i \in Nat /\ i < z
      /\ log'[z].val.to = c /\ log'[z].val.at = f.got.now /\ z \in Nat
      /\ log'[z].val \in [to : ToSet(Pool), at : 0..MaxTime]
  <2>1. /\ \A i \in DOMAIN log : log'[i] = log[i]
        /\ DOMAIN log = 1..Len(log) /\ Len(log) \in Nat /\ log'[Len(log) + 1] = x
        /\ \A q, w : Logged(q, w)' = IF x.h = q /\ x.what = w THEN Logged(q, w) \cup {Len(log) + 1} ELSE Logged(q, w)
    BY <1>1, <1>2, LogGrows
  <2>2. Logged(h, "spread") \subseteq DOMAIN log
    BY DEF Logged
  <2>3. \A i \in 1..Len(log) : i \in Nat /\ i < z
    BY <1>7, <2>1
  <2>4. QED
    BY <1>1, <1>2, <1>6, <1>7, <2>1, <2>2, <2>3
<1>9. ASSUME IsSerial(h)
      PROVE  SpreadOf(h)'
  <2>1. SpreadOf(h)
    BY <1>9 DEF ActionsInv, SpreadInv
  <2>2. /\ \A k \in Goroutines : \A j \in DOMAIN stack[k] : \A d : Spreading(stack[k][j], h, d) => stack[k][j] = f
        /\ \A k \in Goroutines : \A j \in DOMAIN stack'[k] : \A d : Spreading(stack'[k][j], h, d) => stack'[k][j] = e
    <3>1. MutexInv /\ Spreads(g, n, f, e) /\ IsSerial(f.h)
      BY <1>1, <1>4, <1>6, <1>9
    <3>2. /\ \A k \in Goroutines : \A j \in DOMAIN stack[k] : \A d : Spreading(stack[k][j], f.h, d) => stack[k][j] = f
          /\ \A k \in Goroutines : \A j \in DOMAIN stack'[k] : \A d : Spreading(stack'[k][j], f.h, d) => stack'[k][j] = e
      BY ONLY <3>1, OnlySpreader
    <3>3. QED
      BY <1>6, <3>2
  <2>3. ASSUME NEW k \in Goroutines, NEW j \in DOMAIN stack[k], NEW d \in ToSet(Pool), Spreading(stack[k][j], h, d)
        PROVE  FALSE
    BY <2>2, <2>3, ActionsAssumption DEF Spreading
  <2>4. Spreading(e, h, c)
    BY <1>4, <1>5, <1>6 DEF Spreading
  <2>5. ASSUME NEW i \in Logged(h, "spread"), log[i].val.to = c
        PROVE  f.got.now >= log[i].val.at + Window
    <3>1. log[i].val.at \in Nat /\ reg[h].last[c] # None /\ reg[h].last[c] >= log[i].val.at
      BY <2>1, <2>3, <2>5, SpreadEntry
    <3>2. reg[h].last[c] \in Nat
      BY <1>1, <3>1 DEF Registers
    <3>3. f.got.now >= reg[h].last[c] + Window /\ f.got.now \in Nat
      BY <1>1, <1>6, <3>1
    <3>4. QED
      BY ONLY <1>1, <3>1, <3>2, <3>3, SMTT(40)
  <2>6. ASSUME NEW i \in Logged(h, "spread"), NEW d, d = log[i].val.to
        PROVE  /\ log'[i].val \in [to : ToSet(Pool), at : 0..MaxTime]
               /\ \A j \in Logged(h, "spread") \cup {z} :
                    i < j /\ log'[i].val.to = log'[j].val.to => log'[j].val.at >= log'[i].val.at + Window
               /\ \/ d \notin there'
                  \/ reg'[h].last[d] # None /\ reg'[h].last[d] >= log'[i].val.at
                  \/ \E k \in Goroutines : \E j \in DOMAIN stack'[k] : Spreading(stack'[k][j], h, d)
               /\ \A k \in Goroutines : \A j \in DOMAIN stack'[k] :
                    Spreading(stack'[k][j], h, d) => stack'[k][j].got.now >= log'[i].val.at
    <3>1. /\ log[i].val \in [to : ToSet(Pool), at : 0..MaxTime] /\ d \in ToSet(Pool) /\ log[i].val.at \in Nat
          /\ \A j \in Logged(h, "spread") :
               i < j /\ log[i].val.to = log[j].val.to => log[j].val.at >= log[i].val.at + Window
          /\ \/ d \notin there
             \/ reg[h].last[d] # None /\ reg[h].last[d] >= log[i].val.at
      BY <2>1, <2>3, <2>6, SpreadEntry
    <3>2. ASSUME NEW j \in Logged(h, "spread") \cup {z}, i < j, log'[i].val.to = log'[j].val.to
          PROVE  log'[j].val.at >= log'[i].val.at + Window
      <4>1. CASE j \in Logged(h, "spread")
        BY <1>8, <2>6, <3>1, <3>2, <4>1
      <4>2. CASE j = z
        BY <1>8, <2>5, <2>6, <3>2, <4>2
      <4>3. QED
        BY <4>1, <4>2
    <3>3. ASSUME NEW k \in Goroutines, NEW j \in DOMAIN stack'[k], Spreading(stack'[k][j], h, d)
          PROVE  stack'[k][j].got.now >= log'[i].val.at
      <4>1. stack'[k][j] = e
        BY <2>2, <3>3
      <4>2. d = c
        BY <1>4, <3>3, <4>1 DEF Spreading
      <4>3. f.got.now >= log[i].val.at + Window
        BY <2>5, <2>6, <4>2
      <4>4. f.got.now >= log[i].val.at
        <5>1. f.got.now \in Nat /\ log[i].val.at \in Nat /\ Window \in Nat
          BY <1>1, <3>1
        <5>2. QED
          BY ONLY <4>3, <5>1
      <4>5. QED
        BY <1>4, <1>8, <4>1, <4>4
    <3>4. /\ log'[i] = log[i] /\ there' = there /\ reg' = reg
      BY <1>8
    <3>5. QED
      BY <3>1, <3>2, <3>3, <3>4
  <2>7. ASSUME NEW d, d = log'[z].val.to
        PROVE  /\ log'[z].val \in [to : ToSet(Pool), at : 0..MaxTime]
               /\ \A j \in Logged(h, "spread") \cup {z} :
                    z < j /\ log'[z].val.to = log'[j].val.to => log'[j].val.at >= log'[z].val.at + Window
               /\ \E k \in Goroutines : \E j \in DOMAIN stack'[k] : Spreading(stack'[k][j], h, d)
               /\ \A k \in Goroutines : \A j \in DOMAIN stack'[k] :
                    Spreading(stack'[k][j], h, d) => stack'[k][j].got.now >= log'[z].val.at
    <3>1. \A j \in Logged(h, "spread") \cup {z} : ~(z < j)
      BY <1>8
    <3>2. d = c
      BY <1>8, <2>7
    <3>3. \E k \in Goroutines : \E j \in DOMAIN stack'[k] : Spreading(stack'[k][j], h, d)
      BY <1>5, <2>4, <3>2
    <3>4. e.got.now >= log'[z].val.at
      BY <1>1, <1>4, <1>8
    <3>5. QED
      BY <1>8, <2>2, <3>1, <3>3, <3>4
  <2>8. \A y, d : Spreading(y, h, d)' = Spreading(y, h, d)
    BY <1>3, SameConfig DEF Spreading
  <2>9. QED
    BY <1>8, <2>6, <2>7, <2>8 DEF SpreadOf
<1>10. reg' \in [HandlerNames -> Registers]
  BY <1>1
<1>11. \A q \in HandlerNames : /\ reg'[q].sequence = reg[q].sequence /\ reg'[q].sample = reg[q].sample
                               /\ reg'[q].rotation = reg[q].rotation /\ reg'[q].state = reg[q].state
  OBVIOUS
<1>12. \A q \in HandlerNames : q # f.h => reg'[q].last = reg[q].last
  OBVIOUS
<1>13. IsSerial(f.h) => SpreadOf(f.h)'
  BY <1>6, <1>9
<1>14. /\ UNCHANGED <<config, missing, chat, stored, there, clock>> /\ ActionsInv
       /\ \/ log' = log
          \/ \E y \in Entries : log' = Append(log, y) /\ y.what = "spread" /\ y.h = f.h
  BY <1>2
<1>15. QED
  BY ONLY <1>4, <1>10, <1>11, <1>12, <1>13, <1>14, SpreadRest

(* throttle-broadcast at a client.                                         *)
LEMMA SpreadToKeeps ==
  ASSUME ActionsInv, NEW g \in Goroutines, NEW c \in ToSet(Pool), SpreadTo(g, c)
  PROVE  ActionsInv'
<1>1. PICK f : f = Top(g)
  OBVIOUS
<1>2. PICK rest : rest = [f.got EXCEPT !.todo = f.got.todo \ {c}]
  OBVIOUS
<1>3. PICK last : last = reg[f.h].last[c]
  OBVIOUS
<1>4. /\ Runs(g, "spread") /\ f.got.sent = None /\ UNCHANGED <<config, missing, reg, chat, stored, there, clock>>
      /\ IF last # None /\ f.got.now < last + Window
         THEN Becomes(g, [f EXCEPT !.got = rest]) /\ UNCHANGED log
         ELSE \/ /\ c \in there
                 /\ Becomes(g, [f EXCEPT !.got = [rest EXCEPT !.sent = c]])
                 /\ Logs(g, "spread", [to |-> c, at |-> f.got.now])
              \/ Becomes(g, [f EXCEPT !.got = rest]) /\ UNCHANGED log
  BY <1>1, <1>2, <1>3 DEF SpreadTo, shared
<1>5. Between(f)
  BY <1>1, <1>4, SpreadsAt
<1>6. rest \in Looks /\ rest.sent = None /\ rest.now = f.got.now
  BY <1>2, <1>4, <1>5 DEF Between, Looks
<1>7. CASE Becomes(g, [f EXCEPT !.got = rest]) /\ UNCHANGED log
  <2>1. PICK e : e = [f EXCEPT !.got = rest]
    OBVIOUS
  <2>2. Left(f, rest, e) /\ Becomes(g, e) /\ UNCHANGED <<config, missing, reg, chat, stored, there, clock, log>>
    BY <1>4, <1>7, <2>1 DEF Left
  <2>3. QED
    BY <1>1, <1>4, <1>6, <2>2, ClientSkipped
<1>8. CASE /\ c \in there /\ ~(last # None /\ f.got.now < last + Window)
           /\ Becomes(g, [f EXCEPT !.got = [rest EXCEPT !.sent = c]])
           /\ Logs(g, "spread", [to |-> c, at |-> f.got.now])
  <2>1. PICK l : l = [rest EXCEPT !.sent = c]
    OBVIOUS
  <2>2. l \in Looks /\ l.sent = c /\ l.now = f.got.now
    BY <1>6, <2>1 DEF Looks
  <2>3. PICK e : e = [f EXCEPT !.got = l]
    OBVIOUS
  <2>4. Left(f, l, e) /\ Becomes(g, e)
    BY <1>8, <2>1, <2>3 DEF Left
  <2>5. last # None => f.got.now >= last + Window
    <3>1. /\ reg[f.h] \in Registers /\ f.got.now \in 0..MaxTime /\ MaxTime \in Nat /\ Window \in Nat
      BY <1>5, ActionsAssumption DEF ActionsInv, TypeInv, Between, Looks, Frames
    <3>2. last # None => last \in Nat
      BY <1>3, <3>1 DEF Registers
    <3>3. f.got.now \in Nat
      BY <3>1
    <3>4. last # None => ~(f.got.now < last + Window)
      BY <1>8
    <3>5. QED
      BY ONLY <3>1, <3>2, <3>3, <3>4
  <2>6. reg[f.h].last[c] # None => f.got.now >= reg[f.h].last[c] + Window
    BY <1>3, <2>5
  <2>7. /\ c \in there /\ Logs(g, "spread", [to |-> c, at |-> f.got.now])
        /\ UNCHANGED <<config, missing, reg, chat, stored, there, clock>>
        /\ Runs(g, "spread") /\ f.got.sent = None /\ f = Top(g) /\ ActionsInv /\ g \in Goroutines
    BY <1>1, <1>4, <1>8
  <2>8. QED
    BY ONLY <2>2, <2>4, <2>6, <2>7, ClientSent
<1>9. QED
  BY <1>4, <1>7, <1>8
-----------------------------------------------------------------------------
(* The time is noted.                                                      *)
LEMMA SetLastKeeps ==
  ASSUME ActionsInv, NEW g \in Goroutines, SetLastThrottle(g)
  PROVE  ActionsInv'
<1>1. PICK f : f = Top(g)
  OBVIOUS
<1>2. PICK c : c = f.got.sent
  OBVIOUS
<1>3. PICK l : l = [f.got EXCEPT !.sent = None]
  OBVIOUS
<1>4. PICK e : e = [f EXCEPT !.got = l]
  OBVIOUS
<1>5. /\ Runs(g, "spread") /\ c # None /\ UNCHANGED <<config, missing, chat, stored, there, clock, log>>
      /\ reg' = [reg EXCEPT ![f.h].last[c] = f.got.now]
      /\ Becomes(g, [f EXCEPT !.got.sent = None])
  BY <1>1, <1>2 DEF SetLastThrottle
<1>6. Between(f)
  BY <1>1, <1>5, SpreadsAt
<1>7. l \in Looks /\ l.sent = None /\ l.now = f.got.now
  BY <1>3, <1>6 DEF Between, Looks
<1>8. [f EXCEPT !.got.sent = None] = e
  BY <1>3, <1>4, <1>6 DEF Between, Frames, Looks
<1>9. Left(f, l, e) /\ Becomes(g, e)
  BY <1>4, <1>5, <1>8 DEF Left
<1>10. LogKeeps({"reply", "error", "end"}) /\ config' = config
  BY <1>5 DEF LogKeeps
<1> DEFINE n == Len(stack[g])
<1>11. Spreads(g, n, f, e) /\ e.got = l
  BY <1>1, <1>5, <1>7, <1>9, <1>10, SpreadStep
<1> HIDE DEF n
<1>12. /\ Changes(g, n, e) /\ n \in DOMAIN stack'[g] /\ stack[g][n] = f /\ f.h \in HandlerNames
       /\ n \in DOMAIN stack[g] /\ stack'[g][n] = e /\ g \in Goroutines
  BY <1>11 DEF Spreads
<1>13. /\ c \in ToSet(Pool) /\ f.got.now \in 0..MaxTime /\ f.got.now \in Nat
       /\ reg \in [HandlerNames -> Registers] /\ reg[f.h] \in Registers /\ f.got.now # None
  BY <1>2, <1>5, <1>6, <1>12, ActionsAssumption DEF Between, Looks, ActionsInv, TypeInv
<1>14. PICK last : last = [reg[f.h].last EXCEPT ![c] = f.got.now]
  OBVIOUS
<1>15. /\ last \in [ToSet(Pool) -> 0..MaxTime \cup {None}]
       /\ last[c] = f.got.now /\ \A d : d # c => last[d] = reg[f.h].last[d]
  BY <1>13, <1>14 DEF Registers
<1>16. reg' = [reg EXCEPT ![f.h] = [reg[f.h] EXCEPT !.last = last]]
  BY <1>5, <1>12, <1>13, <1>14 DEF Registers
<1>17. PICK r : r = [reg[f.h] EXCEPT !.last = last]
  OBVIOUS
<1>18. /\ r \in Registers /\ r.last = last /\ r.sequence = reg[f.h].sequence /\ r.sample = reg[f.h].sample
       /\ r.rotation = reg[f.h].rotation /\ r.state = reg[f.h].state
  BY <1>13, <1>15, <1>17 DEF Registers
<1>19. /\ reg' \in [HandlerNames -> Registers]
       /\ \A h \in HandlerNames : h # f.h => reg'[h] = reg[h]
       /\ reg'[f.h] = r
  BY <1>12, <1>13, <1>16, <1>17, <1>18
<1>20. \A h \in HandlerNames : /\ reg'[h].sequence = reg[h].sequence /\ reg'[h].sample = reg[h].sample
                               /\ reg'[h].rotation = reg[h].rotation /\ reg'[h].state = reg[h].state
  BY <1>18, <1>19
<1>21. \A h \in HandlerNames : h # f.h => reg'[h].last = reg[h].last
  BY <1>19
<1>22. ASSUME IsSerial(f.h)
       PROVE  SpreadOf(f.h)'
  <2>1. PICK h \in HandlerNames : h = f.h
    BY <1>12
  <2>2. SpreadOf(h) /\ MutexInv
    BY <1>22, <2>1 DEF ActionsInv, SpreadInv
  <2>3. Logged(h, "spread")' = Logged(h, "spread") /\ log' = log
    BY <1>5 DEF Logged
  <2>4. /\ \A k \in Goroutines : \A j \in DOMAIN stack[k] : \A d : Spreading(stack[k][j], h, d) => stack[k][j] = f
        /\ \A k \in Goroutines : \A j \in DOMAIN stack'[k] : \A d : Spreading(stack'[k][j], h, d) => stack'[k][j] = e
    BY <1>11, <1>22, <2>1, <2>2, OnlySpreader, SMTT(40)
  <2>5. \A k \in Goroutines : \A j \in DOMAIN stack[k] : \A d : Spreading(stack[k][j], h, d) => d = c
    BY <1>2, <2>4 DEF Spreading
  <2>6. \A k \in Goroutines : \A j \in DOMAIN stack'[k] : \A d \in ToSet(Pool) : ~Spreading(stack'[k][j], h, d)
    BY <1>7, <1>11, <2>4, ActionsAssumption DEF Spreading
  <2>7. Spreading(f, h, c)
    BY <1>2, <1>6, <2>1 DEF Spreading, Between
  <2>8. ASSUME NEW i \in Logged(h, "spread"), NEW d, d = log[i].val.to
        PROVE  /\ log[i].val \in [to : ToSet(Pool), at : 0..MaxTime]
               /\ \A j \in Logged(h, "spread") :
                    i < j /\ log[i].val.to = log[j].val.to => log[j].val.at >= log[i].val.at + Window
               /\ d \notin there \/ (reg'[h].last[d] # None /\ reg'[h].last[d] >= log[i].val.at)
               /\ \A k \in Goroutines : \A j \in DOMAIN stack'[k] :
                    Spreading(stack'[k][j], h, d) => stack'[k][j].got.now >= log[i].val.at
    <3>1. /\ log[i].val \in [to : ToSet(Pool), at : 0..MaxTime] /\ d \in ToSet(Pool) /\ log[i].val.at \in Nat
          /\ \A j \in Logged(h, "spread") :
               i < j /\ log[i].val.to = log[j].val.to => log[j].val.at >= log[i].val.at + Window
          /\ \/ d \notin there
             \/ reg[h].last[d] # None /\ reg[h].last[d] >= log[i].val.at
             \/ \E k \in Goroutines : \E j \in DOMAIN stack[k] : Spreading(stack[k][j], h, d)
          /\ \A k \in Goroutines : \A j \in DOMAIN stack[k] :
               Spreading(stack[k][j], h, d) => stack[k][j].got.now >= log[i].val.at
      BY <2>2, <2>8, SpreadEntry
    <3>2. reg'[h].last[d] = IF d = c THEN f.got.now ELSE reg[h].last[d]
      BY <1>15, <1>18, <1>19, <2>1
    <3>3. d = c => f.got.now >= log[i].val.at
      BY <1>12, <2>7, <3>1
    <3>4. d # c => ~\E k \in Goroutines : \E j \in DOMAIN stack[k] : Spreading(stack[k][j], h, d)
      BY <2>5
    <3>5. d \notin there \/ (reg'[h].last[d] # None /\ reg'[h].last[d] >= log[i].val.at)
      <4>1. CASE d = c
        BY <1>13, <3>2, <3>3, <4>1
      <4>2. CASE d # c
        BY <3>1, <3>2, <3>4, <4>2
      <4>3. QED
        BY <4>1, <4>2
    <3>6. QED
      BY <2>6, <3>1, <3>5
  <2>9. \A y, d : Spreading(y, h, d)' = Spreading(y, h, d)
    BY <1>10, SameConfig DEF Spreading
  <2>10. SpreadOf(h)'
    BY <1>5, <2>3, <2>8, <2>9 DEF SpreadOf
  <2>11. QED
    BY <2>1, <2>10
<1>23. UNCHANGED <<config, missing, chat, stored, there, clock>> /\ log' = log
  BY <1>5
<1>24. QED
  BY <1>11, <1>19, <1>20, <1>21, <1>22, <1>23, SpreadRest

-----------------------------------------------------------------------------
(* Every client was seen to.                                               *)
LEMMA SpreadEndsKeeps ==
  ASSUME ActionsInv, NEW g \in Goroutines, SpreadEnds(g)
  PROVE  ActionsInv'
<1>1. PICK f : f = Top(g)
  OBVIOUS
<1>2. /\ Runs(g, "spread") /\ f.got.sent = None /\ Becomes(g, Passed(f))
      /\ UNCHANGED <<config, missing, shared, clock, log>>
  BY <1>1 DEF SpreadEnds, Passes
<1>3. UNCHANGED <<config, missing, reg, chat, there, clock>> /\ stored' \in BOOLEAN /\ log' = log
  BY <1>2 DEF shared, ActionsInv, TypeInv
<1>4. Between(f)
  BY <1>1, <1>2, SpreadsAt
<1>5. /\ f \in Frames /\ FrameFits(f) /\ Stands(f) /\ f.pc = "run" /\ Script(f)[f.ip].op = "spread"
      /\ config \in Setups /\ f.h \in HandlerNames /\ f.got \in Gots
  BY <1>1, <1>2, AtInstruction
<1>6. StepOf(f).uses = "throttle-broadcast" /\ f.ip = 4
  BY <1>4 DEF Between, Runner
<1>7. GotFits(StepOf(f).uses, f.ip + 1, f.got)
  BY <1>6 DEF GotFits, Chats
<1>8. PICK e : e = Onto(f, f.got)
  OBVIOUS
<1>9. Becomes(g, e)
  BY <1>2, <1>5, <1>8, PassedSame
<1>10. Lands(f, f.got, e)
  BY <1>5, <1>7, <1>8, PassedLands DEF Onto
<1>11. Untold(e) /\ e \in Frames /\ FrameFits(e) /\ e.h = f.h /\ e.pc # "lock"
  BY <1>10, LandsUntold
<1>12. LogKeeps({"reply", "error", "end"}) /\ LogKeeps(Counted) /\ config' = config
  BY <1>3 DEF LogKeeps
<1> DEFINE n == Len(stack[g])
<1>13. /\ Changes(g, n, e) /\ n \in DOMAIN stack[g] /\ n \in DOMAIN stack'[g]
       /\ stack[g][n] = f /\ MutexInv' /\ StackInv' /\ AnswerInv'
  BY <1>1, <1>2, <1>9, <1>11, <1>12, RunStep
<1> HIDE DEF n
<1>14. Fresher(e, g[1])'
  <2>1. "spread" \in {"keep", "rotate", "take", "spread"}
    OBVIOUS
  <2>2. QED
    BY <1>5, <1>10, <1>12, <2>1, NotReading
<1>15. ~Runner(e, "throttle-broadcast", {4}) /\ ~Runner(e, "round-robin", {6}) /\ ~Runner(f, "round-robin", {6})
  <2>1. ASSUME Runner(e, "throttle-broadcast", {4})
        PROVE  FALSE
    <3>1. 1 \notin {4}
      OBVIOUS
    <3>2. e.ip = f.ip + 1 /\ e.ip \in {4}
      BY <1>5, <1>10, <2>1, <3>1, CameFrom
    <3>3. QED
      BY <1>6, <3>2
  <2>2. ASSUME Runner(e, "round-robin", {6})
        PROVE  FALSE
    <3>1. 1 \notin {6}
      OBVIOUS
    <3>2. StepOf(f).uses = "round-robin"
      BY <1>5, <1>10, <2>2, <3>1, CameFrom
    <3>3. QED
      BY <1>6, <3>2
  <2>3. QED
    BY <1>6, <2>1, <2>2 DEF Runner
<1>16. /\ \A h : Rotating(e, h) = FALSE /\ Rotating(f, h) = FALSE
       /\ \A h : \A c \in ToSet(Pool) : Spreading(e, h, c) = FALSE /\ Spreading(f, h, c) = FALSE
  BY <1>2, <1>15, ActionsAssumption DEF Rotating, Spreading
<1>17. WritesSame(stack[g][n], e)
  BY <1>13, <1>16 DEF WritesSame
<1>18. /\ UNCHANGED <<config, missing, reg, chat, there, clock>> /\ stored' \in BOOLEAN
       /\ n \in DOMAIN stack'[g] \/ stack[g][n].pc = "return"
       /\ IsSerial(e.h) => Fresher(e, g[1])'
  BY <1>3, <1>13, <1>14
<1>19. QED
  BY ONLY ActionsInv, <1>12, <1>13, <1>17, <1>18, QuietChange
-----------------------------------------------------------------------------
(* The world around                                                        *)

(* A step in which no goroutine moves and nothing is sent: what a register *)
(* keeps of limits and times may change, and who is there.                 *)
LEMMA WorldKeeps ==
  ASSUME ActionsInv, UNCHANGED <<config, missing, stack, chat, stored, log>>,
         reg' \in [HandlerNames -> Registers], clock' \in 0..MaxTime, there' \subseteq there,
         \A h \in HandlerNames : /\ reg'[h].sequence = reg[h].sequence /\ reg'[h].sample = reg[h].sample
                                 /\ reg'[h].rotation = reg[h].rotation /\ reg'[h].state = reg[h].state,
         \A h \in HandlerNames : \A c \in there' : reg'[h].last[c] = reg[h].last[c]
  PROVE  ActionsInv'
<1>1. /\ TypeInv /\ StackInv /\ MutexInv /\ ReadInv /\ CountInv /\ RotationInv /\ SpreadInv /\ TurnInv
      /\ AnswerInv /\ stack' = stack /\ config' = config /\ log' = log /\ chat' = chat
      /\ stack \in [Goroutines -> Seq(Frames)]
  BY DEF ActionsInv, TypeInv
<1>2. /\ \A f : StepOf(f)' = StepOf(f) /\ Script(f)' = Script(f) /\ FrameFits(f)' = FrameFits(f)
      /\ \A f, b, p : Runner(f, b, p)' = Runner(f, b, p)
      /\ \A h, b : OnlyIn(h, b)' = OnlyIn(h, b)
      /\ \A h : IsSerial(h)' = IsSerial(h) /\ Owes(h)' = Owes(h) /\ Limit(h)' = Limit(h)
      /\ \A h, n : Given(h, n)' = Given(h, n)
  BY <1>1, SameConfig
<1>3. \A h, w : Logged(h, w)' = Logged(h, w)
  BY <1>1 DEF Logged
<1>4. TypeInv'
  BY <1>1 DEF TypeInv
<1>5. StackInv'
  BY <1>1, <1>2 DEF StackInv
<1>6. MutexInv'
  BY <1>1, <1>2 DEF MutexInv
<1>7. ReadInv'
  <2>1. ASSUME NEW g \in Goroutines, NEW i \in DOMAIN stack[g], IsSerial(stack[g][i].h)
        PROVE  Fresher(stack[g][i], g[1])'
    <3>1. PICK f : f = stack[g][i]
      OBVIOUS
    <3>2. f \in Frames /\ Fresher(f, g[1])
      BY <1>1, <2>1, <3>1, MemberOf DEF ReadInv
    <3>3. f.h \in HandlerNames
      BY <3>2 DEF Frames
    <3>4. /\ reg'[f.h].rotation = reg[f.h].rotation /\ reg'[f.h].state = reg[f.h].state
          /\ \A b \in Chats : OnlyIn(f.h, b) /\ Runner(f, b, 3..5) => chat'[b] = chat[b]
      BY <1>1, <3>3
    <3>5. Fresher(f, g[1])'
      BY <1>1, <3>2, <3>4, FresherSame
    <3>6. QED
      BY <1>1, <3>1, <3>5
  <2>2. QED
    BY <1>1, <1>2, <2>1 DEF ReadInv
<1>8. CountInv'
  <2>1. \A h : InSequence(h)' = InSequence(h)
    BY <1>1, <1>2, <1>3 DEF InSequence, Earlier
  <2>2. QED
    BY <1>1, <1>2, <1>3, <2>1 DEF CountInv
<1>9. RotationInv'
  <2>1. ASSUME NEW h \in HandlerNames, RotationOf(h)
        PROVE  RotationOf(h)'
    <3>1. \A f : Rotating(f, h)' = Rotating(f, h)
      BY <1>2 DEF Rotating
    <3>2. \A i : LastRotated(h, i)' = LastRotated(h, i)
      BY <1>3 DEF LastRotated
    <3>3. Rotated(h)' = Rotated(h)
      BY <1>1, <1>3 DEF Rotated
    <3>4. QED
      BY <1>1, <1>3, <2>1, <3>1, <3>2, <3>3 DEF RotationOf, After
  <2>2. QED
    BY <1>1, <1>2, <2>1 DEF RotationInv
<1>10. SpreadInv'
  <2>1. ASSUME NEW h \in HandlerNames, SpreadOf(h)
        PROVE  SpreadOf(h)'
    <3>1. \A f, c : Spreading(f, h, c)' = Spreading(f, h, c)
      BY <1>2 DEF Spreading
    <3>2. ASSUME NEW i \in Logged(h, "spread"), NEW c, c = log[i].val.to
          PROVE  /\ log[i].val \in [to : ToSet(Pool), at : 0..MaxTime]
                 /\ \A j \in Logged(h, "spread") :
                      i < j /\ log[i].val.to = log[j].val.to => log[j].val.at >= log[i].val.at + Window
                 /\ \/ c \notin there'
                    \/ reg'[h].last[c] # None /\ reg'[h].last[c] >= log[i].val.at
                    \/ \E g \in Goroutines : \E j \in DOMAIN stack[g] : Spreading(stack[g][j], h, c)
                 /\ \A g \in Goroutines : \A j \in DOMAIN stack[g] :
                      Spreading(stack[g][j], h, c) => stack[g][j].got.now >= log[i].val.at
      BY <2>1, <3>2, SpreadEntry
    <3>3. QED
      BY <1>1, <1>3, <3>1, <3>2 DEF SpreadOf
  <2>2. QED
    BY <1>1, <1>2, <2>1 DEF SpreadInv
<1>11. TurnInv'
  <2>1. log \in Seq(Entries) /\ LogKeeps({"state", "turn"})
    BY <1>1 DEF TypeInv, LogKeeps
  <2>2. QED
    BY <1>1, <2>1, TurnKept
<1>12. AnswerInv'
  <2>1. \A m : Ends(m)' = Ends(m) /\ \A w : Sendings(m, w)' = Sendings(m, w)
    BY <1>1, <1>3 DEF Ends, Sendings
  <2>2. \A m, how : Told(m, how)' = Told(m, how)
    BY <1>1, <1>2, <2>1 DEF Told
  <2>3. \A f, m : ToldBy(f, m)' = ToldBy(f, m)
    BY <2>1, <2>2 DEF ToldBy
  <2>4. QED
    BY <1>1, <2>1, <2>2, <2>3 DEF AnswerInv
<1>13. QED
  BY <1>4, <1>5, <1>6, <1>7, <1>8, <1>9, <1>10, <1>11, <1>12 DEF ActionsInv

(* The clock goes on, and a limiter gets a token.                          *)
LEMMA TickKeeps ==
  ASSUME ActionsInv, Tick
  PROVE  ActionsInv'
<1> DEFINE Refilled(l) == IF Uses("rate-limit") /\ l < Burst THEN l + 1 ELSE l
<1>1. /\ UNCHANGED <<config, missing, stack, chat, stored, there, log>>
      /\ clock < MaxTime /\ clock' = clock + 1
      /\ reg' = [h \in HandlerNames |-> [reg[h] EXCEPT !.limit = Refilled(reg[h].limit)]]
  BY DEF Tick
<1>2. /\ reg \in [HandlerNames -> Registers] /\ clock \in 0..MaxTime /\ MaxTime \in Nat /\ Burst \in Nat
  BY ActionsAssumption DEF ActionsInv, TypeInv
<1>3. \A l \in 0..Burst : Refilled(l) \in 0..Burst
  BY <1>2
<1> HIDE DEF Refilled
<1>4. clock' \in 0..MaxTime
  BY <1>1, <1>2
<1>5. ASSUME NEW h \in HandlerNames
      PROVE  /\ reg'[h] \in Registers /\ reg'[h].sequence = reg[h].sequence /\ reg'[h].sample = reg[h].sample
             /\ reg'[h].rotation = reg[h].rotation /\ reg'[h].state = reg[h].state
             /\ reg'[h].last = reg[h].last
  <2>1. PICK r \in Registers : r = reg[h]
    BY <1>2
  <2>2. reg'[h] = [r EXCEPT !.limit = Refilled(r.limit)] /\ Refilled(r.limit) \in 0..Burst
    BY <1>1, <1>3, <2>1 DEF Registers
  <2>3. QED
    BY <2>1, <2>2 DEF Registers
<1>6. reg' \in [HandlerNames -> Registers]
  BY <1>1, <1>5
<1>7. there' \subseteq there
  BY <1>1
<1>8. QED
  BY <1>1, <1>4, <1>5, <1>6, <1>7, WorldKeeps

(* A client disconnects, and the times of its broadcasts are forgotten.    *)
LEMMA ClearKeeps ==
  ASSUME ActionsInv, NEW c \in ToSet(Pool), ClearConnResources(c)
  PROVE  ActionsInv'
<1>1. /\ UNCHANGED <<config, missing, stack, chat, stored, clock, log>> /\ there' = there \ {c}
      /\ reg' = [h \in HandlerNames |-> [reg[h] EXCEPT !.last[c] = None]]
  BY DEF ClearConnResources
<1>2. reg \in [HandlerNames -> Registers] /\ clock \in 0..MaxTime /\ there \subseteq ToSet(Pool)
  BY DEF ActionsInv, TypeInv
<1>3. ASSUME NEW h \in HandlerNames
      PROVE  /\ reg'[h] \in Registers /\ reg'[h].sequence = reg[h].sequence /\ reg'[h].sample = reg[h].sample
             /\ reg'[h].rotation = reg[h].rotation /\ reg'[h].state = reg[h].state
             /\ \A d \in there' : reg'[h].last[d] = reg[h].last[d]
  <2>1. PICK r \in Registers : r = reg[h]
    BY <1>2
  <2>2. reg'[h] = [r EXCEPT !.last[c] = None]
    BY <1>1, <2>1
  <2>3. PICK last : last = [r.last EXCEPT ![c] = None]
    OBVIOUS
  <2>4. last \in [ToSet(Pool) -> 0..MaxTime \cup {None}] /\ \A d : d # c => last[d] = r.last[d]
    BY <2>1, <2>3 DEF Registers
  <2>5. reg'[h] = [r EXCEPT !.last = last]
    BY <2>1, <2>2, <2>3 DEF Registers
  <2>6. /\ reg'[h] \in Registers /\ reg'[h].sequence = r.sequence /\ reg'[h].sample = r.sample
        /\ reg'[h].rotation = r.rotation /\ reg'[h].state = r.state /\ reg'[h].last = last
    BY <2>1, <2>4, <2>5 DEF Registers
  <2>7. \A d \in there' : d # c
    BY <1>1
  <2>8. QED
    BY <2>1, <2>4, <2>6, <2>7
<1>4. reg' \in [HandlerNames -> Registers]
  BY <1>1, <1>3
<1>5. there' \subseteq there /\ clock' \in 0..MaxTime
  BY <1>1, <1>2
<1>6. QED
  BY <1>1, <1>3, <1>4, <1>5, WorldKeeps

(* Nothing happens.                                                        *)
LEMMA NothingKeeps ==
  ASSUME ActionsInv, UNCHANGED actVars
  PROVE  ActionsInv'
<1>1. UNCHANGED <<config, missing, stack, chat, stored, log, reg, clock, there>>
  BY DEF actVars, shared
<1>2. reg' \in [HandlerNames -> Registers] /\ clock' \in 0..MaxTime /\ there' \subseteq there
  BY <1>1 DEF ActionsInv, TypeInv
<1>3. QED
  BY <1>1, <1>2, WorldKeeps

-----------------------------------------------------------------------------
(* The beginning                                                           *)

(* In the beginning a goroutine is at its handler's lock, or idle, and     *)
(* nothing was sent, kept or counted.                                      *)
LEMMA Begins ==
  ASSUME ActionsInit
  PROVE  ActionsInv
<1>1. /\ config \in Setups /\ missing \in Absences /\ stored = FALSE /\ clock = 0 /\ there = ToSet(Pool)
      /\ stack = [g \in Goroutines |-> IF g[2] = "main" THEN <<Frame(First)>> ELSE <<>>]
      /\ reg = [h \in HandlerNames |-> Fresh] /\ chat = [b \in Chats |-> <<>>] /\ log = <<>>
  BY DEF ActionsInit
<1>2. First \in HandlerNames /\ config[First] # None
  BY <1>1, ActionsAssumption
<1>3. PICK f : f = Frame(First)
  OBVIOUS
<1>4. f \in Frames /\ FrameFits(f) /\ f.h = First
  BY <1>1, <1>2, <1>3, NewFits DEF New, Frame
<1>5. f.pc = "lock"
  BY <1>3 DEF Frame
<1>6. /\ \A g \in Goroutines : g[2] = "main" => stack[g] = <<f>>
      /\ \A g \in Goroutines : g[2] # "main" => stack[g] = <<>>
  BY <1>1, <1>3
<1>7. ASSUME NEW g \in Goroutines, NEW i \in DOMAIN stack[g]
      PROVE  stack[g][i] = f /\ i = 1 /\ Len(stack[g]) = 1 /\ stack[g] = <<f>>
  <2>1. CASE g[2] = "main"
    <3>1. stack[g] = <<f>>
      BY <1>6, <2>1
    <3>2. Len(<<f>>) = 1 /\ DOMAIN <<f>> = 1..1 /\ <<f>>[1] = f
      OBVIOUS
    <3>3. i = 1
      BY <1>7, <3>1, <3>2
    <3>4. QED
      BY <3>1, <3>2, <3>3
  <2>2. CASE g[2] # "main"
    BY <1>6, <1>7, <2>2
  <2>3. QED
    BY <2>1, <2>2
<1>8. \A h, w : Logged(h, w) = {}
  BY <1>1 DEF Logged
<1>9. TypeInv
  <2>1. stack \in [Goroutines -> Seq(Frames)]
    <3>1. ASSUME NEW g \in Goroutines
          PROVE  stack[g] \in Seq(Frames)
      <4>1. <<f>> \in Seq(Frames) /\ <<>> \in Seq(Frames)
        BY <1>4
      <4>2. stack[g] = <<f>> \/ stack[g] = <<>>
        BY <1>6
      <4>3. QED
        BY <4>1, <4>2
    <3>2. QED
      BY <1>1, <3>1
  <2>2. reg \in [HandlerNames -> Registers]
    <3>1. 0 \in 0..Responses - 1 /\ 1 \in Places /\ Burst \in 0..Burst /\ Len(Pool) \in Nat
      <4>1. Pool # <<>> /\ Pool \in Seq(ToSet(Pool)) /\ Responses \in Nat \ {0} /\ Burst \in Nat
        BY ActionsAssumption
      <4>2. Len(Pool) \in Nat /\ Len(Pool) # 0
        BY <4>1, EmptySeq, LenProperties
      <4>3. QED
        BY <4>1, <4>2 DEF Places
    <3>2. [c \in ToSet(Pool) |-> None] \in [ToSet(Pool) -> 0..MaxTime \cup {None}]
      OBVIOUS
    <3>3. Fresh \in Registers
      BY <3>1, <3>2 DEF Fresh, Registers
    <3>4. QED
      BY <1>1, <3>3
  <2>3. chat \in [Chats -> Seq(Turns)] /\ log \in Seq(Entries) /\ clock \in 0..MaxTime
    BY <1>1, ActionsAssumption
  <2>4. QED
    BY <1>1, <2>1, <2>2, <2>3 DEF TypeInv
<1>10. StackInv
  <2>1. ~(1 < 1)
    OBVIOUS
  <2>2. \A g \in Goroutines : \A i \in DOMAIN stack[g] : FrameFits(stack[g][i]) /\ ~(i < Len(stack[g]))
    BY <1>4, <1>7, <2>1
  <2>3. QED
    BY <2>2 DEF StackInv
<1>11. MutexInv
  BY <1>5, <1>7 DEF MutexInv
<1>12. ReadInv
  <2>1. \A b, P : ~Runner(f, b, P)
    BY <1>5 DEF Runner
  <2>2. \A m : Fresher(f, m)
    BY <2>1 DEF Fresher
  <2>3. QED
    BY <1>7, <2>2 DEF ReadInv
<1>13. Cardinality({}) = 0
  BY FS_EmptySet
<1>14. CountInv
  <2>1. ASSUME NEW h \in HandlerNames
        PROVE  /\ reg[h].sequence = Given(h, Cardinality(Logged(h, "sequence")))
               /\ reg[h].sample = Cardinality(Logged(h, "sample"))
               /\ InSequence(h)
    <3>1. reg[h].sequence = 0 /\ reg[h].sample = 0
      BY <1>1 DEF Fresh
    <3>2. Given(h, 0) = 0
      <4>1. Responses \in Nat /\ Responses > 0
        BY ActionsAssumption
      <4>2. 0 % Responses = 0
        BY <4>1
      <4>3. QED
        BY <4>1, <4>2 DEF Given
    <3>3. InSequence(h)
      BY <1>8 DEF InSequence
    <3>4. QED
      BY <1>8, <1>13, <3>1, <3>2, <3>3
  <2>2. QED
    BY <2>1 DEF CountInv
<1>15. RotationInv
  <2>1. \A h : \A g \in Goroutines : \A j \in DOMAIN stack[g] : ~Rotating(stack[g][j], h)
    BY <1>5, <1>7 DEF Rotating, Runner
  <2>2. \A h : Rotated(h)
    BY <1>8 DEF Rotated
  <2>3. QED
    BY <1>8, <2>1, <2>2 DEF RotationInv, RotationOf
<1>16. SpreadInv
  BY <1>8 DEF SpreadInv, SpreadOf
<1>17. TurnInv
  <2>1. ASSUME NEW h \in HandlerNames, NEW b \in Chats
        PROVE  reg[h].state = 0 /\ chat[b] = <<>> /\ Remembered(h, b, <<>>)
    <3>1. {i \in Logged(h, "turn") : log[i].val = b} = {}
      BY <1>8
    <3>2. Len(<<>>) = 0 /\ DOMAIN <<>> = {} /\ MaxHistory \in Nat
      BY ActionsAssumption
    <3>3. Limit(h) \in Nat
      BY <3>2 DEF Limit
    <3>4. Remembered(h, b, <<>>)
      <4>1. 2 * Cardinality({i \in Logged(h, "turn") : log[i].val = b}) = 0
        <5>1. Cardinality({i \in Logged(h, "turn") : log[i].val = b}) = 0
          BY ONLY <1>13, <3>1
        <5>2. 2 * 0 = 0
          OBVIOUS
        <5>3. QED
          BY ONLY <5>1, <5>2
      <4>2. ~(0 > Limit(h))
        BY <3>3
      <4>3. QED
        BY <3>2, <4>1, <4>2 DEF Remembered
    <3>5. QED
      BY <1>1, <3>4 DEF Fresh
  <2>2. \A h \in HandlerNames : reg[h].state = Cardinality(Logged(h, "state"))
    BY <1>1, <1>8, <1>13 DEF Fresh
  <2>3. QED
    BY <2>1, <2>2 DEF TurnInv, TurnsRemembered
<1>18. AnswerInv
  <2>1. ASSUME NEW m \in Inbox
        PROVE  LET g == <<m, "main">> IN
               /\ stack[g] # <<>> /\ Ends(m) = {} /\ stack[g][1].h = First /\ ToldBy(stack[g][1], m)
    <3>1. <<m, "main">> \in Goroutines
      BY DEF Goroutines
    <3>2. stack[<<m, "main">>] = <<f>>
      BY <1>6, <3>1
    <3>3. Ends(m) = {} /\ Sendings(m, "reply") = {} /\ Sendings(m, "error") = {}
      BY <1>1, <1>8 DEF Ends, Sendings
    <3>4. ToldBy(f, m)
      BY <1>5, <3>3 DEF ToldBy
    <3>5. QED
      BY <1>4, <3>2, <3>3, <3>4
  <2>2. QED
    BY <2>1 DEF AnswerInv
<1>19. QED
  BY <1>9, <1>10, <1>11, <1>12, <1>14, <1>15, <1>16, <1>17, <1>18 DEF ActionsInv

(* Every step of a goroutine.                                              *)
LEMMA ExecutesKeeps ==
  ASSUME ActionsInv, NEW g \in Goroutines, Executes(g)
  PROVE  ActionsInv'
<1>1. CASE Begin(g)
  BY <1>1, BeginKeeps
<1>2. CASE Delay(g)
  BY <1>2, DelayKeeps
<1>3. CASE Respond(g)
  BY <1>3, RespondKeeps
<1>4. CASE Reply(g)
  BY <1>4, ReplyKeeps
<1>5. CASE Retry(g)
  BY <1>5, RetryKeeps
<1>6. CASE Return(g)
  BY <1>6, ReturnInside, ReturnEnds
<1>7. CASE executeHandlerError(g)
  BY <1>7, HandlerErrorKeeps
<1>8. CASE HandleError(g)
  BY <1>8, HandleErrorKeeps
<1>9. CASE Attempt(g)
  BY <1>9, AttemptKeeps
<1>10. CASE ApplyChange(g)
  BY <1>10, ApplyKeeps
<1>11. CASE SendTo(g)
  BY <1>11, SendKeeps
<1>12. CASE WriteBack(g)
  BY <1>12, WriteKeeps
<1>13. CASE StreamPieces(g)
  BY <1>13, StreamKeeps
<1>14. CASE EndEarly(g)
  BY <1>14, EndEarlyKeeps
<1>15. CASE LeaveWith(g)
  BY <1>15, LeaveKeeps
<1>16. CASE RunShell(g)
  BY <1>16, ShellKeeps
<1>17. CASE EnterHandler(g)
  BY <1>17, EnterKeeps
<1>18. CASE LookAt(g)
  BY <1>18, LookKeeps
<1>19. CASE KeepBack(g)
  BY <1>19, KeepBackKeeps
<1>20. CASE RotateOn(g)
  BY <1>20, RotateKeeps
<1>21. CASE TakeNext(g)
  BY <1>21, TakeKeeps
<1>22. CASE SetLastThrottle(g)
  BY <1>22, SetLastKeeps
<1>23. CASE SpreadEnds(g)
  BY <1>23, SpreadEndsKeeps
<1>24. CASE \E c \in ToSet(Pool) : SpreadTo(g, c)
  BY <1>24, SpreadToKeeps
<1>25. QED
  BY <1>1, <1>2, <1>3, <1>4, <1>5, <1>6, <1>7, <1>8, <1>9, <1>10, <1>11, <1>12, <1>13, <1>14,
     <1>15, <1>16, <1>17, <1>18, <1>19, <1>20, <1>21, <1>22, <1>23, <1>24 DEF Executes
-----------------------------------------------------------------------------
(* The theorems                                                            *)

(* The invariant is inductive.                                             *)
THEOREM ActionsInductive == ActionsSpec => []ActionsInv
<1>1. ActionsInit => ActionsInv
  BY Begins
<1>2. ActionsInv /\ [ActionsNext \/ ActionsQuiet]_actVars => ActionsInv'
  <2>1. ASSUME ActionsInv, ActionsNext
        PROVE  ActionsInv'
    BY <2>1, ExecutesKeeps, TickKeeps, ClearKeeps DEF ActionsNext
  <2>2. ASSUME ActionsInv, UNCHANGED actVars
        PROVE  ActionsInv'
    BY <2>2, NothingKeeps
  <2>3. QED
    BY <2>1, <2>2 DEF ActionsQuiet
<1>3. QED
  BY <1>1, <1>2, PTL DEF ActionsSpec

(* Every variable stays in its domain, every frame in the script of a      *)
(* handler there is and within its attempts, no conversation outgrows its  *)
(* limit, and no two frames are in one serial handler.                     *)
THEOREM ActionsTyped == ActionsSpec => []ActionsTypeOK
<1>1. ASSUME ActionsInv
      PROVE  ActionsTypeOK
  <2>1. /\ TypeInv /\ StackInv /\ MutexInv /\ TurnInv /\ stack \in [Goroutines -> Seq(Frames)]
        /\ reg \in [HandlerNames -> Registers]
    BY <1>1 DEF ActionsInv, TypeInv
  <2>2. ASSUME NEW g \in Goroutines, NEW i \in DOMAIN stack[g]
        PROVE  LET f == stack[g][i] IN
               /\ config[f.h] # None /\ f.at \in DOMAIN config[f.h].steps
               /\ f.ip \in DOMAIN Script(f) /\ f.try \in 0..1 + config[f.h].retry
               /\ {f.exit, f.mute} \subseteq BOOLEAN
               /\ f.how \in {"ok", "fail", "drop", "limit", "unsent", "cancelled"}
    <3>1. PICK f : f = stack[g][i]
      OBVIOUS
    <3>2. f \in Frames /\ Stands(f) /\ config \in Setups /\ f.h \in HandlerNames
      <4>1. f \in Frames
        BY <2>1, <2>2, <3>1, MemberOf
      <4>2. FrameFits(f)
        BY <2>1, <2>2, <3>1 DEF StackInv
      <4>3. QED
        BY <2>1, <4>1, <4>2 DEF FrameFits, TypeInv, Frames
    <3>3. /\ config[f.h] # None /\ f.at \in DOMAIN config[f.h].steps /\ f.ip \in DOMAIN Script(f)
          /\ f.try <= 1 + config[f.h].retry /\ f.try \in Nat /\ {f.exit, f.mute} \subseteq BOOLEAN /\ f.how \in Hows
      BY <3>2 DEF Stands, Frames
    <3>4. config[f.h].retry \in Nat
      BY <3>2, <3>3, Configured
    <3>5. f.try \in 0..1 + config[f.h].retry
      BY <3>3, <3>4
    <3>6. QED
      BY <3>1, <3>3, <3>5 DEF Hows
  <2>3. ASSUME NEW h \in HandlerNames
        PROVE  /\ reg[h].sequence \in 0..Responses - 1 /\ reg[h].rotation \in 1..Len(Pool)
               /\ reg[h].limit \in 0..Burst
    <3>1. reg[h] \in Registers
      BY <2>1
    <3>2. QED
      BY <3>1 DEF Registers, Places
  <2>4. ASSUME NEW h \in HandlerNames, IsSerial(h)
        PROVE  Cardinality({g \in Goroutines : Holds(g, h)}) <= 1
    <3>1. PICK S : S = {g \in Goroutines : Holds(g, h)}
      OBVIOUS
    <3>2. ASSUME NEW k \in S, NEW g \in S
          PROVE  k = g
      <4>1. PICK i \in DOMAIN stack[k] : stack[k][i].h = h /\ stack[k][i].pc # "lock"
        BY <3>1, <3>2 DEF Holds
      <4>2. PICK j \in DOMAIN stack[g] : stack[g][j].h = h /\ stack[g][j].pc # "lock"
        BY <3>1, <3>2 DEF Holds
      <4>3. k \in Goroutines /\ g \in Goroutines
        BY <3>1, <3>2
      <4>4. QED
        BY <2>1, <2>4, <4>1, <4>2, <4>3 DEF MutexInv
    <3>3. CASE S = {}
      BY <3>1, <3>3, FS_EmptySet
    <3>4. CASE S # {}
      <4>1. PICK k : k \in S
        BY <3>4
      <4>2. S = {k}
        BY <3>2, <4>1
      <4>3. QED
        BY <3>1, <4>2, FS_Singleton
    <3>5. QED
      BY <3>3, <3>4
  <2>5. ASSUME NEW h \in HandlerNames, NEW b \in Chats, OnlyIn(h, b), IsSerial(h), Limit(h) > 0
        PROVE  Len(chat[b]) <= Limit(h)
    <3>1. Remembered(h, b, chat[b])
      BY <2>1, <2>5 DEF TurnInv, TurnsRemembered
    <3>2. PICK w : w = 2 * Cardinality({i \in Logged(h, "turn") : log[i].val = b})
      OBVIOUS
    <3>3. Len(chat[b]) = IF Limit(h) > 0 /\ w > Limit(h) THEN Limit(h) ELSE w
      BY <3>1, <3>2 DEF Remembered
    <3>4. w \in Nat
      <4>1. log \in Seq(Entries)
        BY <2>1 DEF TypeInv
      <4>2. IsFiniteSet(Logged(h, "turn"))
        BY <4>1, Finite
      <4>3. Cardinality({i \in Logged(h, "turn") : log[i].val = b}) \in Nat
        BY <4>2, FS_Subset, FS_CardinalityType
      <4>4. QED
        BY <3>2, <4>3
    <3>5. Limit(h) \in Nat
      BY ActionsAssumption DEF Limit
    <3>6. QED
      BY ONLY <2>5, <3>3, <3>4, <3>5
  <2>6. config \in Setups /\ missing \in Absences /\ clock \in 0..MaxTime /\ there \subseteq ToSet(Pool)
    BY <2>1 DEF TypeInv
  <2>7. QED
    BY <2>2, <2>3, <2>4, <2>5, <2>6 DEF ActionsTypeOK, IsSerial
<1>2. QED
  BY <1>1, ActionsInductive, PTL

(* However many messages ask at once, a sequence hands out its responses   *)
(* one after the other and sample counts every message; a serial           *)
(* round-robin handler passes over no client that can be reached.          *)
THEOREM ActionsInTurn == ActionsSpec => []InTurn
<1>1. ActionsInv => InTurn
  BY DEF ActionsInv, CountInv, RotationInv, RotationOf, InTurn
<1>2. QED
  BY <1>1, ActionsInductive, PTL

(* A serial throttle-broadcast handler sends no client two broadcasts that *)
(* began within the window.                                                *)
THEOREM ActionsWindowKept == ActionsSpec => []WindowKept
<1>1. ASSUME ActionsInv
      PROVE  WindowKept
  <2>1. ASSUME NEW h \in HandlerNames, IsSerial(h), NEW i \in Logged(h, "spread"), NEW j \in Logged(h, "spread"),
               i < j, log[i].val.to = log[j].val.to
        PROVE  log[j].val.at >= log[i].val.at + Window
    BY <1>1, <2>1 DEF ActionsInv, SpreadInv, SpreadOf
  <2>2. QED
    BY <2>1 DEF WindowKept
<1>2. QED
  BY <1>1, ActionsInductive, PTL

(* A serial chat handler remembers every turn it completed and none of     *)
(* those that failed, and a serial script sees each change of its table.   *)
THEOREM ActionsRemember == ActionsSpec => []TurnsRemembered
<1>1. ActionsInv => TurnsRemembered
  BY DEF ActionsInv, TurnInv
<1>2. QED
  BY <1>1, ActionsInductive, PTL

(* The handler of a message ends once, with the one answer that its last   *)
(* attempt calls for.                                                      *)
THEOREM ActionsAnswerOnce == ActionsSpec => []AnsweredOnce
<1>1. ASSUME ActionsInv
      PROVE  AnsweredOnce
  <2>1. ASSUME NEW m \in Inbox
        PROVE  /\ Cardinality(Ends(m)) <= 1
               /\ \A i \in Ends(m) : Told(m, log[i].val.how)
    <3>1. CASE stack[<<m, "main">>] = <<>>
      <4>1. PICK i \in Ends(m) : Ends(m) = {i} /\ Told(m, log[i].val.how)
        BY <1>1, <2>1, <3>1 DEF ActionsInv, AnswerInv
      <4>2. Cardinality(Ends(m)) = 1
        BY <4>1, FS_Singleton
      <4>3. QED
        BY <4>1, <4>2
    <3>2. CASE stack[<<m, "main">>] # <<>>
      <4>1. Ends(m) = {}
        BY <1>1, <2>1, <3>2 DEF ActionsInv, AnswerInv
      <4>2. QED
        BY <4>1, FS_EmptySet
    <3>3. QED
      BY <3>1, <3>2
  <2>2. QED
    BY <2>1 DEF AnsweredOnce, Told, Owes
<1>2. QED
  BY <1>1, ActionsInductive, PTL

===============================================================================

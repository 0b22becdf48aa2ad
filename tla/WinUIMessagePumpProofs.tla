------------------------ MODULE WinUIMessagePumpProofs ------------------------
(* The pump of the UI thread: it waits for nothing while there is work, and *)
(* it is told of new work, whatever modal loops are entered.                *)
EXTENDS WinUIMessagePump, FiniteSetTheorems, SequenceTheorems, TLAPS

-----------------------------------------------------------------------------
(* The inductive invariant, by parts *)

(* The frames: before Run there are modal loops and what they dispatch;    *)
(* then DoRunLoop is at the bottom, and nowhere else.                      *)
StackInv ==
  /\ state_ = "none" => \A i \in DOMAIN stack : stack[i].at \in {"modal", "handler"}
  /\ state_ = "run" => /\ stack # <<>> /\ stack[1].at \in LoopPCs
                       /\ \A i \in 2..Len(stack) : stack[i].at \notin LoopPCs \ {"replace"}
  /\ state_ = "left" => stack = <<>>
  /\ \A i \in DOMAIN stack : stack[i].at = "task" => stack[i].id \in 1..MaxPosts

(* Tasks may nest whenever none is on the stack. *)
NestInv == ~nestable_tasks_allowed_ => \E i \in DOMAIN stack : stack[i].at = "task"

(* The run loop is on its way to WaitForWork, or there; and DoDelayedWork  *)
(* is behind it.                                                           *)
Settled ==
  /\ state_ = "run"
  /\ \/ stack[1].at \in {"wait", "sleep", "message"}
     \/ stack[1].at \in {"delayed", "kill"} /\ ~stack[1].more
Timed == Settled /\ stack[1].at # "delayed"

(* Then no frame is above it, DoWork has found nothing, and what was       *)
(* posted since is announced.                                              *)
WaitInv ==
  /\ Settled => /\ Len(stack) = 1
                /\ work_queue_ = <<>>
                /\ incoming_queue_ # <<>> => WorkIsComing
  /\ Timed => \A t \in delayed_work_queue_ : delayed_work_time_ \in 1..t.time

InputInv == input <= inputs

FrameSet == [at : FramePCs, id : 0..MaxPosts, more : BOOLEAN]

-----------------------------------------------------------------------------
(* How a step moves the frames *)

(* The thread stays where it is, goes on, calls, returns, or a modal loop  *)
(* is above it; n is the depth of its stack.                               *)
Same(n) == \A i \in 1..n : stack'[i] = stack[i]
Stays == UNCHANGED <<stack, state_, nestable_tasks_allowed_>>
Fits(p) == IF Len(stack) = 1 THEN p \in LoopPCs ELSE p \in FramePCs \ (LoopPCs \ {"replace"})
Becomes(f, p, more) == f.at = p /\ f.id = Top.id /\ f.more = more
Goes(p, more) ==
  /\ UNCHANGED state_ /\ state_ = "run" /\ stack # <<>> /\ Fits(p)
  /\ stack' \in Seq(FrameSet) /\ Len(stack') = Len(stack) /\ Same(Len(stack) - 1)
  /\ Becomes(stack'[Len(stack)], p, more)
  /\ Top.at = "task" <=> p = "task"
  /\ UNCHANGED nestable_tasks_allowed_ \/ nestable_tasks_allowed_'
Calls(p, more, f) ==
  /\ UNCHANGED state_ /\ state_ = "run" /\ stack # <<>> /\ Fits(p) /\ p # "task" /\ Top.at # "task"
  /\ stack' \in Seq(FrameSet) /\ Len(stack') = Len(stack) + 1 /\ Same(Len(stack) - 1)
  /\ Becomes(stack'[Len(stack)], p, more) /\ stack'[Len(stack) + 1] = f
  /\ f.at \in {"handler", "timer", "task"} /\ (f.at = "task" => f.id \in 1..MaxPosts)
  /\ f.at = "task" \/ UNCHANGED nestable_tasks_allowed_
Returns ==
  /\ UNCHANGED state_ /\ (Len(stack) > 1 \/ (state_ = "none" /\ stack # <<>>))
  /\ stack' \in Seq(FrameSet) /\ Len(stack') = Len(stack) - 1 /\ Same(Len(stack) - 1)
  /\ IF Top.at = "task" THEN nestable_tasks_allowed_' ELSE UNCHANGED nestable_tasks_allowed_
IsAbove(f) ==
  /\ UNCHANGED <<state_, nestable_tasks_allowed_>>
  /\ f.at \in {"modal", "handler"} \/ (f.at \in {"replace", "timer"} /\ state_ = "run")
  /\ state_ = "none" \/ (state_ = "run" /\ stack # <<>>)
  /\ stack' \in Seq(FrameSet) /\ Len(stack') = Len(stack) + 1 /\ Same(Len(stack))
  /\ stack'[Len(stack) + 1] = f

LEMMA TopFrame ==
  ASSUME NEW s \in Seq(FrameSet), s # <<>>
  PROVE  /\ Len(s) \in Nat \ {0} /\ s[Len(s)] \in FrameSet
         /\ SubSeq(s, 1, Len(s) - 1) \in Seq(FrameSet)
         /\ Len(SubSeq(s, 1, Len(s) - 1)) = Len(s) - 1
         /\ \A i \in 1..(Len(s) - 1) : SubSeq(s, 1, Len(s) - 1)[i] = s[i]
<1>1. Len(s) \in Nat \ {0}
  OBVIOUS
<1>2. s[Len(s)] \in FrameSet
  BY <1>1
<1>3. /\ SubSeq(s, 1, Len(s) - 1) \in Seq(FrameSet)
      /\ Len(SubSeq(s, 1, Len(s) - 1)) = Len(s) - 1
      /\ \A i \in 1..(Len(s) - 1) : SubSeq(s, 1, Len(s) - 1)[i] = s[i]
  <2> DEFINE n == Len(s) - 1
  <2>1. n \in Nat /\ \A i \in 1..n : s[i] \in FrameSet
    BY <1>1
  <2>2. /\ SubSeq(s, 1, n) \in Seq(FrameSet)
        /\ Len(SubSeq(s, 1, n)) = IF 1 <= n THEN n - 1 + 1 ELSE 0
        /\ \A i \in 1 .. n-1+1 : SubSeq(s,1,n)[i] = s[1+i-1]
    <3> HIDE DEF n
    <3> QED BY <2>1, SubSeqProperties
  <2> HIDE DEF n
  <2>3. /\ Len(SubSeq(s, 1, n)) = n /\ \A i \in 1..n : SubSeq(s, 1, n)[i] = s[i]
    BY <2>1, <2>2
  <2> QED BY <2>2, <2>3 DEF n
<1> QED BY <1>1, <1>2, <1>3

Altered(f, p, more) == [f EXCEPT !.at = p, !.more = more]
LEMMA AlteredFrame ==
  ASSUME NEW f \in FrameSet, NEW p \in FramePCs, NEW more \in BOOLEAN
  PROVE  /\ Altered(f, p, more) \in FrameSet /\ Altered(f, p, more).at = p
         /\ Altered(f, p, more).id = f.id /\ Altered(f, p, more).more = more
<1>1. /\ Altered(f, p, more).at = p /\ Altered(f, p, more).id = f.id
      /\ Altered(f, p, more).more = more
  BY DEF FrameSet, Altered
<1>2. Altered(f, p, more) \in FrameSet
  BY DEF FrameSet, Altered
<1> QED BY <1>1, <1>2

LEMMA ToMoves ==
  ASSUME stack \in Seq(FrameSet), stack # <<>>, NEW p \in FramePCs, NEW more \in BOOLEAN, To(p, more)
  PROVE  /\ stack' \in Seq(FrameSet) /\ Len(stack') = Len(stack) /\ Same(Len(stack) - 1)
         /\ Becomes(stack'[Len(stack)], p, more)
<1> DEFINE b == SubSeq(stack, 1, Len(stack) - 1)
           g == Altered(Top, p, more)
<1>0. g \in FrameSet /\ g.at = p /\ g.id = Top.id /\ g.more = more
  <2>1. Top \in FrameSet
    BY TopFrame DEF Top
  <2> QED BY <2>1, AlteredFrame
<1>1. stack' = Append(b, g)
  BY DEF To, Below, Altered
<1>2. /\ b \in Seq(FrameSet) /\ Len(b) = Len(stack) - 1 /\ Len(stack) \in Nat \ {0}
      /\ \A i \in 1..(Len(stack) - 1) : b[i] = stack[i]
  BY TopFrame
<1> HIDE DEF b, g
<1> QED BY <1>0, <1>1, <1>2 DEF Same, Becomes

LEMMA CallMoves ==
  ASSUME stack \in Seq(FrameSet), stack # <<>>, NEW p \in FramePCs, NEW more \in BOOLEAN,
         NEW f \in FrameSet, CallThen(p, more, f)
  PROVE  /\ stack' \in Seq(FrameSet) /\ Len(stack') = Len(stack) + 1 /\ Same(Len(stack) - 1)
         /\ Becomes(stack'[Len(stack)], p, more)
         /\ stack'[Len(stack) + 1] = f
<1> DEFINE b == SubSeq(stack, 1, Len(stack) - 1)
           g == Altered(Top, p, more)
<1>0. g \in FrameSet /\ g.at = p /\ g.id = Top.id /\ g.more = more
  <2>1. Top \in FrameSet
    BY TopFrame DEF Top
  <2> QED BY <2>1, AlteredFrame
<1>1. stack' = b \o <<g, f>>
  BY DEF CallThen, Below, Altered
<1>2. /\ b \in Seq(FrameSet) /\ Len(b) = Len(stack) - 1 /\ Len(stack) \in Nat \ {0}
      /\ \A i \in 1..(Len(stack) - 1) : b[i] = stack[i]
  BY TopFrame
<1> HIDE DEF b, g
<1> DEFINE h == <<g, f>>
<1>3. h \in Seq(FrameSet) /\ Len(h) = 2 /\ h[1] = g /\ h[2] = f
  BY <1>0
<1>4. stack' = b \o h
  BY <1>1
<1> HIDE DEF h, g
<1>5. /\ stack' \in Seq(FrameSet) /\ Len(stack') = Len(b) + 2
      /\ \A i \in 1..Len(b) : stack'[i] = b[i]
      /\ stack'[Len(b) + 1] = g /\ stack'[Len(b) + 2] = f
  <2>1. /\ b \o h \in Seq(FrameSet) /\ Len(b \o h) = Len(b) + Len(h)
        /\ \A i \in 1 .. Len(b) + Len(h) : (b \o h)[i] = IF i <= Len(b) THEN b[i] ELSE h[i - Len(b)]
    BY <1>2, <1>3, ConcatProperties
  <2>2. Len(b) \in Nat
    BY <1>2
  <2>3. Len(b) + 1 - Len(b) = 1 /\ Len(b) + 2 - Len(b) = 2
    BY <2>2
  <2> QED BY <1>3, <1>4, <2>1, <2>2, <2>3
<1>6. Len(b) + 2 = Len(stack) + 1 /\ Len(b) + 1 = Len(stack)
  BY <1>2
<1> QED BY <1>0, <1>2, <1>5, <1>6 DEF Same, Becomes

LEMMA ReturnMoves ==
  ASSUME stack \in Seq(FrameSet), stack # <<>>, Return
  PROVE  /\ stack' \in Seq(FrameSet) /\ Len(stack') = Len(stack) - 1 /\ Same(Len(stack) - 1)
BY TopFrame DEF Return, Below, Same

LEMMA AboveMoves ==
  ASSUME stack \in Seq(FrameSet), NEW f \in FrameSet, stack' = Append(stack, f)
  PROVE  /\ stack' \in Seq(FrameSet) /\ Len(stack') = Len(stack) + 1 /\ Same(Len(stack))
         /\ stack'[Len(stack) + 1] = f
BY DEF Same

-----------------------------------------------------------------------------
(* Types, and where the executing frame is *)

QueuesOK ==
  /\ incoming_queue_ \in Seq(Task) /\ work_queue_ \in Seq(Task)
  /\ delayed_work_queue_ \subseteq Task
  /\ next_delayed_task_sequence_num_ \in Nat
MsgsOK ==
  /\ nestable_tasks_allowed_ \in BOOLEAN /\ os_modal_loop_ \in BOOLEAN
  /\ have_work_ \in {0, 1} /\ delayed_work_time_ \in 0..MaxTime
  /\ state_ \in {"none", "run", "left"} /\ should_quit \in BOOLEAN
  /\ have_msg \in Nat /\ input \in 0..MaxInputs /\ quit_msg \in BOOLEAN /\ timer \in Nat
StackOK == stack \in Seq(FrameSet)
CountOK ==
  /\ poster_ \in [Posters -> {"idle", "exchange", "post"}]
  /\ now \in 1..MaxTime /\ posted \in 0..MaxPosts /\ done \subseteq 1..MaxPosts
  /\ inputs \in 0..MaxInputs /\ modals \in 0..MaxModals

LEMMA TypeParts == TypeOK <=> QueuesOK /\ MsgsOK /\ StackOK /\ CountOK
BY DEF TypeOK, QueuesOK, MsgsOK, StackOK, CountOK, FrameSet

LEMMA Where ==
  ASSUME StackOK, StackInv, MsgsOK, NEW p, At(p)
  PROVE  /\ stack # <<>> /\ Len(stack) \in Nat \ {0} /\ Top \in FrameSet /\ Top.at = p
         /\ Top = stack[Len(stack)]
         /\ p \in LoopPCs \ {"replace"} => Len(stack) = 1 /\ state_ = "run"
         /\ p \in {"replace", "do_work", "again", "timer", "rearm", "task"} => state_ = "run"
         /\ p \in {"do_work", "again", "timer", "rearm", "task"} => Len(stack) > 1
         /\ p \in {"handler", "modal"} => state_ = "none" \/ (state_ = "run" /\ Len(stack) > 1)
<1>1. stack # <<>> /\ Top = stack[Len(stack)] /\ Top.at = p
  BY DEF At, Top
<1>2. Len(stack) \in Nat \ {0} /\ Top \in FrameSet
  BY <1>1, TopFrame DEF StackOK
<1>3. Len(stack) \in DOMAIN stack /\ (Len(stack) # 1 => Len(stack) \in 2..Len(stack))
  <2>1. DOMAIN stack = 1..Len(stack)
    BY DEF StackOK
  <2> QED BY <1>2, <2>1
<1>4. state_ # "left"
  BY <1>1 DEF StackInv
<1>5. CASE state_ = "none"
  BY <1>1, <1>2, <1>3, <1>5 DEF StackInv, LoopPCs
<1>6. CASE state_ = "run"
  BY <1>1, <1>2, <1>3, <1>6 DEF StackInv, LoopPCs
<1> QED BY <1>4, <1>5, <1>6 DEF MsgsOK

LEMMA FrameType == ASSUME NEW p \in FramePCs PROVE Frame(p) \in FrameSet /\ Frame(p).at = p
BY BoundsAssumption DEF Frame, FrameSet

(* The actions that put the replacing frame on or take it off. *)
Replaces == PeekHaveWork \/ ReplaceNothing \/ Replace \/ ModalHaveWork

Moves ==
  \/ Stays \/ EnterRun \/ LeaveRun
  \/ \E p \in FramePCs, more \in BOOLEAN :
       Goes(p, more) /\ (Replaces \/ (p # "replace" /\ Top.at # "replace"))
  \/ \E p \in FramePCs, more \in BOOLEAN, f \in FrameSet :
       Calls(p, more, f) /\ (Replaces \/ (p # "replace" /\ Top.at # "replace"))
  \/ Returns /\ Top.at # "replace"
  \/ \E f \in FrameSet : IsAbove(f) /\ (Replaces \/ f.at # "replace")

LEMMA FitsAbove ==
  ASSUME StackOK, Len(stack) > 1, NEW p \in {"do_work", "again", "rearm", "task"}
  PROVE  Fits(p)
<1>1. Len(stack) # 1
  <2>1. Len(stack) \in Nat
    BY DEF StackOK
  <2>2. \A n \in Nat : n > 1 => n # 1
    OBVIOUS
  <2> QED BY <2>1, <2>2
<1> QED BY <1>1 DEF Fits, FramePCs, LoopPCs

LEMMA GoMoves ==
  ASSUME StackOK, StackInv, MsgsOK, NEW q \in FramePCs, At(q), state_ = "run", UNCHANGED state_,
         NEW p \in FramePCs, NEW more \in BOOLEAN, To(p, more),
         Fits(p), q = "task" <=> p = "task",
         UNCHANGED nestable_tasks_allowed_ \/ nestable_tasks_allowed_',
         Replaces \/ (p # "replace" /\ q # "replace")
  PROVE  Moves
<1>1. stack # <<>> /\ Top.at = q
  BY Where
<1>2. Goes(p, more)
  BY <1>1, ToMoves DEF StackOK, Goes
<1> QED BY <1>1, <1>2 DEF Moves

LEMMA CallsMoves ==
  ASSUME StackOK, StackInv, MsgsOK, NEW q \in FramePCs, At(q), state_ = "run", UNCHANGED state_,
         NEW p \in FramePCs, NEW more \in BOOLEAN, NEW f \in FrameSet, CallThen(p, more, f),
         Fits(p), p # "task", q # "task",
         f.at \in {"handler", "timer", "task"}, f.at = "task" => f.id \in 1..MaxPosts,
         f.at = "task" \/ UNCHANGED nestable_tasks_allowed_,
         Replaces \/ (p # "replace" /\ q # "replace")
  PROVE  Moves
<1>1. stack # <<>> /\ Top.at = q
  BY Where
<1>2. Calls(p, more, f)
  BY <1>1, CallMoves DEF StackOK, Calls
<1> QED BY <1>1, <1>2 DEF Moves

LEMMA ReturnsMoves ==
  ASSUME StackOK, StackInv, MsgsOK, NEW q \in FramePCs, At(q), UNCHANGED state_, Return,
         q \in {"do_work", "again", "rearm", "task", "handler", "modal"},
         IF q = "task" THEN nestable_tasks_allowed_' ELSE UNCHANGED nestable_tasks_allowed_
  PROVE  Moves
<1>1. stack # <<>> /\ Top.at = q /\ (Len(stack) > 1 \/ state_ = "none")
  BY Where
<1>2. Returns
  BY <1>1, ReturnMoves DEF StackOK, Returns
<1> QED BY <1>1, <1>2 DEF Moves

LEMMA AboveIsMoves ==
  ASSUME StackOK, UNCHANGED <<state_, nestable_tasks_allowed_>>,
         NEW f \in FrameSet, stack' = Append(stack, f),
         f.at \in {"modal", "handler"} \/ (f.at \in {"replace", "timer"} /\ state_ = "run"),
         state_ = "none" \/ (state_ = "run" /\ stack # <<>>),
         Replaces \/ f.at # "replace"
  PROVE  Moves
<1>1. IsAbove(f)
  BY AboveMoves DEF StackOK, IsAbove
<1> QED BY <1>1 DEF Moves

LEMMA StepMoves == ASSUME TypeOK, StackInv, Next PROVE Moves
<1>0. StackOK /\ MsgsOK /\ QueuesOK /\ CountOK
  BY TypeParts
<1> USE <1>0 DEF FramePCs, LoopPCs
<1>1. CASE PeekNothing \/ PeekHaveWork \/ KillTimer \/ Wait \/ Wake \/ MouseInChild \/ WaitMessage
           \/ DoDelayedWorkNone \/ DoDelayedWorkLater
  <2>1. PICK q \in {"peek", "delayed", "timer", "kill", "wait", "sleep", "message"} : At(q)
    BY <1>1 DEF PeekNothing, PeekHaveWork, KillTimer, Wait, Wake, MouseInChild, WaitMessage,
       DoDelayedWorkNone, DoDelayedWorkLater, Delaying
  <2>2. /\ Top.at = q /\ Top.more \in BOOLEAN /\ state_ = "run"
        /\ (q # "timer" => Len(stack) = 1) /\ (q = "timer" => Len(stack) > 1)
    BY <2>1, Where DEF FrameSet
  <2>3. PICK p \in {"work", "replace", "peek", "wait", "sleep", "message", "kill", "rearm"},
             more \in BOOLEAN :
          To(p, more) /\ (p = "rearm" <=> q = "timer") /\ (Replaces \/ p # "replace")
    <3>1. CASE PeekNothing \/ PeekHaveWork \/ Wait \/ Wake \/ MouseInChild \/ WaitMessage
      BY <2>1, <2>2, <3>1 DEF PeekNothing, PeekHaveWork, Wait, Wake, MouseInChild, WaitMessage, At, Top,
         Replaces
    <3>2. CASE KillTimer
      BY <2>1, <2>2, <3>2, Zenon DEF KillTimer, At, Top
    <3>3. CASE DoDelayedWorkNone \/ DoDelayedWorkLater
      BY <2>1, <2>2, <3>3 DEF DoDelayedWorkNone, DoDelayedWorkLater, Delaying, AfterDelayed, At, Top
    <3> QED BY <1>1, <3>1, <3>2, <3>3
  <2>4. UNCHANGED <<state_, nestable_tasks_allowed_>>
    BY <1>1 DEF PeekNothing, PeekHaveWork, KillTimer, Wait, Wake, MouseInChild, WaitMessage,
       DoDelayedWorkNone, DoDelayedWorkLater, Quiet
  <2>5. Fits(p) /\ p \in FramePCs /\ q \in FramePCs /\ p # "task" /\ q # "task" /\ q # "replace"
    <3>1. Fits(p)
      BY <2>2, <2>3, FitsAbove DEF Fits
    <3> QED BY <3>1
  <2> HIDE DEF FramePCs, LoopPCs
  <2>6. UNCHANGED state_ /\ UNCHANGED nestable_tasks_allowed_ /\ (Replaces \/ p # "replace")
    BY <2>3, <2>4
  <2>7. At(q) /\ To(p, more) /\ state_ = "run"
    BY <2>1, <2>2, <2>3
  <2> QED BY <2>5, <2>6, <2>7, GoMoves
<1>2. CASE ReplaceNothing
  <2>1. /\ At("replace") /\ To(AfterReplace, FALSE) /\ UNCHANGED <<state_, nestable_tasks_allowed_>>
        /\ Replaces /\ state_ = "run"
    BY <1>2, Where DEF ReplaceNothing, Replaces
  <2>2. AfterReplace \in FramePCs /\ Fits(AfterReplace) /\ AfterReplace # "task"
    BY <2>1 DEF AfterReplace, Fits, InLoop
  <2>3. "replace" \in FramePCs
    OBVIOUS
  <2> HIDE DEF FramePCs, LoopPCs
  <2> QED BY <2>1, <2>2, <2>3, GoMoves
<1>3. CASE PeekOther \/ Replace
  <2>1. PICK q \in {"peek", "replace"} :
          At(q) /\ (IF q = "peek" THEN PeekOther ELSE Replace) /\ (q = "replace" => Replaces)
    BY <1>3 DEF PeekOther, Replace, Replaces
  <2>2. UNCHANGED <<state_, nestable_tasks_allowed_>> /\ state_ = "run" /\ (q = "peek" => Len(stack) = 1)
    BY <2>1, Where DEF PeekOther, Replace
  <2>3. PICK p \in {"work", "do_work"} :
          /\ p = IF q = "peek" THEN "work" ELSE AfterReplace
          /\ Fits(p)
    BY <2>2 DEF AfterReplace, Fits, InLoop
  <2>4. PICK timerToo : ProcessMessageHelper(p, timerToo)
    BY <2>1, <2>3 DEF PeekOther, Replace, PeekReplacement
  <2>5. \/ To(p, FALSE)
        \/ \E f \in {Frame("handler"), Frame("timer")} : CallThen(p, TRUE, f)
    BY <2>4 DEF ProcessMessageHelper, Dispatch
  <2>6. CASE To(p, FALSE)
    BY <2>1, <2>2, <2>3, <2>6, GoMoves
  <2>7. ASSUME NEW f \in {Frame("handler"), Frame("timer")}, CallThen(p, TRUE, f) PROVE Moves
    <3>1. f \in FrameSet /\ f.at \in {"handler", "timer"}
      BY FrameType
    <3> QED BY <2>1, <2>2, <2>3, <2>7, <3>1, CallsMoves
  <2> QED BY <2>5, <2>6, <2>7
<1>4. CASE DoWorkRun \/ DoDelayedWorkDue
  <2>1. PICK q \in {"work", "do_work", "delayed", "timer"} :
          /\ At(q)
          /\ (q \in {"work", "do_work"} => DoWorkRun) /\ (q \in {"delayed", "timer"} => DoDelayedWorkDue)
    BY <1>4 DEF DoWorkRun, DoDelayedWorkDue, Working, Delaying
  <2>2. /\ state_ = "run" /\ UNCHANGED state_ /\ Top.at = q
        /\ (q \in {"work", "delayed"} => Len(stack) = 1) /\ (q \in {"do_work", "timer"} => Len(stack) > 1)
    BY <1>4, <2>1, Where DEF DoWorkRun, DoDelayedWorkDue, Quiet
  <2>3. PICK p \in {"delayed", "again", "kill", "rearm"} :
          /\ p = CASE q = "work" -> "delayed" [] q = "do_work" -> "again"
                   [] q = "delayed" -> "kill" [] OTHER -> "rearm"
          /\ Fits(p)
    <3>1. CASE q \in {"work", "delayed"}
      BY <2>2, <3>1 DEF Fits
    <3>2. CASE q \in {"do_work", "timer"}
      BY <2>2, <3>2, FitsAbove
    <3> QED BY <3>1, <3>2
  <2>4. PICK t \in Task : CallThen(p, TRUE, [Frame("task") EXCEPT !.id = t.id])
    <3>1. CASE DoWorkRun
      <4>1. Head(work_queue_) \in Task
        BY <3>1 DEF DoWorkRun, QueuesOK
      <4> QED BY <2>1, <2>2, <2>3, <3>1, <4>1 DEF DoWorkRun, RunTask, Working, At, Top
    <3>2. CASE DoDelayedWorkDue
      BY <2>1, <2>2, <2>3, <3>2 DEF DoDelayedWorkDue, RunTask, Delaying, AfterDelayed, At, Top, QueuesOK
    <3> QED BY <1>4, <3>1, <3>2
  <2> DEFINE f == [Frame("task") EXCEPT !.id = t.id]
  <2>5. f \in FrameSet /\ f.at = "task" /\ f.id \in 1..MaxPosts
    <3>1. t.id \in 1..MaxPosts /\ t.id \in 0..MaxPosts
      BY <2>4 DEF Task
    <3>2. Frame("task") \in FrameSet /\ Frame("task").at = "task"
      BY FrameType
    <3>3. f \in FrameSet
      BY <3>1, <3>2 DEF FrameSet
    <3>4. f.at = "task" /\ f.id = t.id
      BY <3>2 DEF FrameSet
    <3> QED BY <3>1, <3>3, <3>4
  <2> HIDE DEF f
  <2>6. CallThen(p, TRUE, f)
    BY <2>4 DEF f
  <2> QED BY <2>1, <2>2, <2>3, <2>5, <2>6, CallsMoves
<1>5. CASE DoWorkNone
  <2>1. UNCHANGED <<state_, nestable_tasks_allowed_>>
    BY <1>5 DEF DoWorkNone, Quiet
  <2>2. CASE At("work")
    <3>1. Top.more \in BOOLEAN /\ state_ = "run" /\ Fits("delayed")
      BY <2>2, Where DEF Fits, FrameSet
    <3>2. To("delayed", Top.more)
      BY <1>5, <2>2 DEF DoWorkNone
    <3> QED BY <2>1, <2>2, <3>1, <3>2, GoMoves
  <2>3. CASE ~At("work")
    <3>1. At("do_work") /\ Return
      BY <1>5, <2>3 DEF DoWorkNone, Working
    <3> QED BY <2>1, <3>1, ReturnsMoves
  <2> QED BY <2>2, <2>3
<1>6. CASE WorkAgain \/ Rearm \/ ModalQuit \/ ModalEnds \/ CodeReturns
  <2>1. UNCHANGED state_ /\ Return
    BY <1>6 DEF WorkAgain, Rearm, ModalQuit, ModalEnds, CodeReturns, LeaveModal, Quiet
  <2>2. CASE CodeReturns /\ At("task")
    <3>1. nestable_tasks_allowed_' \/ At("handler")
      BY <2>2 DEF CodeReturns
    <3>2. ~At("handler")
      BY <2>2 DEF At
    <3> QED BY <2>1, <2>2, <3>1, <3>2, ReturnsMoves
  <2>3. CASE ~(CodeReturns /\ At("task"))
    <3>1. PICK q \in {"again", "rearm", "handler", "modal"} : At(q)
      BY <1>6, <2>3 DEF WorkAgain, Rearm, ModalQuit, ModalEnds, CodeReturns
    <3>2. UNCHANGED nestable_tasks_allowed_
      BY <1>6, <2>3 DEF WorkAgain, Rearm, ModalQuit, ModalEnds, CodeReturns, LeaveModal
    <3> QED BY <2>1, <3>1, <3>2, ReturnsMoves
  <2> QED BY <2>2, <2>3
<1>7. ASSUME NEW announced \in BOOLEAN, EnterModal(announced) PROVE Moves
  <2> DEFINE f == [Frame("modal") EXCEPT !.more = announced]
  <2>1. f \in FrameSet /\ f.at = "modal"
    BY BoundsAssumption DEF Frame, FrameSet
  <2>2. stack' = Append(stack, f) /\ UNCHANGED <<state_, nestable_tasks_allowed_>>
    BY <1>7 DEF EnterModal
  <2> HIDE DEF f
  <2>3. state_ = "none" \/ (state_ = "run" /\ stack # <<>>)
    BY <1>7, Where DEF EnterModal, InCode
  <2> QED BY <2>1, <2>2, <2>3, AboveIsMoves
<1>8. CASE ModalHaveWork \/ ModalOther
  <2>1. At("modal") /\ UNCHANGED <<state_, nestable_tasks_allowed_>>
    BY <1>8 DEF ModalHaveWork, ModalOther, Quiet
  <2>2. state_ = "none" \/ (state_ = "run" /\ stack # <<>>)
    BY <2>1, Where
  <2>3. CASE stack' = stack
    BY <2>1, <2>3 DEF Moves, Stays
  <2>4. ASSUME NEW p \in {"handler", "timer", "replace"}, stack' = Append(stack, Frame(p)),
               p # "handler" => state_ = "run", p = "replace" => ModalHaveWork
        PROVE  Moves
    <3>1. Frame(p) \in FrameSet /\ Frame(p).at = p
      BY FrameType
    <3> QED BY <2>1, <2>2, <2>4, <3>1, AboveIsMoves DEF Replaces
  <2>5. CASE ModalHaveWork
    BY <2>3, <2>4, <2>5 DEF ModalHaveWork
  <2>6. CASE ModalOther
    BY <2>3, <2>4, <2>6 DEF ModalOther
  <2> QED BY <1>8, <2>5, <2>6
<1>9. CASE AllowNesting
  <2>1. /\ At("task") /\ To("task", TRUE) /\ nestable_tasks_allowed_' /\ UNCHANGED state_
        /\ state_ = "run" /\ Len(stack) > 1
    BY <1>9, Where DEF AllowNesting, Quiet
  <2>2. Fits("task") /\ "task" \in FramePCs
    BY <2>1, FitsAbove
  <2> HIDE DEF FramePCs, LoopPCs
  <2> QED BY <2>1, <2>2, GoMoves
<1>10. CASE EnterRun \/ LeaveRun
  BY <1>10 DEF Moves
<1>11. CASE ReloadWorkQueue \/ AddToDelayedWorkQueue \/ CodePost \/ PostQuitMessage \/ InputArrives \/ Tick
  BY <1>11 DEF ReloadWorkQueue, AddToDelayedWorkQueue, CodePost, PostQuitMessage, InputArrives, Tick, Quiet,
     Moves, Stays
<1>12. ASSUME NEW r \in Posters, Post(r) \/ PosterStep(r) PROVE Moves
  BY <1>12 DEF Post, PosterStep, Exchange, PostHaveWork, Moves, Stays
<1> QED
  BY <1>1, <1>2, <1>3, <1>4, <1>5, <1>6, <1>7, <1>8, <1>9, <1>10, <1>11, <1>12
  DEF Next, PumpStep, ModalStep

-----------------------------------------------------------------------------
(* Which actions change what. *)
LEMMA Changes ==
  ASSUME Next
  PROVE  /\ UNCHANGED incoming_queue_ \/ ReloadWorkQueue \/ CodePost \/ \E p \in Posters : Post(p)
         /\ UNCHANGED work_queue_ \/ ReloadWorkQueue \/ AddToDelayedWorkQueue \/ DoWorkRun
         /\ UNCHANGED delayed_work_queue_ \/ AddToDelayedWorkQueue \/ DoDelayedWorkDue
         /\ UNCHANGED next_delayed_task_sequence_num_ \/ AddToDelayedWorkQueue
         /\ UNCHANGED nestable_tasks_allowed_ \/ DoWorkRun \/ DoDelayedWorkDue \/ AllowNesting \/ CodeReturns
         /\ UNCHANGED state_ \/ EnterRun \/ LeaveRun
         /\ UNCHANGED os_modal_loop_ \/ LeaveModal \/ \E announced \in BOOLEAN : EnterModal(announced)
         /\ UNCHANGED <<input, quit_msg, should_quit>> \/ PeekOther \/ Replace \/ ModalOther \/ InputArrives
           \/ PostQuitMessage
         /\ UNCHANGED timer \/ PeekOther \/ Replace \/ ModalOther \/ AddToDelayedWorkQueue \/ Rearm \/ KillTimer
         /\ UNCHANGED delayed_work_time_ \/ AddToDelayedWorkQueue \/ DoDelayedWorkNone \/ DoDelayedWorkLater
           \/ DoDelayedWorkDue \/ Rearm
         /\ UNCHANGED have_work_ \/ ReplaceNothing \/ Replace \/ ModalHaveWork \/ WorkAgain \/ CodePost
           \/ AllowNesting \/ \E p \in Posters : Exchange(p)
         /\ UNCHANGED have_msg \/ PeekHaveWork \/ Replace \/ ModalHaveWork \/ WorkAgain \/ CodePost
           \/ AllowNesting \/ \E p \in Posters : PostHaveWork(p)
         /\ UNCHANGED poster_ \/ Replace \/ \E p \in Posters : Post(p) \/ PosterStep(p)
         /\ UNCHANGED inputs \/ InputArrives
         /\ UNCHANGED posted \/ CodePost \/ \E p \in Posters : Post(p)
         /\ UNCHANGED done \/ CodeReturns
<1> USE Zenon DEF
    Next, PumpStep, ModalStep, PosterStep, Quiet, msgs, tasks, count, PeekNothing, PeekHaveWork,
    PeekOther, ReplaceNothing, Replace, DoWorkNone, ReloadWorkQueue, AddToDelayedWorkQueue,
    DoWorkRun, WorkAgain, DoDelayedWorkNone, DoDelayedWorkLater, DoDelayedWorkDue, Rearm,
    KillTimer, Wait, Wake, WaitMessage, EnterRun, LeaveRun, ModalHaveWork, ModalOther, ModalQuit,
    ModalEnds, LeaveModal, MouseInChild, EnterModal, CodePost, PostQuitMessage, AllowNesting,
    CodeReturns, Post, Exchange, PostHaveWork, InputArrives, Tick
<1>1. UNCHANGED incoming_queue_ \/ ReloadWorkQueue \/ CodePost \/ \E p \in Posters : Post(p)
  OBVIOUS
<1>2. UNCHANGED work_queue_ \/ ReloadWorkQueue \/ AddToDelayedWorkQueue \/ DoWorkRun
  OBVIOUS
<1>3. UNCHANGED delayed_work_queue_ \/ AddToDelayedWorkQueue \/ DoDelayedWorkDue
  OBVIOUS
<1>4. UNCHANGED next_delayed_task_sequence_num_ \/ AddToDelayedWorkQueue
  OBVIOUS
<1>5. UNCHANGED nestable_tasks_allowed_ \/ DoWorkRun \/ DoDelayedWorkDue \/ AllowNesting \/ CodeReturns
  OBVIOUS
<1>6. UNCHANGED state_ \/ EnterRun \/ LeaveRun
  OBVIOUS
<1>7. UNCHANGED os_modal_loop_ \/ LeaveModal \/ \E announced \in BOOLEAN : EnterModal(announced)
  OBVIOUS
<1>8. UNCHANGED <<input, quit_msg, should_quit>> \/ PeekOther \/ Replace \/ ModalOther \/ InputArrives
     \/ PostQuitMessage
  OBVIOUS
<1>9. UNCHANGED timer \/ PeekOther \/ Replace \/ ModalOther \/ AddToDelayedWorkQueue \/ Rearm \/ KillTimer
  OBVIOUS
<1>10. UNCHANGED delayed_work_time_ \/ AddToDelayedWorkQueue \/ DoDelayedWorkNone \/ DoDelayedWorkLater
     \/ DoDelayedWorkDue \/ Rearm
  OBVIOUS
<1>11. UNCHANGED have_work_ \/ ReplaceNothing \/ Replace \/ ModalHaveWork \/ WorkAgain \/ CodePost
     \/ AllowNesting \/ \E p \in Posters : Exchange(p)
  OBVIOUS
<1>12. UNCHANGED have_msg \/ PeekHaveWork \/ Replace \/ ModalHaveWork \/ WorkAgain \/ CodePost
     \/ AllowNesting \/ \E p \in Posters : PostHaveWork(p)
  OBVIOUS
<1>13. UNCHANGED poster_ \/ Replace \/ \E p \in Posters : Post(p) \/ PosterStep(p)
  OBVIOUS
<1>14. UNCHANGED inputs \/ InputArrives
  OBVIOUS
<1>15. UNCHANGED posted \/ CodePost \/ \E p \in Posters : Post(p)
  OBVIOUS
<1>16. UNCHANGED done \/ CodeReturns
  OBVIOUS
<1> QED BY ONLY <1>1, <1>2, <1>3, <1>4, <1>5, <1>6, <1>7, <1>8, <1>9, <1>10, <1>11, <1>12, <1>13, <1>14, <1>15, <1>16

-----------------------------------------------------------------------------
(* Each part of the invariant is preserved *)

LEMMA StackStep == ASSUME TypeOK, StackInv, Next PROVE StackOK' /\ StackInv'
<1>0. StackOK /\ MsgsOK
  BY TypeParts
<1>1. CASE Stays
  BY <1>0, <1>1 DEF Stays, StackOK, StackInv
<1>2. CASE EnterRun
  <2>1. stack' = <<Frame("peek")>> /\ state_' = "run"
    BY <1>2 DEF EnterRun
  <2>2. Frame("peek") \in FrameSet /\ Frame("peek").at = "peek"
    BY FrameType DEF FramePCs, LoopPCs
  <2>3. stack' \in Seq(FrameSet) /\ Len(stack') = 1 /\ stack'[1].at = "peek"
    BY <2>1, <2>2
  <2> QED BY <2>1, <2>3 DEF StackOK, StackInv, LoopPCs
<1>3. CASE LeaveRun
  BY <1>3 DEF LeaveRun, StackOK, StackInv
<1>4. ASSUME NEW p \in FramePCs, NEW more \in BOOLEAN, Goes(p, more) PROVE StackOK' /\ StackInv'
  <2>0. PICK n \in Nat \ {0} : Len(stack) = n
    BY <1>0, <1>4, TopFrame DEF Goes, StackOK
  <2>1. /\ DOMAIN stack' = 1..n /\ DOMAIN stack = 1..n /\ Len(stack') = n /\ stack' \in Seq(FrameSet)
        /\ state_ = "run" /\ state_' = "run"
    BY <1>0, <1>4, <2>0 DEF Goes, StackOK
  <2>2. stack[1].at \in LoopPCs /\ \A i \in 2..n : stack[i].at \notin LoopPCs \ {"replace"}
    BY <2>0, <2>1 DEF StackInv
  <2>3. \A i \in 1..(n - 1) : stack'[i] = stack[i]
    BY <1>4, <2>0 DEF Goes, Same
  <2>4. /\ stack'[n].at = p /\ stack'[n].id = stack[n].id
        /\ (p = "task" => stack[n].at = "task")
    BY <1>4, <2>0 DEF Goes, Becomes, Top
  <2>5. IF n = 1 THEN p \in LoopPCs ELSE p \notin LoopPCs \ {"replace"}
    BY <1>4, <2>0 DEF Goes, Fits
  <2>6. \A i \in 1..n : i = n \/ i \in 1..(n - 1)
    OBVIOUS
  <2>7. stack'[1].at \in LoopPCs
    BY <2>2, <2>3, <2>4, <2>5, <2>6
  <2>8. ASSUME NEW i \in 2..n PROVE stack'[i].at \notin LoopPCs \ {"replace"}
    BY <2>2, <2>3, <2>4, <2>5, <2>6
  <2>9. ASSUME NEW i \in 1..n, stack'[i].at = "task" PROVE stack'[i].id \in 1..MaxPosts
    <3>1. stack[i].at = "task" /\ stack'[i].id = stack[i].id
      BY <2>3, <2>4, <2>6, <2>9
    <3> QED BY <2>1, <3>1 DEF StackInv
  <2>10. stack' # <<>>
    BY <2>1
  <2> QED BY <2>1, <2>7, <2>8, <2>9, <2>10 DEF StackOK, StackInv
<1>5. ASSUME NEW p \in FramePCs, NEW more \in BOOLEAN, NEW f \in FrameSet, Calls(p, more, f)
      PROVE  StackOK' /\ StackInv'
  <2>0. PICK n \in Nat \ {0} : Len(stack) = n
    BY <1>0, <1>5, TopFrame DEF Calls, StackOK
  <2>1. /\ DOMAIN stack' = 1..(n + 1) /\ DOMAIN stack = 1..n /\ Len(stack') = n + 1
        /\ stack' \in Seq(FrameSet) /\ state_ = "run" /\ state_' = "run"
    BY <1>0, <1>5, <2>0 DEF Calls, StackOK
  <2>2. stack[1].at \in LoopPCs /\ \A i \in 2..n : stack[i].at \notin LoopPCs \ {"replace"}
    BY <2>0, <2>1 DEF StackInv
  <2>3. \A i \in 1..(n - 1) : stack'[i] = stack[i]
    BY <1>5, <2>0 DEF Calls, Same
  <2>4. stack'[n].at = p /\ p # "task" /\ stack'[n + 1] = f
    BY <1>5, <2>0 DEF Calls, Becomes
  <2>5. IF n = 1 THEN p \in LoopPCs ELSE p \notin LoopPCs \ {"replace"}
    BY <1>5, <2>0 DEF Calls, Fits
  <2>6. f.at \notin LoopPCs /\ (f.at = "task" => f.id \in 1..MaxPosts)
    BY <1>5 DEF Calls, LoopPCs
  <2>7. \A i \in 1..(n + 1) : i = n + 1 \/ i = n \/ i \in 1..(n - 1)
    OBVIOUS
  <2>8. stack'[1].at \in LoopPCs
    BY <2>2, <2>3, <2>4, <2>5, <2>7
  <2>9. ASSUME NEW i \in 2..(n + 1) PROVE stack'[i].at \notin LoopPCs \ {"replace"}
    BY <2>2, <2>3, <2>4, <2>5, <2>6, <2>7
  <2>10. ASSUME NEW i \in 1..(n + 1), stack'[i].at = "task" PROVE stack'[i].id \in 1..MaxPosts
    <3>1. CASE i = n + 1
      BY <2>4, <2>6, <2>10, <3>1
    <3>2. CASE i # n + 1
      <4>1. i \in 1..(n - 1) /\ stack'[i] = stack[i]
        BY <2>3, <2>4, <2>7, <2>10, <3>2
      <4> QED BY <2>1, <2>10, <4>1 DEF StackInv
    <3> QED BY <3>1, <3>2
  <2>11. stack' # <<>>
    BY <2>1
  <2> QED BY <2>1, <2>8, <2>9, <2>10, <2>11 DEF StackOK, StackInv
<1>6. CASE Returns
  <2>1. /\ DOMAIN stack' = 1..(Len(stack) - 1) /\ DOMAIN stack = 1..Len(stack) /\ Len(stack) \in Nat
        /\ Len(stack') = Len(stack) - 1 /\ stack' \in Seq(FrameSet) /\ state_' = state_
    BY <1>0, <1>6 DEF Returns, StackOK
  <2>2. \A i \in DOMAIN stack' : i \in DOMAIN stack /\ stack'[i] = stack[i]
    BY <1>6, <2>1 DEF Returns, Same
  <2>3. state_ # "none" => Len(stack) > 1 /\ state_ # "left"
    <3>1. state_ # "none" => Len(stack) > 1
      BY <1>6 DEF Returns
    <3>2. state_ = "left" => Len(stack) = 0
      BY DEF StackInv
    <3> QED BY <2>1, <3>1, <3>2
  <2>4. CASE state_ = "none"
    BY <2>1, <2>2, <2>4 DEF StackOK, StackInv
  <2>5. CASE state_ = "run"
    <3>1. Len(stack') \in Nat \ {0} /\ stack' # <<>> /\ 1 \in DOMAIN stack'
      BY <2>1, <2>3, <2>5
    <3>2. \A i \in 2..Len(stack') : i \in 2..Len(stack) /\ stack'[i] = stack[i]
      BY <2>1, <2>2
    <3> QED BY <2>1, <2>2, <2>5, <3>1, <3>2 DEF StackOK, StackInv
  <2> QED BY <1>0, <2>3, <2>4, <2>5 DEF MsgsOK
<1>7. ASSUME NEW f \in FrameSet, IsAbove(f) PROVE StackOK' /\ StackInv'
  <2>1. /\ DOMAIN stack' = 1..(Len(stack) + 1) /\ DOMAIN stack = 1..Len(stack) /\ Len(stack) \in Nat
        /\ Len(stack') = Len(stack) + 1 /\ stack' \in Seq(FrameSet) /\ state_' = state_
    BY <1>0, <1>7 DEF IsAbove, StackOK
  <2>2. (\A i \in DOMAIN stack : stack'[i] = stack[i]) /\ stack'[Len(stack) + 1] = f
    BY <1>7, <2>1 DEF IsAbove, Same
  <2>3. /\ f.at \in {"modal", "handler"} \/ (f.at \in {"replace", "timer"} /\ state_ = "run")
        /\ state_ = "none" \/ (state_ = "run" /\ Len(stack) \in Nat \ {0})
    BY <1>0, <1>7, TopFrame DEF IsAbove, StackOK
  <2>4. \A i \in DOMAIN stack' : i \in DOMAIN stack \/ i = Len(stack) + 1
    BY <2>1
  <2>5. stack' # <<>> /\ (state_ = "run" => 1 \in DOMAIN stack)
    BY <2>1, <2>3
  <2>6. \A i \in 2..Len(stack') : i \in 2..Len(stack) \/ i = Len(stack) + 1
    BY <2>1
  <2>7. \A i \in 2..Len(stack) : i \in DOMAIN stack
    BY <2>1
  <2> QED BY <2>1, <2>2, <2>3, <2>4, <2>5, <2>6, <2>7 DEF StackOK, StackInv, LoopPCs
<1> QED BY <1>1, <1>2, <1>3, <1>4, <1>5, <1>6, <1>7, StepMoves DEF Moves

LEMMA NestStep == ASSUME TypeOK, StackInv, NestInv, Next PROVE NestInv'
<1>0. StackOK /\ MsgsOK
  BY TypeParts
<1> SUFFICES ASSUME ~nestable_tasks_allowed_' PROVE \E i \in DOMAIN stack' : stack'[i].at = "task"
  BY DEF NestInv
<1>1. CASE Stays
  BY <1>1 DEF Stays, NestInv
<1>2. CASE EnterRun \/ LeaveRun
  <2>1. UNCHANGED nestable_tasks_allowed_
    BY <1>2 DEF EnterRun, LeaveRun
  <2>2. PICK i \in DOMAIN stack : stack[i].at = "task"
    BY <2>1 DEF NestInv
  <2>3. LeaveRun /\ Len(stack) = 1
    BY <1>2, <2>2 DEF EnterRun, LeaveRun, InLoop
  <2>4. i = 1 /\ state_ = "run"
    BY <1>0, <2>2, <2>3 DEF StackOK, LeaveRun, InLoop
  <2> QED BY <2>2, <2>4 DEF StackInv, LoopPCs
<1>3. ASSUME NEW p \in FramePCs, NEW more \in BOOLEAN, Goes(p, more)
      PROVE  \E i \in DOMAIN stack' : stack'[i].at = "task"
  <2>1. PICK i \in DOMAIN stack : stack[i].at = "task"
    BY <1>3 DEF Goes, NestInv
  <2>2. i \in DOMAIN stack' /\ (i # Len(stack) => i \in 1..(Len(stack) - 1))
    BY <1>0, <1>3, <2>1 DEF Goes, StackOK
  <2>3. stack'[i].at = "task"
    BY <1>3, <2>1, <2>2 DEF Goes, Same, Becomes, Top
  <2> QED BY <2>2, <2>3
<1>4. ASSUME NEW p \in FramePCs, NEW more \in BOOLEAN, NEW f \in FrameSet, Calls(p, more, f)
      PROVE  \E i \in DOMAIN stack' : stack'[i].at = "task"
  <2>0. Len(stack) \in Nat /\ DOMAIN stack = 1..Len(stack) /\ DOMAIN stack' = 1..(Len(stack) + 1)
    BY <1>0, <1>4 DEF Calls, StackOK
  <2>1. CASE f.at = "task"
    <3>1. Len(stack) + 1 \in DOMAIN stack'
      BY <2>0
    <3> QED BY <1>4, <2>1, <3>1 DEF Calls
  <2>2. CASE f.at # "task"
    <3>1. PICK i \in DOMAIN stack : stack[i].at = "task"
      BY <1>4, <2>2 DEF Calls, NestInv
    <3>2. i # Len(stack)
      BY <1>4, <3>1 DEF Calls, Top
    <3>3. i \in DOMAIN stack' /\ i \in 1..(Len(stack) - 1)
      BY <2>0, <3>1, <3>2
    <3> QED BY <1>4, <3>1, <3>3 DEF Calls, Same
  <2> QED BY <2>1, <2>2
<1>5. CASE Returns
  <2>0. Len(stack) \in Nat /\ DOMAIN stack = 1..Len(stack) /\ DOMAIN stack' = 1..(Len(stack) - 1)
    BY <1>0, <1>5 DEF Returns, StackOK
  <2>1. Top.at # "task" /\ ~nestable_tasks_allowed_
    BY <1>5 DEF Returns
  <2>2. PICK i \in DOMAIN stack : stack[i].at = "task"
    BY <2>1 DEF NestInv
  <2>3. i # Len(stack)
    BY <2>1, <2>2 DEF Top
  <2>4. i \in DOMAIN stack'
    BY <2>0, <2>2, <2>3
  <2> QED BY <1>5, <2>0, <2>2, <2>4 DEF Returns, Same
<1>6. ASSUME NEW f \in FrameSet, IsAbove(f) PROVE \E i \in DOMAIN stack' : stack'[i].at = "task"
  <2>1. PICK i \in DOMAIN stack : stack[i].at = "task"
    BY <1>6 DEF IsAbove, NestInv
  <2>2. i \in DOMAIN stack' /\ i \in 1..Len(stack)
    BY <1>0, <1>6, <2>1 DEF IsAbove, StackOK
  <2> QED BY <1>6, <2>1, <2>2 DEF IsAbove, Same
<1> QED BY <1>1, <1>2, <1>3, <1>4, <1>5, <1>6, StepMoves DEF Moves

LEMMA PushType ==
  ASSUME QueuesOK, CountOK, Push
  PROVE  incoming_queue_' \in Seq(Task) /\ posted' \in 0..MaxPosts
<1>1. PICK d \in Delays :
        /\ now + d <= MaxTime
        /\ incoming_queue_' = Append(incoming_queue_,
             [id |-> posted + 1, time |-> IF d = 0 THEN 0 ELSE now + d, seq |-> 0])
  BY DEF Push
<1>2. posted + 1 \in 1..MaxPosts /\ posted' = posted + 1
  BY BoundsAssumption DEF Push, CountOK
<1>3. (IF d = 0 THEN 0 ELSE now + d) \in 0..MaxTime
  BY <1>1, BoundsAssumption, DelaysAssumption DEF CountOK
<1>4. [id |-> posted + 1, time |-> IF d = 0 THEN 0 ELSE now + d, seq |-> 0] \in Task
  BY <1>2, <1>3 DEF Task
<1>5. posted' \in 0..MaxPosts
  BY <1>2, BoundsAssumption
<1> QED BY <1>1, <1>4, <1>5 DEF QueuesOK

LEMMA QueuesStep == ASSUME QueuesOK, CountOK, Next PROVE QueuesOK'
<1>1. CASE Push /\ UNCHANGED <<work_queue_, delayed_work_queue_, next_delayed_task_sequence_num_>>
  BY <1>1, PushType DEF QueuesOK
<1>2. CASE ReloadWorkQueue
  BY <1>2 DEF ReloadWorkQueue, QueuesOK
<1>3. CASE AddToDelayedWorkQueue
  <2> DEFINE t == Head(work_queue_)
             u == [t EXCEPT !.seq = next_delayed_task_sequence_num_]
  <2>1. t \in Task /\ Tail(work_queue_) \in Seq(Task)
    BY <1>3 DEF AddToDelayedWorkQueue, QueuesOK
  <2>2. u \in Task
    BY <2>1 DEF Task, QueuesOK
  <2>3. /\ delayed_work_queue_' = delayed_work_queue_ \cup {u} /\ incoming_queue_' = incoming_queue_
        /\ work_queue_' = Tail(work_queue_)
        /\ next_delayed_task_sequence_num_' = next_delayed_task_sequence_num_ + 1
    BY <1>3 DEF AddToDelayedWorkQueue
  <2> HIDE DEF t, u
  <2> QED BY <2>1, <2>2, <2>3 DEF QueuesOK
<1>4. CASE DoWorkRun
  BY <1>4 DEF DoWorkRun, QueuesOK
<1>5. CASE DoDelayedWorkDue
  <2>1. delayed_work_queue_' \subseteq delayed_work_queue_
        /\ UNCHANGED <<incoming_queue_, work_queue_, next_delayed_task_sequence_num_>>
    BY <1>5 DEF DoDelayedWorkDue
  <2> QED BY <2>1 DEF QueuesOK
<1>6. CASE UNCHANGED tasks
  BY <1>6 DEF QueuesOK, tasks
<1>7. CASE PumpStep
  BY <1>2, <1>3, <1>4, <1>5, <1>6, <1>7 DEF PumpStep, PeekNothing, PeekHaveWork, PeekOther, ReplaceNothing,
     Replace, DoWorkNone, WorkAgain, DoDelayedWorkNone, DoDelayedWorkLater, Rearm, KillTimer, Wait,
     Wake, WaitMessage, EnterRun, LeaveRun
<1>8. CASE ModalStep \/ ModalEnds \/ MouseInChild \/ PostQuitMessage \/ AllowNesting \/ CodeReturns
           \/ InputArrives \/ Tick
  BY <1>6, <1>8 DEF ModalStep, ModalHaveWork, ModalOther, ModalQuit, ModalEnds, LeaveModal, MouseInChild,
     PostQuitMessage, AllowNesting, CodeReturns, InputArrives, Tick
<1>9. ASSUME NEW p \in Posters, Post(p) \/ PosterStep(p) PROVE QueuesOK'
  BY <1>1, <1>6, <1>9 DEF Post, PosterStep, Exchange, PostHaveWork
<1>10. CASE CodePost
  BY <1>1, <1>10 DEF CodePost
<1>11. ASSUME NEW announced \in BOOLEAN, EnterModal(announced) PROVE QueuesOK'
  BY <1>6, <1>11 DEF EnterModal
<1> QED BY <1>7, <1>8, <1>9, <1>10, <1>11 DEF Next

LEMMA CountStep == ASSUME TypeOK, StackInv, Next PROVE CountOK'
<1>0. QueuesOK /\ MsgsOK /\ StackOK /\ CountOK
  BY TypeParts
<1>1. CASE Push /\ UNCHANGED <<poster_, now, done, inputs, modals>>
  BY <1>0, <1>1, PushType DEF CountOK
<1>2. ASSUME NEW p \in Posters, Post(p) \/ PosterStep(p) PROVE CountOK'
  <2>1. poster_' \in [Posters -> {"idle", "exchange", "post"}]
    BY <1>0, <1>2 DEF Post, PosterStep, Exchange, PostHaveWork, CountOK
  <2>2. posted' \in 0..MaxPosts
    BY <1>0, <1>2, PushType DEF Post, PosterStep, Exchange, PostHaveWork, CountOK, count
  <2>3. UNCHANGED <<now, done, inputs, modals>>
    BY <1>2 DEF Post, PosterStep, Exchange, PostHaveWork, count
  <2> QED BY <1>0, <2>1, <2>2, <2>3 DEF CountOK
<1>3. CASE Replace
  BY <1>0, <1>3 DEF Replace, Reschedule, CountOK, count
<1>4. CASE CodePost
  BY <1>1, <1>4 DEF CodePost, Quiet
<1>5. CASE CodeReturns
  <2>1. At("task") => Top.id \in 1..MaxPosts
    <3> SUFFICES ASSUME At("task") PROVE Top.id \in 1..MaxPosts
      OBVIOUS
    <3>1. Top = stack[Len(stack)] /\ Top.at = "task" /\ Len(stack) \in Nat \ {0}
      BY <1>0, Where
    <3>2. Len(stack) \in DOMAIN stack
      BY <1>0, <3>1 DEF StackOK
    <3> QED BY <3>1, <3>2 DEF StackInv
  <2> QED BY <1>0, <1>5, <2>1 DEF CodeReturns, CountOK, count, Quiet
<1>6. ASSUME NEW announced \in BOOLEAN, EnterModal(announced) PROVE CountOK'
  BY <1>0, <1>6, BoundsAssumption DEF EnterModal, CountOK
<1>7. CASE InputArrives \/ Tick
  <2>1. CASE InputArrives
    <3>1. inputs' \in 0..MaxInputs
      BY <1>0, <2>1, BoundsAssumption DEF InputArrives, CountOK
    <3>2. UNCHANGED <<poster_, now, posted, done, modals>>
      BY <2>1 DEF InputArrives, Quiet
    <3> QED BY <1>0, <3>1, <3>2 DEF CountOK
  <2>2. CASE Tick
    <3>1. now' \in 1..MaxTime
      BY <1>0, <2>2, BoundsAssumption DEF Tick, CountOK
    <3>2. UNCHANGED <<poster_, inputs, posted, done, modals>>
      BY <2>2 DEF Tick, Quiet
    <3> QED BY <1>0, <3>1, <3>2 DEF CountOK
  <2> QED BY <1>7, <2>1, <2>2
<1>8. CASE UNCHANGED <<poster_, done, count>>
  BY <1>0, <1>8 DEF CountOK, count
<1>9. CASE PumpStep
  BY <1>3, <1>8, <1>9 DEF PumpStep, PeekNothing, PeekHaveWork, PeekOther, ReplaceNothing, DoWorkNone,
     ReloadWorkQueue, AddToDelayedWorkQueue, DoWorkRun, WorkAgain, DoDelayedWorkNone, DoDelayedWorkLater,
     DoDelayedWorkDue, Rearm, KillTimer, Wait, Wake, WaitMessage, EnterRun, LeaveRun, Quiet
<1>10. CASE ModalStep \/ ModalEnds \/ MouseInChild \/ PostQuitMessage \/ AllowNesting
  BY <1>8, <1>10 DEF ModalStep, ModalHaveWork, ModalOther, ModalQuit, ModalEnds, LeaveModal, MouseInChild,
     PostQuitMessage, AllowNesting, Quiet
<1> QED BY <1>2, <1>4, <1>5, <1>6, <1>7, <1>9, <1>10 DEF Next

(* The messages: kMsgHaveWork, WM_TIMER, and the others. *)
LEMMA ScheduleType ==
  ASSUME MsgsOK, CountOK, NEW t \in 0..MaxTime, ScheduleDelayedWork(t)
  PROVE  delayed_work_time_' \in 0..MaxTime /\ timer' \in Nat
BY BoundsAssumption DEF CountOK, ScheduleDelayedWork

(* What processing a message does: of input it takes one, and the timer    *)
(* may be off after it.                                                    *)
LEMMA MessageTaken ==
  ASSUME PeekOther \/ Replace \/ ModalOther
  PROVE  /\ UNCHANGED quit_msg /\ (UNCHANGED should_quit \/ should_quit' = TRUE)
         /\ UNCHANGED input \/ (input > 0 /\ input' = input - 1)
         /\ UNCHANGED timer \/ timer' = 0
<1>1. ASSUME NEW p, NEW timerToo, ProcessMessageHelper(p, timerToo)
      PROVE  /\ UNCHANGED quit_msg /\ (UNCHANGED should_quit \/ should_quit' = TRUE)
             /\ UNCHANGED input \/ (input > 0 /\ input' = input - 1)
             /\ UNCHANGED timer \/ timer' = 0
  BY <1>1, Zenon DEF ProcessMessageHelper, Dispatch, TakeInput, TakeTimer, TakeQuit
<1>2. CASE PeekOther
  <2>1. ProcessMessageHelper("work", TimerIsFirst)
    BY <1>2 DEF PeekOther
  <2> QED BY <1>1, <2>1
<1>3. CASE Replace
  <2>1. ProcessMessageHelper(AfterReplace, os_modal_loop_ \/ TimerIsFirst)
    BY <1>3 DEF Replace, PeekReplacement
  <2> QED BY <1>1, <2>1
<1>4. CASE ModalOther
  BY <1>4, Zenon DEF ModalOther, Quiet, TakeInput, TakeTimer
<1> QED BY <1>2, <1>3, <1>4

LEMMA MsgsStep == ASSUME TypeOK, StackInv, InputInv, Next PROVE MsgsOK' /\ InputInv'
<1>0. QueuesOK /\ MsgsOK /\ StackOK /\ CountOK /\ CountOK'
  BY TypeParts, CountStep
<1>1. have_work_' \in {0, 1}
  <2>1. CASE UNCHANGED have_work_
    BY <1>0, <2>1 DEF MsgsOK
  <2>2. CASE ReplaceNothing \/ Replace \/ ModalHaveWork \/ WorkAgain \/ CodePost \/ AllowNesting
             \/ \E p \in Posters : Exchange(p)
    BY <1>0, <2>2 DEF ReplaceNothing, Replace, Reschedule, ModalHaveWork, WorkAgain, ScheduleWork, CodePost,
       AllowNesting, Exchange, MsgsOK
  <2> QED BY <2>1, <2>2, Changes, Zenon
<1>2. have_msg' \in Nat
  <2>1. CASE UNCHANGED have_msg
    BY <1>0, <2>1 DEF MsgsOK
  <2>2. CASE PeekHaveWork \/ ModalHaveWork
    <3>1. have_msg > 0 /\ have_msg' = have_msg - 1
      BY <2>2, Zenon DEF PeekHaveWork, ModalHaveWork
    <3> QED BY <1>0, <3>1 DEF MsgsOK
  <2>3. CASE have_msg' = have_msg + (1 - have_work_) \/ have_msg' = have_msg + 1
    BY <1>0, <2>3 DEF MsgsOK
  <2>4. CASE Replace \/ WorkAgain \/ CodePost \/ AllowNesting \/ \E p \in Posters : PostHaveWork(p)
    BY <2>1, <2>3, <2>4 DEF Replace, Reschedule, WorkAgain, CodePost, AllowNesting, ScheduleWork, PostHaveWork
  <2> QED BY <2>1, <2>2, <2>4, Changes, Zenon
<1>3. /\ input' \in 0..MaxInputs /\ input' <= inputs'
      /\ quit_msg' \in BOOLEAN /\ should_quit' \in BOOLEAN
  <2>1. input \in Nat /\ inputs \in Nat /\ input <= inputs /\ input \in 0..MaxInputs /\ inputs \in 0..MaxInputs
        /\ inputs' \in 0..MaxInputs /\ MaxInputs \in Nat
    BY <1>0, BoundsAssumption DEF MsgsOK, CountOK, InputInv
  <2>2. CASE InputArrives
    <3>1. input' = input + 1 /\ inputs' = inputs + 1 /\ UNCHANGED <<quit_msg, should_quit>>
      BY <2>2 DEF InputArrives, Quiet
    <3> QED BY <1>0, <2>1, <3>1 DEF MsgsOK
  <2>3. ~InputArrives => inputs' = inputs
    BY Changes, Zenon
  <2>4. CASE PeekOther \/ Replace \/ ModalOther
    <3>1. UNCHANGED quit_msg /\ (UNCHANGED should_quit \/ should_quit' = TRUE)
      BY <2>4, MessageTaken
    <3>2. UNCHANGED input \/ (input > 0 /\ input' = input - 1)
      BY <2>4, MessageTaken
    <3>3. inputs' = inputs
      BY <2>4, Zenon DEF PeekOther, Replace, ModalOther, count
    <3>4. input' \in 0..MaxInputs /\ input' <= inputs'
      BY <2>1, <3>2, <3>3
    <3>5. quit_msg' \in BOOLEAN /\ should_quit' \in BOOLEAN
      BY <1>0, <3>1, Zenon DEF MsgsOK
    <3> QED BY <3>4, <3>5
  <2>5. CASE PostQuitMessage
    BY <1>0, <2>1, <2>5 DEF PostQuitMessage, count, Quiet, MsgsOK
  <2>6. CASE ~InputArrives /\ UNCHANGED <<input, quit_msg, should_quit>>
    BY <1>0, <2>1, <2>3, <2>6 DEF MsgsOK
  <2> QED BY <2>2, <2>4, <2>5, <2>6, Changes, Zenon
<1>4. delayed_work_time_' \in 0..MaxTime /\ timer' \in Nat
  <2>1. CASE AddToDelayedWorkQueue
    <3>1. Head(work_queue_) \in Task
      BY <1>0, <2>1 DEF AddToDelayedWorkQueue, QueuesOK
    <3>2. Head(work_queue_).time \in 0..MaxTime
      BY <3>1 DEF Task
    <3>3. ScheduleDelayedWork(Head(work_queue_).time) \/ UNCHANGED <<delayed_work_time_, timer>>
      BY <2>1 DEF AddToDelayedWorkQueue
    <3>4. CASE ScheduleDelayedWork(Head(work_queue_).time)
      BY <1>0, <3>2, <3>4, ScheduleType
    <3> QED BY <1>0, <3>3, <3>4 DEF MsgsOK
  <2>2. CASE Rearm
    <3>1. CASE ScheduleDelayedWork(delayed_work_time_)
      BY <1>0, <3>1, ScheduleType DEF MsgsOK
    <3> QED BY <1>0, <2>2, <3>1 DEF Rearm, MsgsOK
  <2>3. delayed_work_time_' \in 0..MaxTime
    <3>1. CASE DoDelayedWorkNone \/ DoDelayedWorkLater \/ DoDelayedWorkDue
      <4>1. \/ delayed_work_time_' = 0 \/ UNCHANGED delayed_work_time_
            \/ \E t \in delayed_work_queue_ : delayed_work_time_' = t.time
        BY <3>1 DEF DoDelayedWorkNone, DoDelayedWorkLater, DoDelayedWorkDue
      <4> QED BY <1>0, <4>1, BoundsAssumption DEF QueuesOK, Task, MsgsOK
    <3>2. CASE UNCHANGED delayed_work_time_
      BY <1>0, <3>2 DEF MsgsOK
    <3> QED BY <2>1, <2>2, <3>1, <3>2, Changes, Zenon
  <2>4. timer' \in Nat
    <3>1. CASE UNCHANGED timer \/ timer' = 0
      BY <1>0, <3>1 DEF MsgsOK
    <3>2. CASE KillTimer
      BY <3>1, <3>2 DEF KillTimer
    <3> QED BY <2>1, <2>2, <3>1, <3>2, Changes, MessageTaken, Zenon
  <2> QED BY <2>3, <2>4
<1>5. nestable_tasks_allowed_' \in BOOLEAN
  BY <1>0, Changes, Zenon DEF DoWorkRun, DoDelayedWorkDue, RunTask, AllowNesting, CodeReturns, MsgsOK
<1>6. os_modal_loop_' \in BOOLEAN
  BY <1>0, Changes, Zenon DEF LeaveModal, EnterModal, MsgsOK
<1>7. state_' \in {"none", "run", "left"}
  BY <1>0, Changes, Zenon DEF EnterRun, LeaveRun, MsgsOK
<1> QED BY <1>1, <1>2, <1>3, <1>4, <1>5, <1>6, <1>7 DEF MsgsOK, InputInv

-----------------------------------------------------------------------------
(* kMsgHaveWork is one *)

Posting == {p \in Posters : poster_[p] = "post"}

(* What a move does to the frames that replace. *)
LEMMA ReplacingStays ==
  ASSUME TypeOK, StackInv, Next, ~Replaces PROVE Replacing' = Replacing
<1>0. StackOK /\ MsgsOK
  BY TypeParts
<1>1. CASE Stays
  BY <1>1 DEF Stays, Replacing
<1>2. CASE EnterRun
  <2>1. stack = <<>> /\ stack' = <<Frame("peek")>> /\ Frame("peek").at = "peek"
    BY <1>2 DEF EnterRun, Frame
  <2>2. DOMAIN stack = {} /\ DOMAIN stack' = 1..1 /\ stack'[1].at = "peek"
    BY <2>1
  <2> QED BY <2>2 DEF Replacing
<1>3. CASE LeaveRun
  <2>1. /\ At("work") \/ At("delayed")
        /\ stack' = <<>> /\ Len(stack) = 1
    BY <1>3 DEF LeaveRun, InLoop
  <2>2. DOMAIN stack = 1..1 /\ stack[1].at \in {"work", "delayed"} /\ DOMAIN stack' = {}
    BY <1>0, <2>1 DEF StackOK, At
  <2> QED BY <2>2 DEF Replacing
<1>4. ASSUME NEW p \in FramePCs, NEW more \in BOOLEAN, Goes(p, more), p # "replace", Top.at # "replace"
      PROVE  Replacing' = Replacing
  <2>0. PICK n \in Nat \ {0} : Len(stack) = n
    BY <1>0, <1>4, TopFrame DEF Goes, StackOK
  <2>1. DOMAIN stack' = 1..n /\ DOMAIN stack = 1..n
    BY <1>0, <1>4, <2>0 DEF Goes, StackOK
  <2>2. \A i \in 1..n : (i = n /\ stack[i].at # "replace" /\ stack'[i].at # "replace") \/ stack'[i] = stack[i]
    <3>1. \A i \in 1..n : i = n \/ i \in 1..(n - 1)
      OBVIOUS
    <3> QED BY <1>4, <2>0, <3>1 DEF Goes, Same, Becomes, Top
  <2> QED BY <2>1, <2>2 DEF Replacing
<1>5. ASSUME NEW p \in FramePCs, NEW more \in BOOLEAN, NEW f \in FrameSet, Calls(p, more, f),
             p # "replace", Top.at # "replace"
      PROVE  Replacing' = Replacing
  <2>0. PICK n \in Nat \ {0} : Len(stack) = n
    BY <1>0, <1>5, TopFrame DEF Calls, StackOK
  <2>1. DOMAIN stack' = 1..(n + 1) /\ DOMAIN stack = 1..n
    BY <1>0, <1>5, <2>0 DEF Calls, StackOK
  <2>2. \A i \in 1..n : (i = n /\ stack[i].at # "replace" /\ stack'[i].at # "replace") \/ stack'[i] = stack[i]
    <3>1. \A i \in 1..n : i = n \/ i \in 1..(n - 1)
      OBVIOUS
    <3> QED BY <1>5, <2>0, <3>1 DEF Calls, Same, Becomes, Top
  <2>3. stack'[n + 1].at # "replace"
    BY <1>5, <2>0 DEF Calls
  <2>4. \A i \in 1..(n + 1) : i = n + 1 \/ i \in 1..n
    OBVIOUS
  <2>5. \A i \in 1..n : i \in 1..(n + 1)
    OBVIOUS
  <2> QED BY <2>1, <2>2, <2>3, <2>4, <2>5 DEF Replacing
<1>6. CASE Returns /\ Top.at # "replace"
  <2>1. Len(stack) \in Nat /\ DOMAIN stack = 1..Len(stack) /\ DOMAIN stack' = 1..(Len(stack) - 1)
    BY <1>0, <1>6 DEF Returns, StackOK
  <2>2. \A i \in DOMAIN stack' : i \in DOMAIN stack /\ stack'[i] = stack[i]
    BY <1>6, <2>1 DEF Returns, Same
  <2>3. \A i \in DOMAIN stack : i \in DOMAIN stack' \/ i = Len(stack)
    BY <2>1
  <2>4. stack[Len(stack)].at # "replace"
    BY <1>6 DEF Top
  <2> QED BY <2>2, <2>3, <2>4 DEF Replacing
<1>7. ASSUME NEW f \in FrameSet, IsAbove(f), f.at # "replace" PROVE Replacing' = Replacing
  <2>1. /\ DOMAIN stack' = 1..(Len(stack) + 1) /\ DOMAIN stack = 1..Len(stack) /\ Len(stack) \in Nat
    BY <1>0, <1>7 DEF IsAbove, StackOK
  <2>2. (\A i \in DOMAIN stack : i \in DOMAIN stack' /\ stack'[i] = stack[i]) /\ stack'[Len(stack) + 1] = f
    BY <1>7, <2>1 DEF IsAbove, Same
  <2>3. \A i \in DOMAIN stack' : i \in DOMAIN stack \/ i = Len(stack) + 1
    BY <2>1
  <2> QED BY <1>7, <2>2, <2>3 DEF Replacing
<1> QED BY <1>1, <1>2, <1>3, <1>4, <1>5, <1>6, <1>7, StepMoves DEF Moves

LEMMA ReplacingEnds ==
  ASSUME TypeOK, StackInv, ReplaceNothing \/ Replace
  PROVE  Len(stack) \in Replacing /\ Replacing' = Replacing \ {Len(stack)}
<1>0. StackOK /\ MsgsOK
  BY TypeParts
<1>1. At("replace")
  BY DEF ReplaceNothing, Replace
<1>2. PICK n \in Nat \ {0} : Len(stack) = n
  BY <1>0, <1>1, Where
<1>3. stack # <<>> /\ stack[n].at = "replace" /\ DOMAIN stack = 1..n
  BY <1>0, <1>1, <1>2 DEF At, StackOK
<1>4. PICK p \in {"work", "do_work"} : p = AfterReplace
  BY DEF AfterReplace
<1> DEFINE Moved ==
      /\ stack' \in Seq(FrameSet) /\ Len(stack') \in {n, n + 1}
      /\ \A i \in 1..(n - 1) : stack'[i] = stack[i]
      /\ stack'[n].at = p /\ (Len(stack') = n + 1 => stack'[n + 1].at # "replace")
<1>5. Moved
  <2>1. \/ To(p, FALSE)
        \/ \E f \in {Frame("handler"), Frame("timer")} : CallThen(p, TRUE, f)
    BY <1>4 DEF ReplaceNothing, Replace, PeekReplacement, ProcessMessageHelper, Dispatch
  <2>2. p \in FramePCs
    BY DEF FramePCs, LoopPCs
  <2>3. CASE To(p, FALSE)
    <3>1. /\ stack' \in Seq(FrameSet) /\ Len(stack') = Len(stack) /\ Same(Len(stack) - 1)
          /\ Becomes(stack'[Len(stack)], p, FALSE)
      BY <1>0, <1>3, <2>2, <2>3, ToMoves DEF StackOK
    <3>2. n # n + 1
      OBVIOUS
    <3> QED BY <1>2, <3>1, <3>2 DEF Same, Becomes
  <2>4. ASSUME NEW f \in {Frame("handler"), Frame("timer")}, CallThen(p, TRUE, f) PROVE Moved
    <3>1. f \in FrameSet /\ f.at \in {"handler", "timer"}
      BY FrameType DEF FramePCs
    <3>2. /\ stack' \in Seq(FrameSet) /\ Len(stack') = Len(stack) + 1 /\ Same(Len(stack) - 1)
          /\ Becomes(stack'[Len(stack)], p, TRUE) /\ stack'[Len(stack) + 1] = f
      BY <1>0, <1>3, <2>2, <2>4, <3>1, CallMoves DEF StackOK
    <3> QED BY <1>2, <3>1, <3>2 DEF Same, Becomes
  <2> QED BY <2>1, <2>3, <2>4
<1>6. PICK m \in {n, n + 1} : Len(stack') = m /\ DOMAIN stack' = 1..m
  BY <1>5
<1>7. \A i \in 1..m : i = n + 1 \/ i = n \/ i \in 1..(n - 1)
  OBVIOUS
<1>8. \A i \in 1..n : i \in 1..m /\ (i = n \/ i \in 1..(n - 1))
  OBVIOUS
<1>9. n \in Replacing /\ n \in 1..n
  BY <1>3 DEF Replacing
<1>10. n + 1 \in 1..m => m = n + 1
  OBVIOUS
<1>11. \A i \in 1..(n - 1) : i # n /\ i # n + 1 /\ i \in 1..n
  OBVIOUS
<1>12. Replacing' = Replacing \ {n}
  <2>1. ASSUME NEW i \in Replacing' PROVE i \in Replacing \ {n}
    <3>1. i \in 1..m /\ stack'[i].at = "replace"
      BY <1>6 DEF Replacing
    <3>2. i \in 1..(n - 1)
      BY <1>5, <1>6, <1>7, <1>10, <3>1
    <3> QED BY <1>3, <1>5, <1>11, <3>1, <3>2 DEF Replacing
  <2>2. ASSUME NEW i \in Replacing \ {n} PROVE i \in Replacing'
    <3>1. i \in 1..(n - 1) /\ stack[i].at = "replace" /\ i \in 1..m
      BY <1>3, <1>8 DEF Replacing
    <3> QED BY <1>5, <1>6, <3>1 DEF Replacing
  <2> QED BY <2>1, <2>2
<1> QED BY <1>2, <1>9, <1>12

LEMMA ReplacingBegins ==
  ASSUME TypeOK, StackInv, PeekHaveWork \/ (ModalHaveWork /\ state_ = "run")
  PROVE  \E n \in Nat : n \notin Replacing /\ Replacing' = Replacing \cup {n}
<1>0. StackOK /\ MsgsOK
  BY TypeParts
<1>1. CASE PeekHaveWork
  <2>1. At("peek") /\ To("replace", FALSE)
    BY <1>1 DEF PeekHaveWork
  <2>2. stack # <<>> /\ Len(stack) \in Nat \ {0} /\ stack[Len(stack)].at = "peek" /\ Len(stack) = 1
    BY <1>0, <2>1, Where DEF At, LoopPCs
  <2>3. stack' \in Seq(FrameSet) /\ Len(stack') = Len(stack) /\ Becomes(stack'[Len(stack)], "replace", FALSE)
    BY <1>0, <2>1, <2>2, ToMoves DEF StackOK, FramePCs, LoopPCs
  <2>4. DOMAIN stack = 1..1 /\ DOMAIN stack' = 1..1 /\ stack[1].at = "peek" /\ stack'[1].at = "replace"
    BY <1>0, <2>2, <2>3 DEF StackOK, Becomes
  <2>5. 1 \notin Replacing /\ Replacing' = Replacing \cup {1}
    BY <2>4 DEF Replacing
  <2> QED BY <2>5
<1>2. CASE ModalHaveWork /\ state_ = "run"
  <2>1. stack' = Append(stack, Frame("replace"))
    BY <1>2 DEF ModalHaveWork
  <2>2. Frame("replace") \in FrameSet /\ Frame("replace").at = "replace"
    BY FrameType DEF FramePCs, LoopPCs
  <2>3. stack' \in Seq(FrameSet) /\ Len(stack') = Len(stack) + 1 /\ Same(Len(stack))
        /\ stack'[Len(stack) + 1] = Frame("replace")
    BY <1>0, <2>1, <2>2, AboveMoves DEF StackOK
  <2>4. PICK n \in Nat : n = Len(stack) /\ DOMAIN stack = 1..n /\ DOMAIN stack' = 1..(n + 1)
    BY <1>0, <2>3 DEF StackOK
  <2>5. \A i \in 1..n : stack'[i] = stack[i]
    BY <2>3, <2>4 DEF Same
  <2>6. \A i \in 1..(n + 1) : i = n + 1 \/ i \in 1..n
    OBVIOUS
  <2>7. (\A i \in 1..n : i \in 1..(n + 1)) /\ n + 1 \notin 1..n /\ n + 1 \in 1..(n + 1)
    OBVIOUS
  <2>8. n + 1 \notin Replacing
    BY <2>4, <2>7 DEF Replacing
  <2>9. stack'[n + 1].at = "replace"
    BY <2>2, <2>3, <2>4
  <2>10. Replacing' = Replacing \cup {n + 1}
    BY <2>4, <2>5, <2>6, <2>7, <2>9 DEF Replacing
  <2> QED BY <2>8, <2>10
<1> QED BY <1>1, <1>2

LEMMA CountsAreNatural ==
  ASSUME TypeOK
  PROVE  /\ IsFiniteSet(Posting) /\ Cardinality(Posting) \in Nat
         /\ IsFiniteSet(Replacing) /\ Cardinality(Replacing) \in Nat
<1>1. IsFiniteSet(Posting)
  <2>1. Posting \in SUBSET Posters
    BY DEF Posting
  <2> QED BY <2>1, PostersAssumption, FS_Subset
<1>2. IsFiniteSet(Replacing)
  <2>1. Len(stack) \in Nat /\ Replacing \in SUBSET (1..Len(stack))
    BY TypeParts DEF StackOK, Replacing
  <2>2. IsFiniteSet(1..Len(stack))
    BY <2>1, FS_Interval
  <2> QED BY <2>1, <2>2, FS_Subset
<1> QED BY <1>1, <1>2, FS_CardinalityType

LEMMA PostingMoves ==
  ASSUME TypeOK, NEW p \in Posters, NEW x, poster_' = [poster_ EXCEPT ![p] = x]
  PROVE  Posting' = IF x = "post" THEN Posting \cup {p} ELSE Posting \ {p}
<1>1. poster_ \in [Posters -> {"idle", "exchange", "post"}]
  BY TypeParts DEF CountOK
<1> QED BY <1>1 DEF Posting

LEMMA OneStep == ASSUME TypeOK, StackInv, OneHaveWork, Next PROVE OneHaveWork'
<1>0. StackOK /\ MsgsOK /\ CountOK
  BY TypeParts
<1> DEFINE a == Cardinality(Posting)
           b == Cardinality(Replacing)
<1>1. /\ IsFiniteSet(Posting) /\ a \in Nat /\ IsFiniteSet(Replacing) /\ b \in Nat
  BY CountsAreNatural
<1>2. have_msg \in Nat /\ have_work_ \in {0, 1} /\ have_msg + a + b = have_work_
  BY <1>0 DEF MsgsOK, OneHaveWork, Posting
<1>3. SUFFICES have_msg' + a' + b' = have_work_'
  BY DEF OneHaveWork, Posting
<1>4. ASSUME NEW n, n \in Replacing, Replacing' = Replacing \ {n} PROVE b' = b - 1
  BY <1>1, <1>4, FS_RemoveElement
<1>5. ASSUME NEW n, n \notin Replacing, Replacing' = Replacing \cup {n} PROVE b' = b + 1
  BY <1>1, <1>5, FS_AddElement
<1>6. ASSUME NEW p \in Posters, poster_[p] # "post", poster_' = [poster_ EXCEPT ![p] = "post"] PROVE a' = a + 1
  <2>1. Posting' = Posting \cup {p} /\ p \notin Posting
    BY <1>6, PostingMoves DEF Posting
  <2> QED BY <1>1, <2>1, FS_AddElement
<1>7. ASSUME NEW p \in Posters, NEW x, x # "post", poster_[p] # "post", poster_' = [poster_ EXCEPT ![p] = x]
      PROVE  a' = a
  <2>1. Posting' = Posting \ {p} /\ p \notin Posting
    BY <1>7, PostingMoves DEF Posting
  <2>2. Posting' = Posting
    BY <2>1
  <2> QED BY <2>2
<1>8. UNCHANGED poster_ => a' = a
  BY DEF Posting
<1>9. Replacing' = Replacing => b' = b
  OBVIOUS
<1> HIDE DEF a, b
<1>10. CASE Replaces
  <2>1. CASE ReplaceNothing
    <3>1. have_work_' = 0 /\ have_msg' = have_msg /\ poster_' = poster_
      BY <2>1 DEF ReplaceNothing
    <3>2. b' = b - 1 /\ a' = a
      BY <1>4, <1>8, <2>1, <3>1, ReplacingEnds
    <3>3. b \in Nat /\ b - 1 \in Nat
      <4>1. b # 0
        BY <1>1, <2>1, ReplacingEnds, FS_EmptySet DEF b
      <4> QED BY <1>1, <4>1
    <3> QED BY <1>1, <1>2, <3>1, <3>2, <3>3
  <2>2. CASE Replace
    <3>1. b' = b - 1
      BY <1>4, <2>2, ReplacingEnds
    <3>2. b - 1 \in Nat
      <4>1. b # 0
        BY <1>1, <2>2, ReplacingEnds, FS_EmptySet DEF b
      <4> QED BY <1>1, <4>1
    <3>3. have_work_' = 1
      BY <2>2 DEF Replace, Reschedule
    <3>4. (have_msg' = have_msg + 1 /\ a' = a) \/ (have_msg' = have_msg /\ a' = a + 1)
      <4>1. \/ have_msg' = have_msg + 1 /\ UNCHANGED poster_
            \/ /\ UNCHANGED have_msg
               /\ \E p \in Posters : poster_[p] = "exchange" /\ poster_' = [poster_ EXCEPT ![p] = "post"]
        BY <2>2 DEF Replace, Reschedule
      <4> QED BY <1>6, <1>8, <4>1
    <3> QED BY <1>1, <1>2, <3>1, <3>2, <3>3, <3>4
  <2>3. CASE PeekHaveWork
    <3>1. have_msg' = have_msg - 1 /\ have_work_' = have_work_ /\ poster_' = poster_
      BY <2>3, Zenon DEF PeekHaveWork
    <3>2. b' = b + 1 /\ a' = a
      BY <1>5, <1>8, <2>3, <3>1, ReplacingBegins
    <3> QED BY <1>1, <1>2, <3>1, <3>2
  <2>4. CASE ModalHaveWork
    <3>1. have_msg > 0 /\ have_msg' = have_msg - 1 /\ poster_' = poster_
      BY <2>4, Zenon DEF ModalHaveWork, Quiet
    <3>2. a' = a
      BY <1>8, <3>1
    <3>3. CASE state_ = "run"
      <4>1. have_work_' = have_work_
        BY <2>4, <3>3 DEF ModalHaveWork
      <4>2. b' = b + 1
        BY <1>5, <2>4, <3>3, ReplacingBegins
      <4> QED BY <1>1, <1>2, <3>1, <3>2, <4>1, <4>2
    <3>4. CASE state_ # "run"
      <4>1. have_work_' = 0 /\ stack' = stack
        BY <2>4, <3>4 DEF ModalHaveWork
      <4>2. b' = b
        BY <1>9, <4>1 DEF Replacing
      <4> QED BY <1>1, <1>2, <3>1, <3>2, <4>1, <4>2
    <3> QED BY <3>3, <3>4
  <2> QED BY <1>10, <2>1, <2>2, <2>3, <2>4 DEF Replaces
<1>11. CASE ~Replaces
  <2>1. b' = b
    BY <1>9, <1>11, ReplacingStays
  <2>2. CASE WorkAgain \/ CodePost \/ AllowNesting
    <3>1. poster_' = poster_ /\ (ScheduleWork \/ UNCHANGED <<have_work_, have_msg>>)
      BY <2>2, Zenon DEF WorkAgain, CodePost, AllowNesting, Quiet
    <3>2. a' = a
      BY <1>8, <3>1
    <3> QED BY <1>1, <1>2, <2>1, <3>1, <3>2 DEF ScheduleWork
  <2>3. ASSUME NEW p \in Posters, Exchange(p) PROVE have_msg' + a' + b' = have_work_'
    <3>1. /\ poster_[p] = "exchange" /\ have_work_' = 1 /\ have_msg' = have_msg
          /\ poster_' = [poster_ EXCEPT ![p] = IF have_work_ = 0 THEN "post" ELSE "idle"]
      BY <2>3 DEF Exchange
    <3>2. CASE have_work_ = 0
      <4>1. a' = a + 1
        BY <1>6, <3>1, <3>2
      <4> QED BY <1>1, <1>2, <2>1, <3>1, <3>2, <4>1
    <3>3. CASE have_work_ # 0
      <4>1. a' = a
        BY <1>7, <3>1, <3>3
      <4> QED BY <1>1, <1>2, <2>1, <3>1, <3>3, <4>1
    <3> QED BY <3>2, <3>3
  <2>4. ASSUME NEW p \in Posters, PostHaveWork(p) PROVE have_msg' + a' + b' = have_work_'
    <3>1. /\ poster_[p] = "post" /\ have_work_' = have_work_ /\ have_msg' = have_msg + 1
          /\ poster_' = [poster_ EXCEPT ![p] = "idle"]
      BY <2>4 DEF PostHaveWork
    <3>2. Posting' = Posting \ {p} /\ p \in Posting
      BY <3>1, PostingMoves DEF Posting
    <3>3. a' = a - 1
      BY <1>1, <3>2, FS_RemoveElement DEF a
    <3> QED BY <1>1, <1>2, <2>1, <3>1, <3>3
  <2>5. ASSUME NEW p \in Posters, Post(p) PROVE have_msg' + a' + b' = have_work_'
    <3>1. /\ poster_[p] = "idle" /\ have_work_' = have_work_ /\ have_msg' = have_msg
          /\ poster_' = [poster_ EXCEPT ![p] = IF incoming_queue_ = <<>> THEN "exchange" ELSE "idle"]
      BY <2>5 DEF Post, msgs
    <3>2. a' = a
      BY <1>7, <3>1
    <3> QED BY <1>1, <1>2, <2>1, <3>1, <3>2
  <2>6. CASE UNCHANGED <<have_work_, have_msg, poster_>>
    <3>1. a' = a
      BY <1>8, <2>6
    <3> QED BY <1>1, <1>2, <2>1, <2>6, <3>1
  <2> QED BY <1>11, <2>2, <2>3, <2>4, <2>5, <2>6, Changes, Zenon DEF Replaces, PosterStep
<1> QED BY <1>10, <1>11

-----------------------------------------------------------------------------
(* The loop waits for nothing *)

LEMMA ToOne ==
  ASSUME StackOK, Len(stack) = 1, NEW p \in FramePCs, NEW more \in BOOLEAN, To(p, more)
  PROVE  Len(stack') = 1 /\ stack'[1].at = p /\ stack'[1].more = more
<1>1. stack # <<>>
  OBVIOUS
<1> QED BY <1>1, ToMoves DEF StackOK, Becomes

LEMMA CallOne ==
  ASSUME StackOK, Len(stack) = 1, NEW p \in FramePCs, NEW more \in BOOLEAN, NEW f \in FrameSet,
         CallThen(p, more, f)
  PROVE  stack'[1].at = p /\ stack'[1].more = more
<1>1. stack # <<>>
  OBVIOUS
<1> QED BY <1>1, CallMoves DEF StackOK, Becomes

(* While DoRunLoop executes only its own steps touch the stack; *)
LEMMA LoopSteps ==
  ASSUME Next, StackOK, Len(stack) = 1, stack[1].at \in LoopPCs
  PROVE  \/ UNCHANGED <<stack, state_>>
         \/ PeekNothing \/ PeekHaveWork \/ PeekOther \/ ReplaceNothing \/ Replace \/ DoWorkNone \/ DoWorkRun
         \/ DoDelayedWorkNone \/ DoDelayedWorkLater \/ DoDelayedWorkDue \/ KillTimer
         \/ Wait \/ Wake \/ MouseInChild \/ WaitMessage \/ LeaveRun
<1>1. stack # <<>> /\ \A p : At(p) <=> stack[1].at = p
  BY DEF At
<1>2. /\ ~At("again") /\ ~At("rearm") /\ ~At("modal") /\ ~At("handler") /\ ~At("task")
      /\ stack # <<>> /\ ~InCode
  BY <1>1 DEF LoopPCs, InCode
<1> QED BY <1>2, Zenon DEF
      Next, PumpStep, ModalStep, PosterStep, Quiet, ReloadWorkQueue, AddToDelayedWorkQueue, WorkAgain,
      Rearm, EnterRun, ModalHaveWork, ModalOther, ModalQuit, ModalEnds, EnterModal, CodePost,
      PostQuitMessage, AllowNesting, CodeReturns, Post, Exchange, PostHaveWork, InputArrives, Tick

(* and while it is beyond DoWork nobody else works or dispatches. *)
LEMMA BeyondWork ==
  ASSUME Next, StackOK, Len(stack) = 1, stack[1].at \in {"wait", "sleep", "message", "delayed", "kill"}
  PROVE  /\ UNCHANGED work_queue_
         /\ UNCHANGED incoming_queue_ \/ \E p \in Posters : Post(p)
         /\ UNCHANGED delayed_work_queue_ \/ DoDelayedWorkDue
         /\ UNCHANGED delayed_work_time_ \/ DoDelayedWorkNone \/ DoDelayedWorkLater \/ DoDelayedWorkDue
         /\ UNCHANGED have_msg \/ \E p \in Posters : PostHaveWork(p)
         /\ UNCHANGED poster_ \/ \E p \in Posters : Post(p) \/ PosterStep(p)
<1>1. \A p : At(p) <=> stack[1].at = p
  BY DEF At
<1>2. /\ ~At("again") /\ ~At("rearm") /\ ~At("modal") /\ ~At("handler") /\ ~At("task")
      /\ ~At("replace") /\ ~At("peek") /\ ~At("work") /\ ~At("do_work") /\ ~InCode /\ ~Working
  BY <1>1 DEF InCode, Working
<1>3. /\ ~ReloadWorkQueue /\ ~AddToDelayedWorkQueue /\ ~DoWorkRun /\ ~CodePost /\ ~Rearm /\ ~PeekHaveWork
      /\ ~Replace /\ ~ModalHaveWork /\ ~WorkAgain /\ ~AllowNesting
  BY <1>2, Zenon DEF ReloadWorkQueue, AddToDelayedWorkQueue, DoWorkRun, CodePost, Rearm, PeekHaveWork, Replace,
     ModalHaveWork, WorkAgain, AllowNesting
<1> QED BY <1>3, Changes, Zenon

LEMMA AnnouncedStep ==
  ASSUME TypeOK, OneHaveWork, Next,
         Len(stack) = 1, stack[1].at \in {"wait", "sleep", "message", "delayed", "kill"},
         incoming_queue_ # <<>> => WorkIsComing,
         incoming_queue_' # <<>>
  PROVE  WorkIsComing'
<1>0. StackOK /\ MsgsOK /\ CountOK
  BY TypeParts
<1>1. CASE \E p \in Posters : Post(p)
  <2>1. PICK p \in Posters : Post(p)
    BY <1>1
  <2>2. /\ poster_[p] = "idle" /\ have_msg' = have_msg
        /\ poster_' = [poster_ EXCEPT ![p] = IF incoming_queue_ = <<>> THEN "exchange" ELSE "idle"]
    BY <2>1 DEF Post, msgs
  <2>3. poster_ \in [Posters -> {"idle", "exchange", "post"}]
    BY <1>0 DEF CountOK
  <2>4. CASE incoming_queue_ = <<>>
    BY <2>2, <2>3, <2>4 DEF WorkIsComing
  <2>5. CASE incoming_queue_ # <<>>
    BY <2>2, <2>3, <2>5 DEF WorkIsComing
  <2> QED BY <2>4, <2>5
<1>2. CASE \E p \in Posters : Exchange(p)
  <2>1. PICK p \in Posters : Exchange(p)
    BY <1>2
  <2>2. /\ poster_[p] = "exchange" /\ have_msg' = have_msg
        /\ poster_' = [poster_ EXCEPT ![p] = IF have_work_ = 0 THEN "post" ELSE "idle"]
    BY <2>1 DEF Exchange
  <2>3. poster_ \in [Posters -> {"idle", "exchange", "post"}]
    BY <1>0 DEF CountOK
  <2>4. CASE have_work_ = 0
    BY <2>2, <2>3, <2>4 DEF WorkIsComing
  <2>5. CASE have_work_ # 0
    <3>1. Replacing = {}
      <4>1. DOMAIN stack = 1..1
        BY <1>0 DEF StackOK
      <4> QED BY <4>1 DEF Replacing
    <3>2. have_msg \in Nat /\ have_msg + Cardinality(Posting) + 0 # 0
      BY <1>0, <2>5, <3>1, FS_EmptySet DEF OneHaveWork, MsgsOK, Posting
    <3>3. have_msg > 0 \/ Posting # {}
      <4>1. Posting = {} => Cardinality(Posting) = 0
        BY FS_EmptySet
      <4> QED BY <3>2, <4>1
    <3> QED BY <2>2, <2>3, <2>5, <3>3 DEF WorkIsComing, Posting
  <2> QED BY <2>4, <2>5
<1>3. CASE \E p \in Posters : PostHaveWork(p)
  <2>1. have_msg' = have_msg + 1
    BY <1>3 DEF PostHaveWork
  <2>2. have_msg' > 0
    BY <1>0, <2>1 DEF MsgsOK
  <2> QED BY <2>2 DEF WorkIsComing
<1>4. CASE UNCHANGED <<incoming_queue_, have_msg, poster_>>
  BY <1>4 DEF WorkIsComing
<1> QED BY <1>0, <1>1, <1>2, <1>3, <1>4, BeyondWork, Zenon DEF PosterStep

LEMMA Settles ==
  ASSUME TypeOK, StackInv, Next, Settled', ~Settled
  PROVE  Len(stack) = 1 /\ At("work") /\ DoWorkNone
<1>0. StackOK /\ MsgsOK
  BY TypeParts
<1>1. state_' = "run" /\ (stack'[1].at \in {"wait", "sleep", "message"}
         \/ (stack'[1].at \in {"delayed", "kill"} /\ ~stack'[1].more))
  BY DEF Settled
<1>2. ~(state_ = "run" /\ stack'[1] = stack[1])
  BY <1>1 DEF Settled
<1>3. Len(stack) = 1 /\ state_ = "run"
  <2>1. CASE Stays
    BY <1>1, <1>2, <2>1 DEF Stays
  <2>2. CASE EnterRun
    BY <1>1, <2>2 DEF EnterRun, Frame
  <2>3. CASE LeaveRun
    BY <1>1, <2>3 DEF LeaveRun
  <2>4. CASE \E p \in FramePCs, more \in BOOLEAN : Goes(p, more)
    <3>1. state_ = "run" /\ Len(stack) \in Nat \ {0} /\ Same(Len(stack) - 1)
      BY <1>0, <2>4, TopFrame DEF Goes, StackOK
    <3>2. \A n \in Nat \ {0} : n = 1 \/ 1 \in 1..(n - 1)
      OBVIOUS
    <3> QED BY <1>2, <3>1, <3>2 DEF Same
  <2>5. CASE \E p \in FramePCs, more \in BOOLEAN, f \in FrameSet : Calls(p, more, f)
    <3>1. state_ = "run" /\ Len(stack) \in Nat \ {0} /\ Same(Len(stack) - 1)
      BY <1>0, <2>5, TopFrame DEF Calls, StackOK
    <3>2. \A n \in Nat \ {0} : n = 1 \/ 1 \in 1..(n - 1)
      OBVIOUS
    <3> QED BY <1>2, <3>1, <3>2 DEF Same
  <2>6. CASE Returns
    <3>1. Len(stack) > 1 /\ Len(stack) \in Nat /\ Same(Len(stack) - 1) /\ state_ = "run"
      BY <1>0, <1>1, <2>6 DEF Returns, StackOK
    <3>2. 1 \in 1..(Len(stack) - 1)
      BY <3>1
    <3> QED BY <1>2, <3>1, <3>2 DEF Same
  <2>7. CASE \E f \in FrameSet : IsAbove(f)
    <3>1. Len(stack) \in Nat \ {0} /\ Same(Len(stack)) /\ state_ = "run"
      BY <1>0, <1>1, <2>7, TopFrame DEF IsAbove, StackOK
    <3>2. 1 \in 1..Len(stack)
      BY <3>1
    <3> QED BY <1>2, <3>1, <3>2 DEF Same
  <2> QED BY <2>1, <2>2, <2>3, <2>4, <2>5, <2>6, <2>7, StepMoves DEF Moves
<1>4. stack # <<>> /\ Top = stack[1] /\ Top \in FrameSet /\ Top.more \in BOOLEAN /\ stack[1].at \in LoopPCs
      /\ (\A p : At(p) <=> stack[1].at = p) /\ InLoop
  <2>1. stack # <<>> /\ Top = stack[1] /\ (\A p : At(p) <=> stack[1].at = p) /\ InLoop
    BY <1>3 DEF At, Top, InLoop
  <2>2. Top \in FrameSet
    BY <1>0, <1>3, <2>1, TopFrame DEF StackOK, Top
  <2> QED BY <1>3, <2>1, <2>2 DEF FrameSet, StackInv
<1>5. ASSUME NEW p \in {"work", "replace", "peek"}, NEW more \in BOOLEAN, To(p, more) PROVE FALSE
  <2>1. stack'[1].at = p
    BY <1>0, <1>3, <1>5, ToOne DEF FramePCs, LoopPCs
  <2> QED BY <1>1, <2>1
<1>6. ASSUME NEW p \in {"delayed", "kill", "work"}, NEW f \in FrameSet, CallThen(p, TRUE, f) PROVE FALSE
  <2>1. stack'[1].at = p /\ stack'[1].more = TRUE
    BY <1>0, <1>3, <1>6, CallOne DEF FramePCs, LoopPCs
  <2> QED BY <1>1, <2>1
<1>7. Frame("handler") \in FrameSet /\ Frame("timer") \in FrameSet
  BY FrameType DEF FramePCs
<1>8. ASSUME NEW id \in 1..MaxPosts PROVE [Frame("task") EXCEPT !.id = id] \in FrameSet
  <2>1. Frame("task") \in FrameSet /\ id \in 0..MaxPosts
    BY FrameType DEF FramePCs
  <2> QED BY <2>1 DEF FrameSet
<1>9. ~(UNCHANGED stack)
  BY <1>2, <1>3
<1>10. ~PeekNothing /\ ~PeekHaveWork
  BY <1>5 DEF PeekNothing, PeekHaveWork
<1>11. ~PeekOther /\ ~Replace /\ ~ReplaceNothing
  <2>1. ~To("work", FALSE) /\ \A timerToo : ~ProcessMessageHelper("work", timerToo)
    BY <1>5, <1>6, <1>7 DEF ProcessMessageHelper, Dispatch
  <2>2. AfterReplace = "work"
    BY <1>4 DEF AfterReplace
  <2> QED BY <2>1, <2>2 DEF PeekOther, Replace, ReplaceNothing, PeekReplacement
<1>12. ~DoWorkRun
  <2> SUFFICES ASSUME DoWorkRun PROVE FALSE
    OBVIOUS
  <2>1. At("work")
    BY <1>4 DEF DoWorkRun, Working, LoopPCs
  <2>2. Head(work_queue_) \in Task
    BY TypeParts DEF DoWorkRun, QueuesOK
  <2>3. Head(work_queue_).id \in 1..MaxPosts
    BY <2>2 DEF Task
  <2>4. CallThen("delayed", TRUE, [Frame("task") EXCEPT !.id = Head(work_queue_).id])
    BY <2>1 DEF DoWorkRun, RunTask
  <2> QED BY <1>6, <1>8, <2>3, <2>4
<1>13. ~DoDelayedWorkDue
  <2> SUFFICES ASSUME DoDelayedWorkDue PROVE FALSE
    OBVIOUS
  <2>1. At("delayed")
    BY <1>4 DEF DoDelayedWorkDue, Delaying, LoopPCs
  <2>2. PICK t \in delayed_work_queue_ : CallThen("kill", TRUE, [Frame("task") EXCEPT !.id = t.id])
    BY <2>1 DEF DoDelayedWorkDue, RunTask, AfterDelayed
  <2>3. t.id \in 1..MaxPosts
    BY TypeParts DEF QueuesOK, Task
  <2> QED BY <1>6, <1>8, <2>2, <2>3
<1>14. ~DoDelayedWorkNone /\ ~DoDelayedWorkLater
  <2> SUFFICES ASSUME DoDelayedWorkNone \/ DoDelayedWorkLater PROVE FALSE
    OBVIOUS
  <2>1. At("delayed")
    BY <1>4 DEF DoDelayedWorkNone, DoDelayedWorkLater, Delaying, LoopPCs
  <2>2. To("kill", Top.more)
    BY <2>1 DEF DoDelayedWorkNone, DoDelayedWorkLater, AfterDelayed
  <2>3. stack'[1].at = "kill" /\ stack'[1].more = Top.more
    BY <1>0, <1>3, <1>4, <2>2, ToOne DEF FramePCs, LoopPCs
  <2>4. Top.more
    BY <1>3, <1>4, <2>1 DEF Settled
  <2> QED BY <1>1, <2>3, <2>4
<1>15. ~KillTimer
  <2> SUFFICES ASSUME KillTimer PROVE FALSE
    OBVIOUS
  <2>1. Top.more
    BY <1>3, <1>4 DEF KillTimer, Settled
  <2>2. To("peek", FALSE) \/ To("work", FALSE)
    BY <2>1 DEF KillTimer
  <2> QED BY <1>5, <2>2
<1>16. ~Wait /\ ~Wake /\ ~MouseInChild /\ ~WaitMessage
  BY <1>3, <1>4 DEF Wait, Wake, MouseInChild, WaitMessage, Settled
<1>17. ~LeaveRun
  BY <1>1 DEF LeaveRun
<1>18. DoWorkNone
  BY <1>0, <1>3, <1>4, <1>9, <1>10, <1>11, <1>12, <1>13, <1>14, <1>15, <1>16, <1>17, LoopSteps, Zenon
<1>19. At("work")
  BY <1>4, <1>18 DEF DoWorkNone, Working, LoopPCs
<1> QED BY <1>3, <1>18, <1>19

LEMMA WaitStep == ASSUME TypeOK, StackInv, NestInv, OneHaveWork, WaitInv, Next PROVE WaitInv'
<1>0. StackOK /\ MsgsOK /\ QueuesOK /\ CountOK
  BY TypeParts
<1> SUFFICES ASSUME Settled'
             PROVE  /\ Len(stack') = 1 /\ work_queue_' = <<>>
                    /\ incoming_queue_' # <<>> => WorkIsComing'
                    /\ Timed' => \A t \in delayed_work_queue_' : delayed_work_time_' \in 1..t.time
  BY DEF WaitInv, Timed
<1>1. ASSUME Len(stack) = 1, state_ = "run" PROVE nestable_tasks_allowed_
  <2>1. DOMAIN stack = 1..1
    BY <1>0, <1>1 DEF StackOK
  <2>2. stack[1].at # "task"
    BY <1>1 DEF StackInv, LoopPCs
  <2> QED BY <2>1, <2>2 DEF NestInv
<1>2. CASE ~Settled
  <2>1. Len(stack) = 1 /\ At("work") /\ DoWorkNone
    BY <1>2, Settles
  <2>2. state_ = "run" /\ Top.more \in BOOLEAN
    BY <1>0, <2>1, Where DEF FrameSet, LoopPCs
  <2>3. To("delayed", Top.more) /\ UNCHANGED <<work_queue_, incoming_queue_>>
    BY <2>1 DEF DoWorkNone, tasks
  <2>4. work_queue_ = <<>> /\ incoming_queue_ = <<>>
    BY <1>1, <2>1, <2>2, Zenon DEF DoWorkNone
  <2>5. Len(stack') = 1 /\ stack'[1].at = "delayed"
    BY <1>0, <2>1, <2>2, <2>3, ToOne DEF FramePCs, LoopPCs
  <2> QED BY <2>3, <2>4, <2>5 DEF Timed
<1>3. CASE Settled
  <2>1. /\ Len(stack) = 1 /\ work_queue_ = <<>> /\ state_ = "run"
        /\ (incoming_queue_ # <<>> => WorkIsComing)
        /\ stack[1].at \in {"wait", "sleep", "message", "delayed", "kill"}
        /\ (stack[1].at \in {"delayed", "kill"} => ~stack[1].more)
    BY <1>3 DEF WaitInv, Settled
  <2>2. (\A p : At(p) <=> stack[1].at = p) /\ stack # <<>> /\ Top = stack[1]
    BY <2>1 DEF At, Top
  <2>3. stack[1] \in FrameSet
    BY <1>0, <2>1, <2>2, TopFrame DEF StackOK
  <2>4. work_queue_' = <<>>
    BY <1>0, <2>1, BeyondWork
  <2>5. incoming_queue_' # <<>> => WorkIsComing'
    BY <2>1, AnnouncedStep
  <2>6. ~DoDelayedWorkDue
    <3> SUFFICES ASSUME DoDelayedWorkDue PROVE FALSE
      OBVIOUS
    <3>1. At("delayed")
      BY <2>1, <2>2 DEF DoDelayedWorkDue, Delaying
    <3>2. PICK t \in delayed_work_queue_ : CallThen("kill", TRUE, [Frame("task") EXCEPT !.id = t.id])
      BY <3>1 DEF DoDelayedWorkDue, RunTask, AfterDelayed
    <3>3. [Frame("task") EXCEPT !.id = t.id] \in FrameSet
      <4>1. Frame("task") \in FrameSet
        BY FrameType DEF FramePCs
      <4>2. t.id \in 0..MaxPosts
        BY <1>0 DEF QueuesOK, Task
      <4> QED BY <4>1, <4>2 DEF FrameSet
    <3>4. stack'[1].at = "kill" /\ stack'[1].more = TRUE
      BY <1>0, <2>1, <3>2, <3>3, CallOne DEF FramePCs, LoopPCs
    <3> QED BY <3>4 DEF Settled
  <2>7. CASE DoDelayedWorkNone \/ DoDelayedWorkLater
    <3>1. At("delayed") /\ UNCHANGED delayed_work_queue_
      BY <2>1, <2>2, <2>7 DEF DoDelayedWorkNone, DoDelayedWorkLater, Delaying, tasks
    <3>2. To("kill", Top.more) /\ Top.more \in BOOLEAN
      BY <2>2, <2>3, <2>7, <3>1 DEF DoDelayedWorkNone, DoDelayedWorkLater, AfterDelayed, FrameSet
    <3>3. Len(stack') = 1
      BY <1>0, <2>1, <3>2, ToOne DEF FramePCs, LoopPCs
    <3>4. ASSUME NEW t \in delayed_work_queue_ PROVE delayed_work_time_' \in 1..t.time
      <4>1. nestable_tasks_allowed_
        BY <1>1, <2>1
      <4>2. DoDelayedWorkLater
        BY <2>7, <4>1, Zenon DEF DoDelayedWorkNone
      <4>3. PICK u \in delayed_work_queue_ :
              IsTop(u, delayed_work_queue_) /\ u.time > now /\ delayed_work_time_' = u.time
        BY <4>2 DEF DoDelayedWorkLater
      <4>4. u.time \in Nat /\ t.time \in Nat /\ now \in Nat
        BY <1>0, BoundsAssumption DEF QueuesOK, Task, CountOK
      <4>5. u.time < t.time \/ u.time = t.time
        BY <4>3, Zenon DEF IsTop
      <4> QED BY <4>3, <4>4, <4>5
    <3> QED BY <2>4, <2>5, <3>1, <3>3, <3>4
  <2>8. CASE ~DoDelayedWorkNone /\ ~DoDelayedWorkLater
    <3>1. UNCHANGED <<delayed_work_queue_, delayed_work_time_>>
      BY <1>0, <2>1, <2>6, <2>8, BeyondWork
    <3>2. Len(stack') = 1 /\ (Timed' => Timed)
      <4>1. CASE UNCHANGED <<stack, state_>>
        BY <2>1, <4>1 DEF Timed, Settled
      <4>2. CASE KillTimer \/ Wait \/ MouseInChild
        <5>1. ~At("delayed") /\ Timed
          <6>1. At("kill") \/ At("wait") \/ At("sleep")
            BY <4>2, Zenon DEF KillTimer, Wait, MouseInChild
          <6>2. stack[1].at \in {"kill", "wait", "sleep"}
            BY <2>2, <6>1, Zenon
          <6> QED BY <1>3, <2>2, <6>2 DEF Timed
        <5>2. \E p \in {"wait", "sleep", "message", "peek", "work"} : To(p, FALSE)
          BY <4>2, Zenon DEF KillTimer, Wait, MouseInChild
        <5>3. Len(stack') = 1
          BY <1>0, <2>1, <5>2, ToOne DEF FramePCs, LoopPCs
        <5> QED BY <5>1, <5>3
      <4>3. CASE Wake \/ WaitMessage
        <5>1. To("peek", FALSE)
          BY <4>3 DEF Wake, WaitMessage
        <5>2. stack'[1].at = "peek"
          BY <1>0, <2>1, <5>1, ToOne DEF FramePCs, LoopPCs
        <5> QED BY <5>2 DEF Settled
      <4>4. ~LeaveRun
        BY DEF LeaveRun, Settled
      <4>5. /\ ~PeekNothing /\ ~PeekHaveWork /\ ~PeekOther /\ ~ReplaceNothing /\ ~Replace /\ ~DoWorkNone
            /\ ~DoWorkRun
        <5>1. ~At("peek") /\ ~At("replace") /\ ~At("work") /\ ~At("do_work")
          BY <2>1, <2>2
        <5> QED BY <5>1, Zenon DEF PeekNothing, PeekHaveWork, PeekOther, ReplaceNothing, Replace, DoWorkNone,
              DoWorkRun, Working
      <4>6. stack[1].at \in LoopPCs
        BY <2>1 DEF LoopPCs
      <4> QED BY <1>0, <2>1, <2>6, <2>8, <4>1, <4>2, <4>3, <4>4, <4>5, <4>6, LoopSteps
    <3> QED BY <1>3, <2>4, <2>5, <3>1, <3>2 DEF WaitInv
  <2> QED BY <2>7, <2>8
<1> QED BY <1>2, <1>3

-----------------------------------------------------------------------------
(* The theorems *)

IInv == TypeOK /\ StackInv /\ NestInv /\ InputInv /\ OneHaveWork /\ WaitInv

LEMMA InitHolds == Init => IInv
<1> SUFFICES ASSUME Init PROVE IInv
  OBVIOUS
<1>1. /\ stack = <<>> /\ state_ = "none" /\ nestable_tasks_allowed_ = TRUE /\ input = 0 /\ inputs = 0
      /\ have_msg = 0 /\ have_work_ = 0 /\ poster_ = [p \in Posters |-> "idle"]
  BY DEF Init
<1>2. QueuesOK
  BY DEF Init, QueuesOK
<1>3. MsgsOK
  <2>1. /\ nestable_tasks_allowed_ \in BOOLEAN /\ os_modal_loop_ \in BOOLEAN
        /\ should_quit \in BOOLEAN /\ quit_msg \in BOOLEAN
    BY Zenon DEF Init
  <2>2. /\ have_work_ \in {0, 1} /\ delayed_work_time_ \in 0..MaxTime
        /\ have_msg \in Nat /\ input \in 0..MaxInputs /\ timer \in Nat
    BY BoundsAssumption DEF Init
  <2> QED BY <1>1, <2>1, <2>2 DEF MsgsOK
<1>4. StackOK /\ DOMAIN stack = {}
  BY <1>1 DEF StackOK
<1>5. CountOK
  BY BoundsAssumption DEF Init, CountOK
<1>6. OneHaveWork
  <2>1. {p \in Posters : poster_[p] = "post"} = {} /\ Replacing = {}
    BY <1>1, <1>4 DEF Replacing
  <2> QED BY <1>1, <2>1, FS_EmptySet DEF OneHaveWork
<1>7. StackInv /\ NestInv /\ InputInv /\ WaitInv
  BY <1>1, <1>4 DEF StackInv, NestInv, InputInv, WaitInv, Timed, Settled
<1> QED BY <1>2, <1>3, <1>4, <1>5, <1>6, <1>7, TypeParts DEF IInv

LEMMA StutterHolds == ASSUME IInv, UNCHANGED vars PROVE IInv'
<1>1. UNCHANGED <<incoming_queue_, work_queue_, delayed_work_queue_, next_delayed_task_sequence_num_,
                  nestable_tasks_allowed_, os_modal_loop_, have_work_, delayed_work_time_, state_,
                  should_quit, have_msg, input, quit_msg, timer, stack, poster_, now, posted, done,
                  inputs, modals>>
  BY DEF vars, tasks, msgs, count
<1>2. TypeOK'
  <2>1. QueuesOK' /\ StackOK' /\ CountOK'
    BY <1>1, TypeParts DEF IInv, QueuesOK, StackOK, CountOK
  <2>2. MsgsOK'
    BY <1>1, TypeParts, Zenon DEF IInv, MsgsOK
  <2> QED BY <2>1, <2>2, TypeParts, PTL
<1>3. StackInv' /\ NestInv' /\ InputInv' /\ OneHaveWork'
  BY <1>1 DEF IInv, StackInv, NestInv, InputInv, OneHaveWork, Replacing
<1>4. WaitInv'
  BY <1>1 DEF IInv, WaitInv, Timed, Settled, WorkIsComing
<1> QED BY <1>2, <1>3, <1>4 DEF IInv

LEMMA StepHolds == ASSUME IInv, Next PROVE IInv'
<1>1. TypeOK'
  <2>1. QueuesOK' /\ StackOK' /\ MsgsOK' /\ CountOK'
    BY TypeParts, QueuesStep, StackStep, MsgsStep, CountStep DEF IInv
  <2> QED BY <2>1, TypeParts, PTL
<1> QED BY <1>1, StackStep, NestStep, MsgsStep, OneStep, WaitStep DEF IInv

(* The invariant holds throughout, for any number of posters, posts,       *)
(* messages and modal loops.                                               *)
THEOREM Inductive == Spec => []IInv
BY InitHolds, StutterHolds, StepHolds, PTL DEF Spec

(* Every variable keeps the shape of what it stands for. *)
THEOREM TypeCorrect == Spec => []TypeOK
<1>1. IInv => TypeOK
  BY DEF IInv
<1> QED BY <1>1, Inductive, PTL

(* kMsgHaveWork is posted when have_work_ goes from 0 to 1 and never       *)
(* otherwise: it is in the queue, at a poster or in one frame's hands.     *)
THEOREM HaveWorkIsOne == Spec => []OneHaveWork
<1>1. IInv => OneHaveWork
  BY DEF IInv
<1> QED BY <1>1, Inductive, PTL

LEMMA SleepIsSettled ==
  ASSUME IInv, At("sleep") \/ At("message")
  PROVE  Settled /\ (At("sleep") => Timed)
<1>1. PICK p \in {"sleep", "message"} : At(p)
  OBVIOUS
<1>2. Len(stack) = 1 /\ state_ = "run" /\ Top = stack[1] /\ Top.at = p
  BY <1>1, TypeParts, Where DEF IInv, LoopPCs
<1> QED BY <1>2 DEF Settled, Timed, At

(* No wake-up is lost: the UI thread never waits with a task posted to it  *)
(* and no notice on its way.                                               *)
THEOREM NoticeIsNotLost == Spec => []IncomingIsAnnounced
<1>1. IInv => IncomingIsAnnounced
  BY SleepIsSettled DEF IInv, WaitInv, IncomingIsAnnounced
<1> QED BY <1>1, Inductive, PTL

(* WaitForWork sleeps with no task at hand, and not beyond the first       *)
(* delayed one.                                                            *)
THEOREM NothingToWaitFor == Spec => []LoopWaitsForNothing
<1>1. IInv => LoopWaitsForNothing
  BY SleepIsSettled DEF IInv, WaitInv, LoopWaitsForNothing
<1> QED BY <1>1, Inductive, PTL
==============================================================================

--------------------------- MODULE WinUIMessagePump ---------------------------
(***************************************************************************)
(* nbase::WinUIMessagePump under nbase::MessageLoop: the loop of the UI    *)
(* thread.  It takes window messages and tasks in turn, and is told of new *)
(* tasks by a window message of its own, kMsgHaveWork, so that tasks also  *)
(* run inside the modal loops that Windows enters behind its back          *)
(* (MessageBox, a menu, dragging a window).                                *)
(*                                                                         *)
(* The call stack of the thread is a sequence of frames.  A frame is where *)
(* a function is; the last frame is the one that executes, and returns by  *)
(* leaving the sequence.  Nested Runs, deferred tasks and Quit are those   *)
(* of module MessageLoop and are left out here, as is the cached clock.    *)
(***************************************************************************)
EXTENDS Integers, Sequences, FiniteSets

CONSTANTS
  Posters,    \* threads other than the UI's that post to it
  MaxPosts,   \* bound: how many tasks are posted
  MaxTime,    \* bound: TimeTicks::Now() stays within 1..MaxTime
  MaxInputs,  \* bound: how many other window messages arrive
  MaxModals,  \* bound: how often a modal loop is entered
  Delays      \* delays of PostDelayedTask; 0 stands for PostTask

ASSUME PostersAssumption == IsFiniteSet(Posters)
ASSUME BoundsAssumption ==
  MaxPosts \in Nat /\ MaxTime \in Nat \ {0} /\ MaxInputs \in Nat /\ MaxModals \in Nat
ASSUME DelaysAssumption == Delays \subseteq Nat

VARIABLES
  incoming_queue_, work_queue_, delayed_work_queue_, \* MessageLoop
  next_delayed_task_sequence_num_, nestable_tasks_allowed_, os_modal_loop_,
  have_work_, delayed_work_time_,      \* WinUIMessagePump
  state_,        \* "none" before Run, "run", "left" after it
  should_quit,   \* of the RunState
  have_msg,      \* kMsgHaveWork messages in the thread's message queue
  input,         \* other messages in it
  quit_msg,      \* WM_QUIT is pending
  timer,         \* when WM_TIMER is due, 0 if SetTimer is not in effect
  stack,         \* the frames of the UI thread
  poster_,       \* a poster is "idle", before ScheduleWork's exchange, or its PostMessage
  now, posted, done, inputs, modals

tasks == <<incoming_queue_, work_queue_, delayed_work_queue_, next_delayed_task_sequence_num_>>
msgs  == <<have_work_, have_msg, input, quit_msg, timer>>
count == <<now, posted, inputs, modals>>
vars  == <<tasks, nestable_tasks_allowed_, os_modal_loop_, delayed_work_time_, state_,
           should_quit, msgs, stack, poster_, done, count>>

Task == [id : 1..MaxPosts, time : 0..MaxTime, seq : Nat]

(* Frames.  The pump's DoRunLoop is in "peek" ... "message"; the handlers  *)
(* of its two messages in "replace", "do_work", "again" and in "timer",    *)
(* "rearm"; a window procedure is a "handler", a closure a "task", an OS   *)
(* loop a "modal".  more is DoRunLoop's more_work_is_plausible; in a task, *)
(* that it allowed nesting; in a modal loop, that the caller announced it. *)
LoopPCs == {"peek", "replace", "work", "delayed", "kill", "wait", "sleep", "message"}
FramePCs == LoopPCs \cup {"do_work", "again", "timer", "rearm", "handler", "task", "modal"}
Frame(p) == [at |-> p, id |-> 0, more |-> FALSE]

At(p) == stack # <<>> /\ stack[Len(stack)].at = p
Top == stack[Len(stack)]
Below == SubSeq(stack, 1, Len(stack) - 1)
InLoop == Len(stack) = 1 /\ state_ = "run"  \* the executing frame is DoRunLoop's
InCode == At("handler") \/ At("task")

(* Moves of the executing frame: go on, go on after a call, return. *)
To(p, more) == stack' = Append(Below, [Top EXCEPT !.at = p, !.more = more])
CallThen(p, more, frame) == stack' = Below \o <<[Top EXCEPT !.at = p, !.more = more], frame>>
Return == stack' = Below

Init ==
  /\ incoming_queue_ = <<>> /\ work_queue_ = <<>> /\ delayed_work_queue_ = {}
  /\ next_delayed_task_sequence_num_ = 0
  /\ nestable_tasks_allowed_ = TRUE /\ os_modal_loop_ = FALSE
  /\ have_work_ = 0 /\ delayed_work_time_ = 0
  /\ state_ = "none" /\ should_quit = FALSE
  /\ have_msg = 0 /\ input = 0 /\ quit_msg = FALSE /\ timer = 0
  /\ stack = <<>>
  /\ poster_ = [p \in Posters |-> "idle"]
  /\ now = 1 /\ posted = 0 /\ done = {} /\ inputs = 0 /\ modals = 0

-----------------------------------------------------------------------------
(* Posting *)

Push ==
  /\ posted < MaxPosts
  /\ posted' = posted + 1
  /\ \E d \in Delays :
       /\ now + d <= MaxTime
       /\ incoming_queue_' = Append(incoming_queue_,
            [id |-> posted + 1, time |-> IF d = 0 THEN 0 ELSE now + d, seq |-> 0])

(* AddToIncomingQueue on a poster's thread. *)
Post(p) ==
  /\ poster_[p] = "idle" /\ Push
  /\ poster_' = [poster_ EXCEPT ![p] = IF incoming_queue_ = <<>> THEN "exchange" ELSE "idle"]
  /\ UNCHANGED <<work_queue_, delayed_work_queue_, next_delayed_task_sequence_num_,
                 nestable_tasks_allowed_, os_modal_loop_, delayed_work_time_, state_,
                 should_quit, msgs, stack, done, now, inputs, modals>>

(* Mutant of Exchange: InterlockedIncrement. *)
ExchangeIncrement(p) ==
  /\ poster_[p] = "exchange"
  /\ have_work_' = have_work_ + 1
  /\ poster_' = [poster_ EXCEPT ![p] = IF have_work_ = 0 THEN "post" ELSE "idle"]
  /\ UNCHANGED <<tasks, nestable_tasks_allowed_, os_modal_loop_, delayed_work_time_, state_,
                 should_quit, have_msg, input, quit_msg, timer, stack, done, count>>

(* ScheduleWork: InterlockedExchange, then PostMessage if it was 0. *)
Exchange(p) ==
  /\ poster_[p] = "exchange"
  /\ have_work_' = 1
  /\ poster_' = [poster_ EXCEPT ![p] = IF have_work_ = 0 THEN "post" ELSE "idle"]
  /\ UNCHANGED <<tasks, nestable_tasks_allowed_, os_modal_loop_, delayed_work_time_, state_,
                 should_quit, have_msg, input, quit_msg, timer, stack, done, count>>

PostHaveWork(p) ==
  /\ poster_[p] = "post"
  /\ have_msg' = have_msg + 1
  /\ poster_' = [poster_ EXCEPT ![p] = "idle"]
  /\ UNCHANGED <<tasks, nestable_tasks_allowed_, os_modal_loop_, delayed_work_time_, state_,
                 should_quit, have_work_, input, quit_msg, timer, stack, done, count>>

(* ScheduleWork on the UI thread itself, where nothing intervenes. *)
ScheduleWork == have_work_' = 1 /\ have_msg' = have_msg + (1 - have_work_)

(* InterlockedExchange(&have_work_, 0), then ScheduleWork; a poster may    *)
(* make its exchange in between, and then it is the one to post.           *)
Reschedule ==
  /\ have_work_' = 1
  /\ \/ have_msg' = have_msg + 1 /\ UNCHANGED poster_
     \/ /\ UNCHANGED have_msg
        /\ \E p \in Posters : poster_[p] = "exchange" /\ poster_' = [poster_ EXCEPT ![p] = "post"]

(* ScheduleDelayedWork: a timer for time t, though never in less than the  *)
(* least period of SetTimer.                                               *)
ScheduleDelayedWork(t) ==
  /\ delayed_work_time_' = t
  /\ timer' = IF t > now THEN t ELSE now + 1

-----------------------------------------------------------------------------
(* Window messages *)

TimerIsDue == timer # 0 /\ timer <= now
Available == have_msg > 0 \/ input > 0 \/ quit_msg \/ TimerIsDue

(* PeekMessage removes one of the thread's messages.  WM_QUIT comes after  *)
(* the posted messages, WM_TIMER after everything.                         *)
TakeInput == input > 0 /\ input' = input - 1 /\ UNCHANGED <<quit_msg, timer>>
TakeQuit  == quit_msg /\ have_msg = 0 /\ UNCHANGED <<input, quit_msg, timer>> \* and reposted
(* WM_TIMER, whose handler begins with KillTimer. *)
TakeTimer == TimerIsDue /\ timer' = 0 /\ UNCHANGED <<input, quit_msg>>
TimerIsFirst == input = 0 /\ ~quit_msg

(* DispatchMessage; WM_TIMER may have to wait until it is first. *)
Dispatch(p, timerToo) ==
  /\ \/ TakeInput /\ CallThen(p, TRUE, Frame("handler"))
     \/ timerToo /\ TakeTimer /\ CallThen(p, TRUE, Frame("timer"))
  /\ UNCHANGED should_quit

(* Mutant of ProcessMessageHelper: WM_QUIT is posted again, not noted. *)
ProcessMessageHelperOnly(p, timerToo) ==
  \/ Dispatch(p, timerToo)
  \/ TakeQuit /\ To(p, TRUE) /\ UNCHANGED should_quit

(* ProcessMessageHelper called from the executing frame, which goes on at  *)
(* p: WM_QUIT is noted and posted again, anything else is dispatched.      *)
ProcessMessageHelper(p, timerToo) ==
  \/ Dispatch(p, timerToo)
  \/ TakeQuit /\ To(p, FALSE) /\ should_quit' = TRUE

(* ProcessNextWindowsMessage: nothing, kMsgHaveWork, or another message. *)
PeekNothing ==
  /\ InLoop /\ At("peek")
  /\ ~Available
  /\ To("work", FALSE)
  /\ UNCHANGED <<tasks, nestable_tasks_allowed_, os_modal_loop_, delayed_work_time_, state_,
                 should_quit, msgs, poster_, done, count>>

PeekHaveWork ==
  /\ InLoop /\ At("peek")
  /\ have_msg > 0 /\ have_msg' = have_msg - 1
  /\ To("replace", FALSE)
  /\ UNCHANGED <<tasks, nestable_tasks_allowed_, os_modal_loop_, delayed_work_time_, state_,
                 should_quit, have_work_, input, quit_msg, timer, poster_, done, count>>

PeekOther ==
  /\ InLoop /\ At("peek")
  /\ ProcessMessageHelper("work", TimerIsFirst)
  /\ have_msg > 0 => input > input'
  /\ UNCHANGED <<tasks, nestable_tasks_allowed_, os_modal_loop_, delayed_work_time_, state_,
                 have_work_, have_msg, poster_, done, count>>

(* What follows ProcessPumpReplacementMessage: DoWork, of the run loop or  *)
(* of HandleWorkMessage.                                                   *)
AfterReplace == IF InLoop THEN "work" ELSE "do_work"

(* The replacement: in a modal loop that announced itself only WM_PAINT,   *)
(* which is one of input, and WM_TIMER are looked for, but WM_QUIT comes   *)
(* whatever the filter.                                                    *)
PeekReplacement(p) == ProcessMessageHelper(p, os_modal_loop_ \/ TimerIsFirst)

(* There may be none even if input waits that the filter leaves out; of    *)
(* that, posted messages keep WM_QUIT back.                                *)
NoReplacement ==
  IF os_modal_loop_ THEN ~TimerIsDue /\ (quit_msg => input > 0) ELSE ~Available

(* Mutant of ReplaceNothing: the flag is reset only if there is a message. *)
ReplaceNothingKept ==
  /\ At("replace")
  /\ NoReplacement
  /\ To(AfterReplace, FALSE)
  /\ UNCHANGED <<tasks, nestable_tasks_allowed_, os_modal_loop_, delayed_work_time_, state_,
                 should_quit, have_work_, have_msg, input, quit_msg, timer, poster_, done, count>>

(* ProcessPumpReplacementMessage without a message to process. *)
ReplaceNothing ==
  /\ At("replace")
  /\ NoReplacement
  /\ have_work_' = 0
  /\ To(AfterReplace, FALSE)
  /\ UNCHANGED <<tasks, nestable_tasks_allowed_, os_modal_loop_, delayed_work_time_, state_,
                 should_quit, have_msg, input, quit_msg, timer, poster_, done, count>>

(* With a message: kMsgHaveWork is posted anew, in case the message leads  *)
(* into native code, and the message is processed.                         *)
Replace ==
  /\ At("replace")
  /\ Reschedule
  /\ PeekReplacement(AfterReplace)
  /\ UNCHANGED <<tasks, nestable_tasks_allowed_, os_modal_loop_, delayed_work_time_, state_,
                 done, count>>

-----------------------------------------------------------------------------
(* The delegate's DoWork, called by DoRunLoop ("work") or by               *)
(* HandleWorkMessage ("do_work").  DoRunLoop looks at should_quit first.   *)

Working == (At("work") /\ ~should_quit) \/ At("do_work")
Quiet == <<os_modal_loop_, state_, should_quit, poster_>>

DoWorkNone ==
  /\ Working
  /\ ~nestable_tasks_allowed_ \/ (work_queue_ = <<>> /\ incoming_queue_ = <<>>)
  /\ IF At("work") THEN To("delayed", Top.more) ELSE Return
  /\ UNCHANGED <<tasks, nestable_tasks_allowed_, delayed_work_time_, Quiet, msgs, done, count>>

ReloadWorkQueue ==
  /\ Working /\ nestable_tasks_allowed_
  /\ work_queue_ = <<>> /\ incoming_queue_ # <<>>
  /\ work_queue_' = incoming_queue_ /\ incoming_queue_' = <<>>
  /\ UNCHANGED <<delayed_work_queue_, next_delayed_task_sequence_num_, nestable_tasks_allowed_,
                 delayed_work_time_, Quiet, msgs, stack, done, count>>

IsTop(t, q) == t \in q /\ \A u \in q : t.time < u.time \/ (t.time = u.time /\ t.seq <= u.seq)

(* A delayed task: the pump is told only if the first delayed task bears   *)
(* number 0, which is the number in DoWork's own copy of the new one.      *)
AddToDelayedWorkQueue ==
  /\ Working /\ nestable_tasks_allowed_
  /\ work_queue_ # <<>>
  /\ LET t == Head(work_queue_)
     IN /\ t.time # 0
        /\ delayed_work_queue_' =
             delayed_work_queue_ \cup {[t EXCEPT !.seq = next_delayed_task_sequence_num_]}
        /\ \E top \in delayed_work_queue_' :
             /\ IsTop(top, delayed_work_queue_')
             /\ IF top.seq = t.seq THEN ScheduleDelayedWork(t.time)
                ELSE UNCHANGED <<delayed_work_time_, timer>>
  /\ next_delayed_task_sequence_num_' = next_delayed_task_sequence_num_ + 1
  /\ work_queue_' = Tail(work_queue_)
  /\ UNCHANGED <<incoming_queue_, nestable_tasks_allowed_, Quiet, have_work_, have_msg, input,
                 quit_msg, stack, done, count>>

(* RunTask up to the closure; the caller goes on at p, with more work.     *)
RunTask(t, p) ==
  /\ nestable_tasks_allowed_' = FALSE
  /\ CallThen(p, TRUE, [Frame("task") EXCEPT !.id = t.id])

(* Mutant of DoWorkRun: DoWork returns FALSE after a task. *)
DoWorkRunLast ==
  /\ Working /\ nestable_tasks_allowed_
  /\ work_queue_ # <<>> /\ Head(work_queue_).time = 0
  /\ nestable_tasks_allowed_' = FALSE
  /\ CallThen(IF At("work") THEN "delayed" ELSE "again", FALSE,
              [Frame("task") EXCEPT !.id = Head(work_queue_).id])
  /\ work_queue_' = Tail(work_queue_)
  /\ UNCHANGED <<incoming_queue_, delayed_work_queue_, next_delayed_task_sequence_num_,
                 delayed_work_time_, Quiet, msgs, done, count>>

DoWorkRun ==
  /\ Working /\ nestable_tasks_allowed_
  /\ work_queue_ # <<>> /\ Head(work_queue_).time = 0
  /\ RunTask(Head(work_queue_), IF At("work") THEN "delayed" ELSE "again")
  /\ work_queue_' = Tail(work_queue_)
  /\ UNCHANGED <<incoming_queue_, delayed_work_queue_, next_delayed_task_sequence_num_,
                 delayed_work_time_, Quiet, msgs, done, count>>

(* HandleWorkMessage: DoWork has returned TRUE. *)
WorkAgain ==
  /\ At("again")
  /\ ScheduleWork
  /\ Return
  /\ UNCHANGED <<tasks, nestable_tasks_allowed_, delayed_work_time_, Quiet, input, quit_msg,
                 timer, done, count>>

-----------------------------------------------------------------------------
(* DoDelayedWork(&delayed_work_time_), called by DoRunLoop ("delayed") or  *)
(* by HandleTimerMessage ("timer").                                        *)

Delaying == (At("delayed") /\ ~should_quit) \/ At("timer")
AfterDelayed == IF At("delayed") THEN "kill" ELSE "rearm"

DoDelayedWorkNone ==
  /\ Delaying
  /\ ~nestable_tasks_allowed_ \/ delayed_work_queue_ = {}
  /\ delayed_work_time_' = 0
  /\ To(AfterDelayed, Top.more)
  /\ UNCHANGED <<tasks, nestable_tasks_allowed_, Quiet, msgs, done, count>>

DoDelayedWorkLater ==
  /\ Delaying /\ nestable_tasks_allowed_
  /\ \E t \in delayed_work_queue_ :
       /\ IsTop(t, delayed_work_queue_) /\ t.time > now
       /\ delayed_work_time_' = t.time
  /\ To(AfterDelayed, Top.more)
  /\ UNCHANGED <<tasks, nestable_tasks_allowed_, Quiet, msgs, done, count>>

DoDelayedWorkDue ==
  /\ Delaying /\ nestable_tasks_allowed_
  /\ \E t \in delayed_work_queue_ :
       /\ IsTop(t, delayed_work_queue_) /\ t.time <= now
       /\ delayed_work_queue_' = delayed_work_queue_ \ {t}
       /\ IF delayed_work_queue_' = {} THEN UNCHANGED delayed_work_time_
          ELSE \E next \in delayed_work_queue_' :
                 IsTop(next, delayed_work_queue_') /\ delayed_work_time_' = next.time
       /\ RunTask(t, AfterDelayed)
  /\ UNCHANGED <<incoming_queue_, work_queue_, next_delayed_task_sequence_num_, Quiet, msgs,
                 done, count>>

(* The end of HandleTimerMessage. *)
Rearm ==
  /\ At("rearm")
  /\ IF delayed_work_time_ # 0 THEN ScheduleDelayedWork(delayed_work_time_)
     ELSE UNCHANGED <<delayed_work_time_, timer>>
  /\ Return
  /\ UNCHANGED <<tasks, nestable_tasks_allowed_, Quiet, have_work_, have_msg, input, quit_msg,
                 done, count>>

(* DoRunLoop after DoDelayedWork: KillTimer if nothing is left to time,    *)
(* then go round again, or wait if there was nothing to do.                *)
KillTimer ==
  /\ At("kill")
  /\ timer' = IF Top.more /\ delayed_work_time_ = 0 THEN 0 ELSE timer
  /\ ~should_quit => To(IF Top.more THEN "peek" ELSE "wait", FALSE)
  /\ should_quit => To("work", FALSE) \* where LeaveRun is
  /\ UNCHANGED <<tasks, nestable_tasks_allowed_, delayed_work_time_, Quiet, have_work_,
                 have_msg, input, quit_msg, done, count>>

-----------------------------------------------------------------------------
(* WaitForWork *)

(* Mutant of Wait: the timeout is left out. *)
WaitForever ==
  /\ At("wait")
  /\ delayed_work_time_' = 0
  /\ To("sleep", FALSE)
  /\ UNCHANGED <<tasks, nestable_tasks_allowed_, Quiet, msgs, done, count>>

(* Sleep until a message comes, or until delayed_work_time_. *)
Wait ==
  /\ At("wait")
  /\ To("sleep", FALSE)
  /\ UNCHANGED <<tasks, nestable_tasks_allowed_, delayed_work_time_, Quiet, msgs, done, count>>

(* A message is there; or the mouse moved in a child window of another     *)
(* thread, and WaitMessage waits on, without a timeout.                    *)
Wake ==
  /\ At("sleep")
  /\ \/ Available /\ To("peek", FALSE)
     \/ delayed_work_time_ # 0 /\ now >= delayed_work_time_ /\ To("peek", FALSE)
  /\ UNCHANGED <<tasks, nestable_tasks_allowed_, delayed_work_time_, Quiet, msgs, done, count>>

MouseInChild ==
  /\ At("sleep")
  /\ To("message", FALSE)
  /\ UNCHANGED <<tasks, nestable_tasks_allowed_, delayed_work_time_, Quiet, msgs, done, count>>

WaitMessage ==
  /\ At("message")
  /\ Available
  /\ To("peek", FALSE)
  /\ UNCHANGED <<tasks, nestable_tasks_allowed_, delayed_work_time_, Quiet, msgs, done, count>>

-----------------------------------------------------------------------------
(* The modal loops of Windows, and the program's code *)

(* A window procedure or a task, or the thread before Run, makes a call    *)
(* that runs a modal loop; the caller may announce it, set_os_modal_loop.  *)
EnterModal(announced) ==
  /\ InCode \/ (stack = <<>> /\ state_ = "none")
  /\ modals < MaxModals
  /\ modals' = modals + 1
  /\ os_modal_loop_' = (announced \/ os_modal_loop_)
  /\ stack' = Append(stack, [Frame("modal") EXCEPT !.more = announced])
  /\ UNCHANGED <<tasks, nestable_tasks_allowed_, delayed_work_time_, state_, should_quit, msgs,
                 poster_, done, now, posted, inputs>>

(* Mutant of ModalHaveWork: a work message outside Run keeps the flag. *)
ModalHaveWorkKept ==
  /\ At("modal")
  /\ have_msg > 0 /\ have_msg' = have_msg - 1
  /\ IF state_ = "run" THEN stack' = Append(stack, Frame("replace")) ELSE UNCHANGED stack
  /\ UNCHANGED <<tasks, nestable_tasks_allowed_, delayed_work_time_, Quiet, have_work_, input,
                 quit_msg, timer, done, count>>

(* It dispatches kMsgHaveWork: HandleWorkMessage, which outside Run only   *)
(* resets the flag.                                                        *)
ModalHaveWork ==
  /\ At("modal")
  /\ have_msg > 0 /\ have_msg' = have_msg - 1
  /\ \/ /\ state_ = "run"
        /\ stack' = Append(stack, Frame("replace"))
        /\ UNCHANGED have_work_
     \/ /\ state_ # "run"
        /\ have_work_' = 0
        /\ UNCHANGED stack
  /\ UNCHANGED <<tasks, nestable_tasks_allowed_, delayed_work_time_, Quiet, input, quit_msg,
                 timer, done, count>>

(* It dispatches another message; HandleTimerMessage outside Run does      *)
(* nothing more than KillTimer.                                            *)
ModalOther ==
  /\ At("modal")
  /\ \/ TakeInput /\ stack' = Append(stack, Frame("handler"))
     \/ TimerIsFirst /\ TakeTimer /\ stack' = IF state_ = "run" THEN Append(stack, Frame("timer")) ELSE stack
  /\ have_msg > 0 => input > input'
  /\ UNCHANGED <<tasks, nestable_tasks_allowed_, delayed_work_time_, Quiet, have_work_, have_msg,
                 done, count>>

(* The end of a modal loop. *)
LeaveModal ==
  /\ os_modal_loop_' = (os_modal_loop_ /\ ~Top.more)
  /\ Return
  /\ UNCHANGED <<tasks, nestable_tasks_allowed_, delayed_work_time_, state_, should_quit, msgs,
                 poster_, done, count>>

(* It ends when it retrieves WM_QUIT, which it posts again, *)
ModalQuit == At("modal") /\ TakeQuit /\ LeaveModal

(* or when the user answers. *)
ModalEnds == At("modal") /\ LeaveModal

(* The code posts to its own loop, *)
CodePost ==
  /\ InCode /\ Push
  /\ IF incoming_queue_ = <<>> THEN ScheduleWork ELSE UNCHANGED <<have_work_, have_msg>>
  /\ UNCHANGED <<work_queue_, delayed_work_queue_, next_delayed_task_sequence_num_,
                 nestable_tasks_allowed_, delayed_work_time_, Quiet, input, quit_msg, timer,
                 stack, done, now, inputs, modals>>

(* calls PostQuitMessage, as the main window's OnClose does, *)
PostQuitMessage ==
  /\ At("handler") /\ ~quit_msg
  /\ quit_msg' = TRUE
  /\ UNCHANGED <<tasks, nestable_tasks_allowed_, delayed_work_time_, Quiet, have_work_, have_msg,
                 input, timer, stack, done, count>>

(* allows tasks to run in the modal loop it is about to enter, *)
AllowNesting ==
  /\ At("task") /\ ~nestable_tasks_allowed_
  /\ nestable_tasks_allowed_' = TRUE
  /\ To("task", TRUE)
  /\ ScheduleWork
  /\ UNCHANGED <<tasks, delayed_work_time_, Quiet, input, quit_msg, timer, done, count>>

(* or returns; after a task RunTask allows nesting again. *)
CodeReturns ==
  /\ InCode
  /\ \/ /\ At("task")
        /\ nestable_tasks_allowed_' = TRUE
        /\ done' = done \cup {Top.id}
     \/ At("handler") /\ UNCHANGED <<nestable_tasks_allowed_, done>>
  /\ Return
  /\ UNCHANGED <<tasks, delayed_work_time_, Quiet, msgs, count>>

-----------------------------------------------------------------------------
(* WinMessagePump::RunWithDispatcher *)
EnterRun ==
  /\ stack = <<>> /\ state_ = "none"
  /\ state_' = "run"
  /\ stack' = <<Frame("peek")>>
  /\ UNCHANGED <<tasks, nestable_tasks_allowed_, os_modal_loop_, delayed_work_time_, should_quit,
                 msgs, poster_, done, count>>

(* DoRunLoop breaks when a call it made has set should_quit. *)
LeaveRun ==
  /\ InLoop /\ should_quit
  /\ At("work") \/ At("delayed")
  /\ state_' = "left"
  /\ stack' = <<>>
  /\ UNCHANGED <<tasks, nestable_tasks_allowed_, os_modal_loop_, delayed_work_time_, should_quit,
                 msgs, poster_, done, count>>

(* The user does something. *)
InputArrives ==
  /\ inputs < MaxInputs
  /\ inputs' = inputs + 1 /\ input' = input + 1
  /\ UNCHANGED <<tasks, nestable_tasks_allowed_, delayed_work_time_, Quiet, have_work_, have_msg,
                 quit_msg, timer, stack, done, now, posted, modals>>

Tick ==
  /\ now < MaxTime
  /\ now' = now + 1
  /\ UNCHANGED <<tasks, nestable_tasks_allowed_, delayed_work_time_, Quiet, msgs, stack, done,
                 posted, inputs, modals>>

-----------------------------------------------------------------------------
PumpStep ==
  \/ PeekNothing \/ PeekHaveWork \/ PeekOther \/ ReplaceNothing \/ Replace
  \/ DoWorkNone \/ ReloadWorkQueue \/ AddToDelayedWorkQueue \/ DoWorkRun \/ WorkAgain
  \/ DoDelayedWorkNone \/ DoDelayedWorkLater \/ DoDelayedWorkDue \/ Rearm \/ KillTimer
  \/ Wait \/ Wake \/ WaitMessage \/ EnterRun \/ LeaveRun
ModalStep == ModalHaveWork \/ ModalOther \/ ModalQuit
PosterStep(p) == Exchange(p) \/ PostHaveWork(p)

Next ==
  \/ PumpStep \/ ModalStep \/ ModalEnds \/ MouseInChild
  \/ \E announced \in BOOLEAN : EnterModal(announced)
  \/ CodePost \/ PostQuitMessage \/ AllowNesting \/ CodeReturns
  \/ \E p \in Posters : Post(p) \/ PosterStep(p)
  \/ InputArrives \/ Tick

Spec == Init /\ [][Next]_vars

(* The scheduler runs every thread and code returns.  Nobody has to post,  *)
(* to type or to quit, nor to answer a dialog, *)
QuitSpec ==
  /\ Spec
  /\ WF_vars(PumpStep) /\ WF_vars(ModalStep) /\ WF_vars(CodeReturns)
  /\ \A p \in Posters : WF_vars(PosterStep(p))

(* though users do, however busy the dialog's loop is. *)
FairSpec == QuitSpec /\ SF_vars(ModalEnds)

-----------------------------------------------------------------------------
(* Properties *)

(* Every variable keeps the shape of what it stands for. *)
TypeOK ==
  /\ incoming_queue_ \in Seq(Task) /\ work_queue_ \in Seq(Task)
  /\ delayed_work_queue_ \subseteq Task
  /\ next_delayed_task_sequence_num_ \in Nat
  /\ nestable_tasks_allowed_ \in BOOLEAN /\ os_modal_loop_ \in BOOLEAN
  /\ have_work_ \in {0, 1} /\ delayed_work_time_ \in 0..MaxTime
  /\ state_ \in {"none", "run", "left"} /\ should_quit \in BOOLEAN
  /\ have_msg \in Nat /\ input \in 0..MaxInputs /\ quit_msg \in BOOLEAN /\ timer \in Nat
  /\ stack \in Seq([at : FramePCs, id : 0..MaxPosts, more : BOOLEAN])
  /\ poster_ \in [Posters -> {"idle", "exchange", "post"}]
  /\ now \in 1..MaxTime /\ posted \in 0..MaxPosts /\ done \subseteq 1..MaxPosts
  /\ inputs \in 0..MaxInputs /\ modals \in 0..MaxModals

(* have_work_ says whether a kMsgHaveWork is on its way: in the queue, at  *)
(* a poster that has made the exchange, or in the hands of the frame that  *)
(* replaces it.  There is never a second one, so the message peeked by     *)
(* ProcessPumpReplacementMessage is never another kMsgHaveWork.            *)
Replacing == {i \in DOMAIN stack : stack[i].at = "replace"}
OneHaveWork ==
  have_msg + Cardinality({p \in Posters : poster_[p] = "post"}) + Cardinality(Replacing)
    = have_work_

WorkIsComing == have_msg > 0 \/ \E p \in Posters : poster_[p] # "idle"

(* A thread that waits in its own loop will be told of every task still in *)
(* incoming_queue_, whatever became of earlier notices: they are dropped   *)
(* outside Run, and wasted in a modal loop while nesting is not allowed.   *)
IncomingIsAnnounced ==
  (At("sleep") \/ At("message")) /\ incoming_queue_ # <<>> => WorkIsComing

(* In its own loop the thread waits only when no task is left, and not     *)
(* beyond the first delayed one (but for WaitMessage, which has no         *)
(* timeout).                                                               *)
LoopWaitsForNothing ==
  At("sleep") =>
    /\ work_queue_ = <<>>
    /\ \A t \in delayed_work_queue_ : delayed_work_time_ \in 1..t.time

(* An immediate task posted to the thread runs, unless Run is left. *)
ImmediateTasks == {t.id : t \in {u \in {incoming_queue_[i] : i \in DOMAIN incoming_queue_}
                                     \cup {work_queue_[i] : i \in DOMAIN work_queue_} : u.time = 0}}
TasksRun == \A i \in 1..MaxPosts : i \in ImmediateTasks ~> i \in done \/ state_ = "left"

(* ProcessMessageHelper posts WM_QUIT again so that it will be retrieved   *)
(* by the primary loop: that loop is left, whichever loop takes WM_QUIT    *)
(* first.                                                                  *)
QuitLeaves == quit_msg ~> state_ = "left"
=============================================================================
